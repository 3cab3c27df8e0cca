--------------------------- MODULE SessionsProofs ---------------------------
(***************************************************************************)
(* Proofs about Sessions, for any browsers, connections, seconds and       *)
(* generator, where browsers put session_id before the cookies of others:  *)
(* the session of a request is in the map, a session that is presented is  *)
(* kept, and users only share one that was made for each of them.          *)
(***************************************************************************)
EXTENDS Sessions, TLAPS

\* A cookie named session_id holds the key of its session.
MapOK(map) ==
  \A id \in DOMAIN map :
    "session_id" \in DOMAIN map[id] => map[id]["session_id"] = id

KnownIn(map, id) ==
  \/ id = 0
  \/ /\ id \in DOMAIN map /\ "session_id" \in DOMAIN map[id]
     /\ map[id]["session_id"] = id

\* No session is lost from m to n.
Keeps(m, n) == MapOK(n) /\ \A id : KnownIn(m, id) => KnownIn(n, id)

-----------------------------------------------------------------------------
(* The session map                                                         *)

LEMMA FindKeeps ==
  ASSUME NEW map, MapOK(map), NEW id
  PROVE  Keeps(map, Find(map, id)) /\ id \in DOMAIN Find(map, id)
<1> DEFINE n == Find(map, id)
<1>1. /\ DOMAIN n = DOMAIN map \cup {id}
      /\ \A k \in DOMAIN map : n[k] = map[k]
      /\ id \notin DOMAIN map => DOMAIN n[id] = {}
  BY DEF Find, Insert, NoCookies
<1> HIDE DEF n
<1>2. MapOK(n)
  BY <1>1 DEF MapOK
<1>3. \A k : KnownIn(map, k) => KnownIn(n, k)
  BY <1>1 DEF KnownIn
<1> QED
  BY <1>1, <1>2, <1>3 DEF Keeps, n

LEMMA AddCookieKeeps ==
  ASSUME NEW map, MapOK(map), NEW id
  PROVE  LET n == AddCookie(map, id, "session_id", id)
         IN Keeps(map, n) /\ KnownIn(n, id)
<1> DEFINE f == Find(map, id)
           n == AddCookie(map, id, "session_id", id)
<1>1. Keeps(map, f) /\ id \in DOMAIN f
  BY FindKeeps
<1>2. n = [f EXCEPT ![id] = Insert(f[id], "session_id", id)]
  BY DEF AddCookie
<1> HIDE DEF f, n
<1>3. DOMAIN n = DOMAIN f /\ n[id] = Insert(f[id], "session_id", id)
      /\ \A k \in DOMAIN f : k # id => n[k] = f[k]
  BY <1>1, <1>2
<1>4. "session_id" \in DOMAIN n[id] /\ n[id]["session_id"] = id
  <2>1. "session_id" \in DOMAIN f[id] => f[id]["session_id"] = id
    BY <1>1 DEF Keeps, MapOK
  <2> QED BY <1>3, <2>1 DEF Insert
<1>5. MapOK(n)
  BY <1>1, <1>3, <1>4 DEF Keeps, MapOK
<1>6. KnownIn(n, id)
  BY <1>1, <1>3, <1>4 DEF KnownIn
<1>7. \A k : KnownIn(map, k) => KnownIn(n, k)
  BY <1>1, <1>3, <1>6 DEF Keeps, KnownIn
<1> QED
  BY <1>5, <1>6, <1>7 DEF Keeps, n

-----------------------------------------------------------------------------
(* The headers of a request                                                *)

Fields == {"session", "map", "made"}

\* r is what some headers of u make of b.
Parsed(u, b, r) ==
  /\ DOMAIN r = Fields
  /\ Keeps(b.map, r.map) /\ KnownIn(r.map, r.session)
  /\ \/ r.session = b.session
     \/ r.session = jar[u] /\ jar[u] # 0
     \/ r.made /\ r.session = Rand[now]
  /\ r.made \in BOOLEAN /\ (b.made => r.made)

IsParsing(b) ==
  DOMAIN b = Fields /\ MapOK(b.map) /\ KnownIn(b.map, b.session) /\ b.made \in BOOLEAN

LEMMA NothingIsParsed ==
  ASSUME NEW u, NEW b, IsParsing(b)
  PROVE  Parsed(u, b, b)
  BY DEF IsParsing, Parsed, Keeps

LEMMA SessionIsParsed ==
  ASSUME NEW u, NEW b, IsParsing(b)
  PROVE  LET r == AddAsHeaderVar(b, SessionHeader)
         IN Parsed(u, b, r) /\ (b.session # 0 => r.session = b.session)
<1>1. CASE b.session # 0
  <2>1. AddAsHeaderVar(b, SessionHeader) = b
    BY <1>1 DEF AddAsHeaderVar, SessionHeader
  <2> QED BY <2>1, NothingIsParsed
<1>2. CASE b.session = 0
  <2> DEFINE n == AddCookie(b.map, Rand[now], "session_id", Rand[now])
  <2>1. AddAsHeaderVar(b, SessionHeader) = [session |-> Rand[now], map |-> n, made |-> TRUE]
    BY <1>2 DEF AddAsHeaderVar, SessionHeader, GeneratePseudoRandomNumber
  <2>2. Keeps(b.map, n) /\ KnownIn(n, Rand[now])
    BY AddCookieKeeps DEF IsParsing
  <2> HIDE DEF n
  <2> QED BY <1>2, <2>1, <2>2 DEF Parsed, Fields
<1> QED
  BY <1>1, <1>2

\* A cookie of another server is no session; otherwise session_id comes first.
LEMMA CookieIsParsed ==
  ASSUME SessionFirst, NEW u, NEW b, IsParsing(b), NEW pairs \in CookieHeaders(u)
  PROVE  LET r == AddAsHeaderVar(b, CookieHeader(pairs))
         IN /\ Parsed(u, b, r)
            /\ r.session = IF jar[u] = 0 THEN b.session ELSE jar[u]
<1>1. CASE jar[u] = 0
  <2>1. PICK n \in Others : pairs = <<Pair("other", n)>>
    BY <1>1 DEF CookieHeaders
  <2>2. AddAsHeaderVar(b, CookieHeader(pairs)) = b
    BY <2>1 DEF AddAsHeaderVar, CookieHeader, Pair
  <2> QED BY <1>1, <2>2, NothingIsParsed
<1>2. CASE jar[u] # 0
  <2>1. 1 \in DOMAIN pairs /\ pairs[1].key = "session_id" /\ pairs[1].value = jar[u]
    BY <1>2 DEF CookieHeaders, Pair
  <2> DEFINE n == AddCookie(b.map, jar[u], "session_id", jar[u])
  <2>2. AddAsHeaderVar(b, CookieHeader(pairs)) = [b EXCEPT !.session = jar[u], !.map = n]
    BY <2>1 DEF AddAsHeaderVar, CookieHeader
  <2>3. Keeps(b.map, n) /\ KnownIn(n, jar[u])
    BY AddCookieKeeps DEF IsParsing
  <2> HIDE DEF n
  <2> QED BY <1>2, <2>2, <2>3 DEF Parsed, IsParsing, Fields
<1> QED
  BY <1>1, <1>2

LEMMA ParsedAgain ==
  ASSUME NEW u, NEW a, NEW b, NEW r, IsParsing(a), Parsed(u, a, b), Parsed(u, b, r)
  PROVE  Parsed(u, a, r) /\ IsParsing(b)
  BY DEF Parsed, Keeps, IsParsing

LEMMA HeadersAreParsed ==
  ASSUME SessionFirst, NEW u, NEW b, IsParsing(b), NEW headers \in RequestHeaders(u)
  PROVE  LET r == ParseHeaders(b, headers)
         IN Parsed(u, b, r) /\ (jar[u] # 0 => r.session = jar[u])
<1> DEFINE r == ParseHeaders(b, headers)
<1>1. CASE headers = <<>> /\ jar[u] = 0
  BY <1>1, NothingIsParsed DEF ParseHeaders
<1>2. CASE headers = <<SessionHeader>> /\ jar[u] = 0
  <2>1. r = AddAsHeaderVar(b, SessionHeader)
    BY <1>2 DEF ParseHeaders
  <2> QED BY <1>2, <2>1, SessionIsParsed
<1>3. ASSUME NEW pairs \in CookieHeaders(u), headers = <<CookieHeader(pairs)>>
      PROVE  Parsed(u, b, r) /\ (jar[u] # 0 => r.session = jar[u])
  <2>1. r = AddAsHeaderVar(b, CookieHeader(pairs))
    BY <1>3 DEF ParseHeaders
  <2> QED BY <2>1, CookieIsParsed
<1>4. ASSUME NEW pairs \in CookieHeaders(u), headers = <<CookieHeader(pairs), SessionHeader>>
      PROVE  Parsed(u, b, r) /\ (jar[u] # 0 => r.session = jar[u])
  <2> DEFINE s == AddAsHeaderVar(b, CookieHeader(pairs))
  <2>1. Parsed(u, b, s) /\ (jar[u] # 0 => s.session = jar[u])
    BY CookieIsParsed
  <2>2. r = AddAsHeaderVar(s, SessionHeader)
    BY <1>4 DEF ParseHeaders
  <2> HIDE DEF r, s
  <2>3. IsParsing(s)
    BY <2>1 DEF Parsed, Keeps, IsParsing
  <2>4. Parsed(u, s, r) /\ (s.session # 0 => r.session = s.session)
    BY <2>2, <2>3, SessionIsParsed
  <2> QED BY <2>1, <2>4, ParsedAgain
<1>5. ASSUME NEW pairs \in CookieHeaders(u), headers = <<SessionHeader, CookieHeader(pairs)>>
      PROVE  Parsed(u, b, r) /\ (jar[u] # 0 => r.session = jar[u])
  <2> DEFINE s == AddAsHeaderVar(b, SessionHeader)
  <2>1. Parsed(u, b, s)
    BY SessionIsParsed
  <2>2. r = AddAsHeaderVar(s, CookieHeader(pairs))
    BY <1>5 DEF ParseHeaders
  <2> HIDE DEF r, s
  <2>3. IsParsing(s)
    BY <2>1 DEF Parsed, Keeps, IsParsing
  <2>4. Parsed(u, s, r) /\ (jar[u] # 0 => r.session = jar[u])
    BY <2>2, <2>3, CookieIsParsed
  <2> QED BY <2>1, <2>4, ParsedAgain
<1> HIDE DEF r
<1>6. \/ headers = <<>> /\ jar[u] = 0
      \/ headers = <<SessionHeader>> /\ jar[u] = 0
      \/ \E pairs \in CookieHeaders(u) :
           headers \in {<<CookieHeader(pairs)>>, <<CookieHeader(pairs), SessionHeader>>,
                        <<SessionHeader, CookieHeader(pairs)>>}
  BY DEF RequestHeaders
<1> QED
  BY <1>1, <1>2, <1>3, <1>4, <1>5, <1>6 DEF r

-----------------------------------------------------------------------------
(* Types, whichever cookie a browser puts first                            *)

MapType(map) ==
  /\ DOMAIN map \subseteq Nat
  /\ \A id \in DOMAIN map :
       DOMAIN map[id] \subseteq Keys /\ \A key \in DOMAIN map[id] : map[id][key] \in Nat

ParsingType(r) ==
  DOMAIN r = Fields /\ r.session \in Nat /\ MapType(r.map) /\ r.made \in BOOLEAN

LEMMA FindType ==
  ASSUME NEW map, MapType(map), NEW id \in Nat
  PROVE  MapType(Find(map, id)) /\ id \in DOMAIN Find(map, id)
<1> DEFINE n == Find(map, id)
<1>1. /\ DOMAIN n = DOMAIN map \cup {id}
      /\ \A k \in DOMAIN map : n[k] = map[k]
      /\ id \notin DOMAIN map => DOMAIN n[id] = {}
  BY DEF Find, Insert, NoCookies
<1> HIDE DEF n
<1>2. MapType(n) /\ id \in DOMAIN n
  BY <1>1 DEF MapType
<1> QED
  BY <1>2 DEF n

LEMMA AddCookieType ==
  ASSUME NEW map, MapType(map), NEW id \in Nat, NEW key \in Keys, NEW value \in Nat
  PROVE  MapType(AddCookie(map, id, key, value))
<1> DEFINE f == Find(map, id)
           s == Insert(f[id], key, value)
           n == AddCookie(map, id, key, value)
<1>1. MapType(f) /\ id \in DOMAIN f
  BY FindType
<1>2. n = [f EXCEPT ![id] = s]
  BY DEF AddCookie
<1>3. DOMAIN s \subseteq Keys /\ \A k \in DOMAIN s : s[k] \in Nat
  <2> HIDE DEF f
  <2> QED BY <1>1 DEF MapType, Insert
<1> HIDE DEF f, s, n
<1>4. DOMAIN n = DOMAIN f /\ n[id] = s /\ \A k \in DOMAIN f : k # id => n[k] = f[k]
  BY <1>1, <1>2
<1>5. MapType(n)
  BY <1>1, <1>3, <1>4 DEF MapType
<1> QED
  BY <1>5 DEF n

LEMMA SessionHeaderType ==
  ASSUME now \in Seconds, NEW r, ParsingType(r)
  PROVE  ParsingType(AddAsHeaderVar(r, SessionHeader))
<1>1. Rand[now] \in Nat
  BY SessionsAssumption DEF Seconds
<1>2. CASE r.session # 0
  <2>1. AddAsHeaderVar(r, SessionHeader) = r
    BY <1>2 DEF AddAsHeaderVar, SessionHeader
  <2> QED BY <2>1
<1>3. CASE r.session = 0
  <2> DEFINE n == AddCookie(r.map, Rand[now], "session_id", Rand[now])
  <2>1. AddAsHeaderVar(r, SessionHeader) = [session |-> Rand[now], map |-> n, made |-> TRUE]
    BY <1>3 DEF AddAsHeaderVar, SessionHeader, GeneratePseudoRandomNumber
  <2>2. MapType(n)
    <3>1. "session_id" \in Keys /\ MapType(r.map)
      BY DEF Keys, ParsingType
    <3> QED BY <1>1, <3>1, AddCookieType
  <2> HIDE DEF n
  <2> QED BY <1>1, <2>1, <2>2 DEF ParsingType, Fields
<1> QED
  BY <1>2, <1>3

LEMMA CookieHeaderType ==
  ASSUME NEW u, jar[u] \in Nat, NEW pairs \in CookieHeaders(u), NEW r, ParsingType(r)
  PROVE  ParsingType(AddAsHeaderVar(r, CookieHeader(pairs)))
<1> DEFINE first == pairs[1]
           q == AddAsHeaderVar(r, CookieHeader(pairs))
<1>1. first.key \in Keys /\ first.value \in Nat
  <2>1. \/ pairs = <<Pair("session_id", jar[u])>>
        \/ \E n \in Others :
             pairs \in {<<Pair("other", n)>>, <<Pair("session_id", jar[u]), Pair("other", n)>>,
                        <<Pair("other", n), Pair("session_id", jar[u])>>}
    BY DEF CookieHeaders
  <2>2. Others \subseteq Nat
    BY SessionsAssumption
  <2> QED BY <2>1, <2>2 DEF Pair, Keys
<1>2. CASE \E i \in DOMAIN pairs : pairs[i].key = "session_id"
  <2> DEFINE n == AddCookie(r.map, first.value, first.key, first.value)
  <2>1. q = [r EXCEPT !.session = first.value, !.map = n]
    BY <1>2 DEF AddAsHeaderVar, CookieHeader
  <2>2. MapType(n)
    BY <1>1, AddCookieType DEF ParsingType
  <2> HIDE DEF n, first, q
  <2>3. ParsingType(q)
    BY <1>1, <2>1, <2>2 DEF ParsingType, Fields
  <2> QED BY <2>3 DEF q
<1>3. CASE ~\E i \in DOMAIN pairs : pairs[i].key = "session_id"
  <2>1. q = r
    BY <1>3 DEF AddAsHeaderVar, CookieHeader
  <2> QED BY <2>1
<1> QED
  BY <1>2, <1>3

LEMMA HeadersType ==
  ASSUME now \in Seconds, NEW u, jar[u] \in Nat, NEW headers \in RequestHeaders(u),
         NEW r, ParsingType(r)
  PROVE  ParsingType(ParseHeaders(r, headers))
<1>1. \/ headers = <<>> \/ headers = <<SessionHeader>>
      \/ \E pairs \in CookieHeaders(u) :
           headers \in {<<CookieHeader(pairs)>>, <<CookieHeader(pairs), SessionHeader>>,
                        <<SessionHeader, CookieHeader(pairs)>>}
  BY DEF RequestHeaders
<1>2. CASE headers = <<>>
  BY <1>2 DEF ParseHeaders
<1>3. CASE headers = <<SessionHeader>>
  <2>1. ParseHeaders(r, headers) = AddAsHeaderVar(r, SessionHeader)
    BY <1>3 DEF ParseHeaders
  <2> QED BY <2>1, SessionHeaderType
<1>4. ASSUME NEW pairs \in CookieHeaders(u), headers = <<CookieHeader(pairs)>>
      PROVE  ParsingType(ParseHeaders(r, headers))
  <2>1. ParseHeaders(r, headers) = AddAsHeaderVar(r, CookieHeader(pairs))
    BY <1>4 DEF ParseHeaders
  <2> QED BY <2>1, CookieHeaderType
<1>5. ASSUME NEW pairs \in CookieHeaders(u), headers = <<CookieHeader(pairs), SessionHeader>>
      PROVE  ParsingType(ParseHeaders(r, headers))
  <2>1. ParseHeaders(r, headers) = AddAsHeaderVar(AddAsHeaderVar(r, CookieHeader(pairs)), SessionHeader)
    BY <1>5 DEF ParseHeaders
  <2> QED BY <2>1, CookieHeaderType, SessionHeaderType
<1>6. ASSUME NEW pairs \in CookieHeaders(u), headers = <<SessionHeader, CookieHeader(pairs)>>
      PROVE  ParsingType(ParseHeaders(r, headers))
  <2>1. ParseHeaders(r, headers) = AddAsHeaderVar(AddAsHeaderVar(r, SessionHeader), CookieHeader(pairs))
    BY <1>6 DEF ParseHeaders
  <2> QED BY <2>1, CookieHeaderType, SessionHeaderType
<1> QED
  BY <1>1, <1>2, <1>3, <1>4, <1>5, <1>6

LEMMA TypeKept == TypeOK /\ [Next]_vars => TypeOK'
<1> SUFFICES ASSUME TypeOK, [Next]_vars PROVE TypeOK'
  OBVIOUS
<1> DEFINE Conns == [phase : {"closed", "waiting", "answering"}, session : Nat, presented : Nat]
<1>0. /\ now \in Seconds /\ MapType(sessions) /\ conn \in [Connections -> Conns]
      /\ jar \in [Users -> Nat] /\ given \subseteq Users \X Seconds
  BY DEF TypeOK, MapType
<1>a. Closed \in Conns /\ NewConnection \in Conns
  BY DEF Closed, NewConnection
<1>b. \A c \in Connections : Owner[c] \in Users /\ jar[Owner[c]] \in Nat
  BY <1>0, SessionsAssumption
<1>c. MapType([id \in {} |-> NoCookies])
  BY DEF MapType
<1>d. /\ now' \in Seconds /\ MapType(sessions') /\ conn' \in [Connections -> Conns]
      /\ jar' \in [Users -> Nat] /\ given' \subseteq Users \X Seconds
      => TypeOK'
  BY DEF TypeOK, MapType
<1> HIDE DEF Conns
<1>1. ASSUME NEW c \in Connections, AcceptNewConnection(c) PROVE TypeOK'
  BY <1>0, <1>a, <1>1, <1>d DEF AcceptNewConnection
<1>2. ASSUME NEW c \in Connections, NEW headers \in RequestHeaders(Owner[c]),
             ReceiveHeaders(c, headers)
      PROVE  TypeOK'
  <2> DEFINE r == ParseHeaders(Parsing(conn[c].session, sessions), headers)
             slot == [phase |-> "answering", session |-> r.session, presented |-> jar[Owner[c]]]
  <2>1. conn[c].session \in Nat
    BY <1>0 DEF Conns
  <2>2. ParsingType(Parsing(conn[c].session, sessions))
    BY <1>0, <2>1 DEF ParsingType, Parsing, Fields
  <2>3. ParsingType(r)
    BY <1>0, <1>b, <2>2, HeadersType
  <2>4. /\ sessions' = r.map /\ conn' = [conn EXCEPT ![c] = slot] /\ now' = now /\ jar' = jar
        /\ given' = given \/ given' = given \cup {<<Owner[c], now>>}
    BY <1>2 DEF ReceiveHeaders
  <2> HIDE DEF r
  <2>5. slot \in Conns /\ MapType(r.map)
    BY <1>b, <2>3 DEF ParsingType, Conns
  <2> HIDE DEF slot
  <2>6. given' \subseteq Users \X Seconds
    BY <1>0, <1>b, <2>4
  <2> QED BY <1>0, <1>d, <2>4, <2>5, <2>6
<1>3. ASSUME NEW c \in Connections, Answer(c) PROVE TypeOK'
  <2>1. conn[c].session \in Nat /\ [conn[c] EXCEPT !.phase = "waiting", !.presented = 0] \in Conns
    BY <1>0 DEF Conns
  <2>2. MapType(Find(sessions, conn[c].session))
        /\ conn[c].session \in DOMAIN Find(sessions, conn[c].session)
    BY <1>0, <2>1, FindType
  <2>3. "session_id" \in DOMAIN SetCookies(c) => SetCookies(c)["session_id"] \in Nat
    BY <2>2 DEF SetCookies, NoCookies, MapType
  <2>4. jar' \in [Users -> Nat]
    BY <1>0, <1>3, <2>3 DEF Answer
  <2>5. conn' \in [Connections -> Conns]
    BY <1>0, <1>3, <2>1 DEF Answer
  <2>6. sessions' = Find(sessions, conn[c].session) /\ now' = now /\ given' = given
    BY <1>3 DEF Answer
  <2> QED BY <1>0, <1>d, <2>2, <2>4, <2>5, <2>6
<1>4. ASSUME NEW c \in Connections, RemoveConnection(c) PROVE TypeOK'
  BY <1>0, <1>a, <1>4, <1>d DEF RemoveConnection
<1>5. ASSUME NEW u \in Users, ForgetCookies(u) PROVE TypeOK'
  BY <1>0, <1>5, <1>d DEF ForgetCookies
<1>6. CASE Restart
  BY <1>0, <1>a, <1>c, <1>6, <1>d DEF Restart
<1>7. CASE Tick
  BY <1>0, <1>7, <1>d, SessionsAssumption DEF Tick, Seconds
<1>8. CASE UNCHANGED vars
  BY <1>8 DEF vars, TypeOK
<1> QED
  BY <1>1, <1>2, <1>3, <1>4, <1>5, <1>6, <1>7, <1>8 DEF Next

-----------------------------------------------------------------------------
(* The invariant                                                           *)

\* u was given the session id.
MadeFor(g, id, u) == \E t \in Seconds : <<u, t>> \in g /\ Rand[t] = id

Slots == {"phase", "session", "presented"}

IInv ==
  /\ now \in Seconds
  /\ MapOK(sessions)
  /\ DOMAIN conn = Connections /\ DOMAIN jar = Users
  /\ \A c \in Connections :
       /\ DOMAIN conn[c] = Slots
       /\ KnownIn(sessions, conn[c].session)
       /\ conn[c].phase = "closed" => conn[c].session = 0
       /\ conn[c].session # 0 => MadeFor(given, conn[c].session, Owner[c])
       /\ conn[c].phase # "answering" => conn[c].presented = 0
       /\ conn[c].presented # 0 => conn[c].session = conn[c].presented
  /\ \A u \in Users : jar[u] # 0 => MadeFor(given, jar[u], u)

LEMMA InitIInv == Init => IInv
  BY SessionsAssumption DEF Init, IInv, Closed, NewConnection, MapOK, KnownIn, Seconds, Slots

\* Every variable keeps its type, whichever of its cookies a browser puts first:
\* a session and the cookies that are kept of it are numbers (Request.cpp:333).
THEOREM TypeCorrect == Spec => []TypeOK
<1>1. Init => TypeOK
  BY SessionsAssumption DEF Init, TypeOK, Closed, NewConnection, Seconds
<1> QED
  BY <1>1, TypeKept, PTL DEF Spec

\* The session of an answer, and the cookie that names it.
LEMMA SetCookiesNameIt ==
  ASSUME IInv, NEW c \in Connections, "session_id" \in DOMAIN SetCookies(c)
  PROVE  conn[c].session # 0 /\ SetCookies(c)["session_id"] = conn[c].session
<1> DEFINE id == conn[c].session
<1>1. id # 0 /\ SetCookies(c) = Find(sessions, id)[id]
  BY DEF SetCookies, NoCookies
<1>2. MapOK(Find(sessions, id)) /\ id \in DOMAIN Find(sessions, id)
  BY FindKeeps DEF IInv, Keeps
<1> QED
  BY <1>1, <1>2 DEF MapOK

LEMMA ReceiveHeadersIInv ==
  ASSUME SessionFirst, IInv, NEW c \in Connections,
         NEW headers \in RequestHeaders(Owner[c]), ReceiveHeaders(c, headers)
  PROVE  IInv'
<1> DEFINE u == Owner[c]
           b == Parsing(conn[c].session, sessions)
           r == ParseHeaders(b, headers)
<1>1. u \in Users
  BY SessionsAssumption
<1>2. IsParsing(b) /\ b.session = conn[c].session /\ b.map = sessions
  BY DEF IInv, IsParsing, Parsing, Fields
<1>3. Parsed(u, b, r) /\ (jar[u] # 0 => r.session = jar[u])
  BY <1>2, HeadersAreParsed
<1>4. /\ sessions' = r.map
      /\ conn' = [conn EXCEPT ![c] = [phase |-> "answering", session |-> r.session,
                                      presented |-> jar[u]]]
      /\ given' = (IF r.made THEN given \cup {<<u, now>>} ELSE given)
      /\ now' = now /\ jar' = jar
  BY DEF ReceiveHeaders
<1> HIDE DEF u, b, r
<1>5. Keeps(sessions, sessions') /\ KnownIn(sessions', r.session)
  BY <1>2, <1>3, <1>4 DEF Parsed
<1>6. \A id, v : MadeFor(given, id, v) => MadeFor(given', id, v)
  BY <1>4 DEF MadeFor
<1>7. r.session # 0 => MadeFor(given', r.session, u)
  <2>1. CASE r.session = conn[c].session
    BY <1>6, <2>1 DEF IInv, u
  <2>2. CASE r.session = jar[u] /\ jar[u] # 0
    BY <1>1, <1>6, <2>2 DEF IInv
  <2>3. CASE r.made /\ r.session = Rand[now]
    BY <1>4, <2>3 DEF IInv, MadeFor
  <2> QED BY <1>2, <1>3, <2>1, <2>2, <2>3 DEF Parsed
<1>8. ASSUME NEW k \in Connections
      PROVE  /\ DOMAIN conn'[k] = Slots
             /\ KnownIn(sessions', conn'[k].session)
             /\ conn'[k].phase = "closed" => conn'[k].session = 0
             /\ conn'[k].session # 0 => MadeFor(given', conn'[k].session, Owner[k])
             /\ conn'[k].phase # "answering" => conn'[k].presented = 0
             /\ conn'[k].presented # 0 => conn'[k].session = conn'[k].presented
  <2>1. CASE k = c
    BY <1>3, <1>4, <1>5, <1>7, <2>1 DEF IInv, Slots, u
  <2>2. CASE k # c
    BY <1>4, <1>5, <1>6, <2>2 DEF IInv, Keeps
  <2> QED BY <2>1, <2>2
<1>9. \A v \in Users : jar'[v] # 0 => MadeFor(given', jar'[v], v)
  BY <1>4, <1>6 DEF IInv
<1>10. now' \in Seconds /\ MapOK(sessions') /\ DOMAIN conn' = Connections /\ DOMAIN jar' = Users
  BY <1>4, <1>5 DEF IInv, Keeps
<1> QED
  BY <1>8, <1>9, <1>10 DEF IInv

LEMMA AnswerIInv ==
  ASSUME IInv, NEW c \in Connections, Answer(c)
  PROVE  IInv'
<1>1. /\ sessions' = Find(sessions, conn[c].session)
      /\ jar' = (IF "session_id" \in DOMAIN SetCookies(c)
                 THEN [jar EXCEPT ![Owner[c]] = SetCookies(c)["session_id"]] ELSE jar)
      /\ conn' = [conn EXCEPT ![c] = [conn[c] EXCEPT !.phase = "waiting", !.presented = 0]]
      /\ now' = now /\ given' = given
  BY DEF Answer
<1>2. Keeps(sessions, sessions')
  BY <1>1, FindKeeps DEF IInv
<1>3. \A id, v : MadeFor(given, id, v) => MadeFor(given', id, v)
  BY <1>1 DEF MadeFor
<1>4. ASSUME NEW k \in Connections
      PROVE  /\ DOMAIN conn'[k] = Slots
             /\ KnownIn(sessions', conn'[k].session)
             /\ conn'[k].phase = "closed" => conn'[k].session = 0
             /\ conn'[k].session # 0 => MadeFor(given', conn'[k].session, Owner[k])
             /\ conn'[k].phase # "answering" => conn'[k].presented = 0
             /\ conn'[k].presented # 0 => conn'[k].session = conn'[k].presented
  <2>1. CASE k = c
    <3>1. /\ conn'[k].session = conn[c].session /\ conn'[k].phase = "waiting"
          /\ conn'[k].presented = 0 /\ DOMAIN conn'[k] = Slots
      BY <1>1, <2>1 DEF IInv, Slots
    <3> QED BY <1>2, <1>3, <2>1, <3>1 DEF IInv, Keeps
  <2>2. CASE k # c
    BY <1>1, <1>2, <1>3, <2>2 DEF IInv, Keeps
  <2> QED BY <2>1, <2>2
<1>5. ASSUME NEW v \in Users, jar'[v] # 0
      PROVE  MadeFor(given', jar'[v], v)
  <2>1. CASE jar'[v] = jar[v]
    BY <1>3, <1>5, <2>1 DEF IInv
  <2>2. CASE "session_id" \in DOMAIN SetCookies(c) /\ v = Owner[c]
    <3>1. jar'[v] = conn[c].session /\ conn[c].session # 0
      BY <1>1, <2>2, SetCookiesNameIt DEF IInv
    <3> QED BY <1>3, <2>2, <3>1 DEF IInv
  <2> QED BY <1>1, <2>1, <2>2 DEF IInv
<1>6. now' \in Seconds /\ MapOK(sessions') /\ DOMAIN conn' = Connections /\ DOMAIN jar' = Users
  BY <1>1, <1>2 DEF IInv, Keeps
<1> QED
  BY <1>4, <1>5, <1>6 DEF IInv

LEMMA NextIInv ==
  ASSUME SessionFirst
  PROVE  IInv /\ [Next]_vars => IInv'
<1> SUFFICES ASSUME IInv, [Next]_vars
             PROVE  IInv'
  OBVIOUS
<1>1. ASSUME NEW c \in Connections, AcceptNewConnection(c)
      PROVE  IInv'
  BY <1>1 DEF AcceptNewConnection, NewConnection, IInv, KnownIn, MadeFor, Slots
<1>2. ASSUME NEW c \in Connections, RemoveConnection(c)
      PROVE  IInv'
  BY <1>2 DEF RemoveConnection, Closed, NewConnection, IInv, KnownIn, MadeFor, Slots
<1>3. ASSUME NEW u \in Users, ForgetCookies(u)
      PROVE  IInv'
  BY <1>3 DEF ForgetCookies, IInv, MadeFor
<1>4. CASE Restart
  BY <1>4 DEF Restart, Closed, NewConnection, IInv, KnownIn, MapOK, MadeFor, Slots
<1>5. CASE Tick
  BY <1>5, SessionsAssumption DEF Tick, IInv, MadeFor, Seconds
<1>6. CASE UNCHANGED vars
  BY <1>6 DEF vars, IInv, MadeFor
<1> QED
  BY <1>1, <1>2, <1>3, <1>4, <1>5, <1>6, ReceiveHeadersIInv, AnswerIInv DEF Next

THEOREM Inductive ==
  ASSUME SessionFirst
  PROVE  Spec => []IInv
<1>1. IInv /\ [Next]_vars => IInv'
  BY NextIInv
<1> QED
  BY <1>1, InitIInv, PTL DEF Spec

-----------------------------------------------------------------------------
(* The properties                                                          *)

\* The session of a request is in the map, under the cookie that names it.
THEOREM SessionsAreKnown ==
  ASSUME SessionFirst
  PROVE  Spec => []SessionIsKnown
<1>1. IInv => SessionIsKnown
  BY DEF IInv, SessionIsKnown, KnownIn
<1> QED
  BY <1>1, Inductive, PTL

\* Two users are in one session only if it was made for each of them.
THEOREM SessionsAreShared ==
  ASSUME SessionFirst
  PROVE  Spec => []SharedOnlyWithinASecond
<1>1. IInv => SharedOnlyWithinASecond
  BY DEF IInv, SharedOnlyWithinASecond, MadeFor
<1> QED
  BY <1>1, Inductive, PTL

\* A browser that presents a session is answered with it.
THEOREM SessionsAreKept ==
  ASSUME SessionFirst
  PROVE  Spec => PresentedSessionIsKept
<1> DEFINE Kept == \A c \in Connections :
                     Answer(c) /\ conn[c].presented # 0 => jar'[Owner[c]] = conn[c].presented
<1>1. ASSUME IInv, NEW c \in Connections, Answer(c), conn[c].presented # 0
      PROVE  jar'[Owner[c]] = conn[c].presented
  <2> DEFINE id == conn[c].session
  <2>1. id # 0 /\ id = conn[c].presented /\ KnownIn(sessions, id)
    BY <1>1 DEF IInv
  <2>2. "session_id" \in DOMAIN SetCookies(c)
    <3>1. Find(sessions, id)[id] = sessions[id] /\ "session_id" \in DOMAIN sessions[id]
      BY <2>1 DEF KnownIn, Find, Insert
    <3> QED BY <2>1, <3>1 DEF SetCookies
  <2>3. SetCookies(c)["session_id"] = id
    BY <1>1, <2>2, SetCookiesNameIt
  <2>4. Owner[c] \in DOMAIN jar
    BY <1>1, SessionsAssumption DEF IInv
  <2> QED
    BY <1>1, <2>1, <2>2, <2>3, <2>4 DEF Answer
<1>2. IInv /\ [Next]_vars => [Kept]_vars
  BY <1>1
<1> QED
  BY <1>2, Inductive, PTL DEF Spec, PresentedSessionIsKept
=============================================================================
