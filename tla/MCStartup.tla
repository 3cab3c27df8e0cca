----------------------------- MODULE MCStartup -----------------------------
EXTENDS Startup

L(kind) == [kind |-> kind, key |-> "", value |-> <<>>]
KV(key, value) == [kind |-> "pair", key |-> key, value |-> value]
Location(path) == [kind |-> "location", key |-> "", value |-> path]
Name(n) == [kind |-> "pair", key |-> "server_name", value |-> n]

Text(size, number) == [size |-> size, number |-> number]
ListenAt(port) == KV("listen", [colon |-> FALSE, ip |-> <<>>, port |-> port])
ListenOn(ip, port) == KV("listen", [colon |-> TRUE, ip |-> ip, port |-> port])
P1 == Text(2, 81)
P1Padded == Text(4, 81)
P2 == Text(5, 65535)
Loopback == <<Text(3, 127), Text(1, 0), Text(1, 0), Text(1, 1)>>

Server(lines) == <<L("server")>> \o lines \o <<L("close")>>
In(path, lines) == <<Location(path)>> \o lines \o <<L("close")>>
Plain(port, name) == Server(<<ListenAt(port), Name(name)>>)

Plains == {Plain(P1, "a"), Plain(P1Padded, "b"), Plain(P2, "a"), Plain(P2, "c"),
           Plain(Text(2, 82), "b"), Plain(Text(2, 82), "a")}

Root(path) == KV("root", path)
Methods(set) == KV("allowed_methods", set)
Varied == {
  \* a key given twice, a comment, and a word alone
  Server(<<ListenAt(P1), L("other"), ListenAt(P2), Name("a"), Root(<<"x">>), Root(<<"y">>)>>),
  \* a location before and after keys of its server
  Server(In(<<"p">>, <<Root(<<"x">>), Methods({"GET"})>>)
           \o <<ListenAt(P1), Name("a"), Root(<<"y">>)>>
           \o In(<<>>, <<KV("autoindex", FALSE), KV("index", <<"i">>), KV("upload", <<"u">>)>>)),
  \* a location in a location
  Server(<<Name("a")>> \o In(<<"p">>, In(<<"p", "q">>, <<Root(<<"z">>), Name("n")>>) \o <<Root(<<"x">>)>>)
           \o <<KV("client_max_body_size", 10), ListenOn(Loopback, P2)>>),
  \* blocks that are not closed: the server, the location
  <<L("server"), ListenAt(P1), Name("a")>>,
  <<L("server"), ListenAt(P1), Name("a"), Location(<<"p">>), Root(<<"x">>), L("close")>>,
  \* one brace too much, lines outside of blocks
  Plain(P2, "c") \o <<L("close"), KV("listen", <<>>)>> \o In(<<"p">>, <<L("other")>>),
  \* the errors
  Server(<<ListenAt(P1)>>), Server(<<Name("a")>>),
  Server(<<Name("a")>> \o In(NoPathWritten, <<>>) \o <<ListenAt(P1)>>),
  Plain(Text(5, 65536), "a"), Plain(Text(1, 0), "a"), Plain(Text(6, 80), "a"),
  Plain(Text(3, NotANumber), "a"),
  Server(<<Name("a"), ListenOn(Front(Loopback), P1)>>),
  Server(<<Name("a"), ListenOn(Append(Loopback, EmptyText), P1)>>),
  Server(<<Name("a"), ListenOn([Loopback EXCEPT ![1] = Text(3, 256)], P1)>>),
  Server(<<Name("a"), ListenOn([Loopback EXCEPT ![4] = Text(2, 1)], P1)>>) }

MCFiles ==
  {<<>>} \cup Plains \cup Varied
    \cup {a \o b : a, b \in Plains \cup Varied}
    \cup {a \o b \o c : a, b, c \in Plains}
MCPorts == {81, 82}
=============================================================================
