--------------------------- MODULE Configuration ---------------------------
(***************************************************************************)
(* ConfigParser, ServerConf and Route: what a configuration file says.     *)
(* A line is a record of its kind, "server" and "location" for lines that  *)
(* open a block, "close" for the brace that ends one, "pair" for a key and *)
(* its value, "other" for comments and words without a value.              *)
(***************************************************************************)
EXTENDS Integers, Sequences, SequencesExt, FiniteSets, TLC

\* A text that should be a number: its length, and the number when it is all digits.
NotANumber == -1
EmptyText == [size |-> 0, number |-> NotANumber]

\* What nothing between "location" and "{" leaves for the path.
NoPathWritten == <<"location{">>

DefaultRoot == <<"pages">>
DefaultUpload == <<"pages", "upload">>
DefaultMaxBodySize == 1000000
DefaultMethods == {"GET", "HEAD"}

Get(params, key, default) == IF key \in DOMAIN params THEN params[key] ELSE default
NoParams == [key \in {} |-> 0]

\* The last value of a key counts.
\* Mutant: the first one does.
AddKeyValueOnce(params, line) == params @@ (line.key :> line.value)
AddKeyValue(params, line) ==
  [key \in DOMAIN params \cup {line.key} |->
     IF key = line.key THEN line.value ELSE params[key]]

-----------------------------------------------------------------------------
(* The address a server listens on                                         *)

IsValidPort(text) == text.size \in 1 .. 5 /\ text.number \in 1 .. 65535

HasLeadingZero(text) ==
  text.size > 1 /\ text.number < (IF text.size = 2 THEN 10 ELSE 100)

\* getline() does not see an empty segment at the end.
IsValidIPAddress(segments) ==
  LET seen == IF segments # <<>> /\ Last(segments) = EmptyText THEN Front(segments) ELSE segments
  IN /\ Len(seen) = 4
     /\ \A i \in DOMAIN seen :
          seen[i].size \in 1 .. 3 /\ seen[i].number \in 0 .. 255 /\ ~HasLeadingZero(seen[i])

\* The address is checked and never used: a server listens on all of them.
NoListen == [colon |-> FALSE, ip |-> <<>>, port |-> EmptyText]
IsValidListen(listen) ==
  IsValidPort(listen.port) /\ (listen.colon => IsValidIPAddress(listen.ip))

-----------------------------------------------------------------------------
(* Routes and servers                                                      *)

\* A location does not inherit the root of its server; the locations inside it are
\* kept where no one looks for them.
SetRouteParam(url, params) ==
  [url       |-> url,
   root      |-> Get(params, "root", <<>>),
   upload    |-> Get(params, "upload", DefaultUpload),
   methods   |-> Get(params, "allowed_methods", {}),
   index     |-> Get(params, "index", <<>>),
   autoindex |-> Get(params, "autoindex", TRUE)]

SetRoot(params) ==
  IF Get(params, "root", <<>>) = <<>> THEN DefaultRoot ELSE params["root"]

DefaultRoute(params) ==
  SetRouteParam(<<>>, ("root" :> SetRoot(params)) @@ params @@ ("allowed_methods" :> DefaultMethods))

IsValidServer(params) ==
  "server_name" \in DOMAIN params /\ IsValidListen(Get(params, "listen", NoListen))

Conf(params, locations) ==
  [port    |-> Get(params, "listen", NoListen).port.number,
   name    |-> params["server_name"],
   root    |-> SetRoot(params),
   maxBody |-> Get(params, "client_max_body_size", DefaultMaxBodySize),
   routes  |-> Append(locations, DefaultRoute(params))]

-----------------------------------------------------------------------------
(* What a file says, read by the depth of its lines                        *)

Opens(line, depth) == line.kind = (IF depth = 0 THEN "server" ELSE "location")
Closes(line, depth) == line.kind = "close" /\ depth > 0

\* DepthBefore(file)[i] is the number of blocks open before line i.
DepthBefore(file) ==
  LET depth[i \in 1 .. Len(file) + 1] ==
        IF i = 1 THEN 0
        ELSE LET d == depth[i - 1]
             IN CASE Opens(file[i - 1], d) -> d + 1
                  [] Closes(file[i - 1], d) -> d - 1
                  [] OTHER -> d
  IN depth

IsBalanced(file) == DepthBefore(file)[Len(file) + 1] = 0

\* The line that ends the block line i opens.
EndOf(file, i) ==
  LET depth == DepthBefore(file)
  IN CHOOSE j \in i + 1 .. Len(file) :
       /\ depth[j + 1] = depth[i] /\ \A k \in i + 1 .. j : depth[k] > depth[i]

\* Of a set of lines, the last value of each key.
LastValues(file, lines) ==
  [key \in {file[k].key : k \in lines} |->
     file[CHOOSE k \in lines :
            /\ file[k].key = key
            /\ \A l \in lines : file[l].key = key => l <= k].value]

\* The values of the block line i opens: those of its own lines.
OwnLines(file, i, end) ==
  {k \in i + 1 .. end : DepthBefore(file)[k] = DepthBefore(file)[i] + 1 /\ file[k].kind = "pair"}
OwnParams(file, i) == LastValues(file, OwnLines(file, i, EndOf(file, i)))

InOrder(lines) ==
  [n \in 1 .. Cardinality(lines) |->
     CHOOSE i \in lines : Cardinality({j \in lines : j <= i}) = n]

OpeningLines(file, lines, d) ==
  {i \in lines : DepthBefore(file)[i] = d /\ Opens(file[i], d)}

LocationsAt(file, lines) ==
  [n \in 1 .. Cardinality(lines) |->
     LET i == InOrder(lines)[n] IN SetRouteParam(file[i].value, OwnParams(file, i))]
WrittenLocations(file, i) ==
  LocationsAt(file, OpeningLines(file, i + 1 .. EndOf(file, i), 1))

IsValidFile(file) ==
  /\ IsBalanced(file)
  /\ \A i \in DOMAIN file :
       LET d == DepthBefore(file)[i]
       IN Opens(file[i], d) =>
            IF d = 0 THEN IsValidServer(OwnParams(file, i)) ELSE file[i].value # NoPathWritten

ServersAt(file, lines) ==
  [n \in 1 .. Cardinality(lines) |->
     LET i == InOrder(lines)[n] IN Conf(OwnParams(file, i), WrittenLocations(file, i))]
Written(file) == ServersAt(file, OpeningLines(file, DOMAIN file, 0))
=============================================================================
