-------------------------------- MODULE Site --------------------------------
(***************************************************************************)
(* Router and Route: which route a URL belongs to and which file of the    *)
(* disk it stands for.  A URL and a path are sequences of names, without   *)
(* their slashes; the disk d maps the paths of its files to what is in     *)
(* them.  The directories of a site do not change.                         *)
(***************************************************************************)
EXTENDS Integers, Sequences, SequencesExt

CONSTANTS
  Routes,      \* the routes of the configuration, in its order
  Dirs,        \* paths of directories
  ReadOnly,    \* paths of files that may not be written
  Locked       \* directories in which nothing may be made or removed

\* A file name is <owner>_<key>.<ext>; owner -1 stands for no owner, ext "" for
\* no extension.
NoOwner == -1

Names == [owner : Int, key : STRING, ext : STRING]
RouteType == [url : Seq(Names), root : Seq(Names), upload : Seq(Names),
              methods : SUBSET STRING, index : Seq(Names), autoindex : BOOLEAN]
ASSUME RoutesAssumption == \A i \in DOMAIN Routes : Routes[i] \in RouteType

NoRoute == [url |-> <<>>, root |-> <<>>, upload |-> <<>>, methods |-> {},
            index |-> <<>>, autoindex |-> FALSE]
NoPath == <<>>
ASSUME DirsAssumption == NoPath \notin Dirs

-----------------------------------------------------------------------------
(* Files                                                                   *)

IsDirectory(p) == p \in Dirs
IsValidGetFilePath(d, p) == p \in DOMAIN d
IsExisting(d, p) == IsDirectory(p) \/ IsValidGetFilePath(d, p)
IsAllowedWrite(p) == p \notin ReadOnly /\ p \notin Locked

-----------------------------------------------------------------------------
(* Routes                                                                  *)

IsPathMatch(r, url) == IsPrefix(r.url, url)

\* The longest match, and of two of one length the first.
FindMatchingRoute(url) ==
  LET matching == {i \in DOMAIN Routes : IsPathMatch(Routes[i], url)}
      longest  == {i \in matching : \A j \in matching : Len(Routes[j].url) <= Len(Routes[i].url)}
  IN IF matching = {} THEN NoRoute
     ELSE Routes[CHOOSE i \in longest : \A j \in longest : i <= j]

Rest(url, r) == SubSeq(url, Len(r.url) + 1, Len(url))
ReplaceRoutePathByRootDirectory(url, r) == r.root \o Rest(url, r)
ReplaceRoutePathByUploadDirectory(url, r) == r.upload \o Rest(url, r)

-----------------------------------------------------------------------------
(* The file a GET or a DELETE is about                                     *)

\* readdir() order: any fixed choice among the extensions.
FindFileInDirectoryWithExtension(d, directory, owner, key) ==
  LET found == {p \in DOMAIN d :
                  /\ p # NoPath /\ Front(p) = directory
                  /\ Last(p).owner = owner /\ Last(p).key = key /\ Last(p).ext # ""}
  IN IF found = {} THEN NoPath ELSE CHOOSE p \in found : TRUE

\* The code searches the upload directory in the whole path, not at its start only.
Occurs(s, p) == \E i \in 0 .. Len(p) : IsPrefix(s, SubSeq(p, i + 1, Len(p)))
MayBeUpload(p, r) ==
  /\ p # NoPath /\ r.upload # NoPath
  /\ ~IsDirectory(p)
  /\ Occurs(r.upload, p)

\* A name that has an owner gets a second one, which no file has: NoPath.
WithSessionId(p, session) ==
  IF Last(p).owner = NoOwner
  THEN Append(Front(p), [Last(p) EXCEPT !.owner = session]) ELSE NoPath

\* Mutant: the extension is not guessed.
AddSessionIdPrefixToGetExact(d, p, r, session) ==
  IF MayBeUpload(p, r) THEN WithSessionId(p, session) ELSE p
\* A name that has an extension has its dot in the stem, where no name has one.
AddSessionIdPrefixToGet(d, p, r, session) ==
  LET own    == WithSessionId(p, session)
      mimed  == FindFileInDirectoryWithExtension(d, Front(p), session, Last(p).key)
      guess  == /\ ~IsValidGetFilePath(d, own) /\ mimed # NoPath
                /\ Last(p).owner = NoOwner /\ Last(p).ext = ""
  IN CASE ~MayBeUpload(p, r)         -> p
       [] MayBeUpload(p, r) /\ guess -> mimed
       [] OTHER                      -> own

\* The places in the list of the default files that the directory has.
DefaultFiles(d, p, r) ==
  {i \in DOMAIN r.index : IsValidGetFilePath(d, Append(p, r.index[i]))}

RouteFilePathForGetAsDirectory(d, p, r) ==
  LET found == DefaultFiles(d, p, r)
  IN CASE ~IsDirectory(p) -> NoPath
       [] IsDirectory(p) /\ found # {} ->
            Append(p, r.index[CHOOSE i \in found : \A j \in found : i <= j])
       [] IsDirectory(p) /\ found = {} -> IF r.autoindex THEN p ELSE NoPath

\* The second guess of the code, findFileInDirectoryWithExtension() with a name
\* that holds a whole path, never finds a file.
RouteFilePathForGet(d, url, r, session) ==
  LET p   == ReplaceRoutePathByRootDirectory(url, r)
      own == AddSessionIdPrefixToGet(d, p, r, session)
  IN CASE r = NoRoute -> NoPath
       [] r # NoRoute /\ IsValidGetFilePath(d, p) -> p
       [] r # NoRoute /\ ~IsValidGetFilePath(d, p) /\ IsValidGetFilePath(d, own) -> own
       [] OTHER -> RouteFilePathForGetAsDirectory(d, p, r)

RouteFilePathForPost(url, r) ==
  IF r = NoRoute THEN NoPath ELSE ReplaceRoutePathByUploadDirectory(url, r)
=============================================================================
