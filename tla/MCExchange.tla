----------------------------- MODULE MCExchange -----------------------------
EXTENDS Exchange, TLC

N(key) == [owner |-> NoOwner, key |-> key, ext |-> ""]
Ext(key, ext) == [owner |-> NoOwner, key |-> key, ext |-> ext]
Own(s, key, ext) == [owner |-> s, key |-> key, ext |-> ext]

Pages == <<N("pages")>>
Upload == <<N("pages"), N("upload")>>
Vault == <<N("pages"), N("vault")>>

All == {"GET", "POST", "DELETE"}
\* confs/basic.conf, with a second location whose directory is not writable;
\* the default route comes last.
SiteRoutes == <<
  [url |-> <<N("post")>>, root |-> Upload, upload |-> Upload, methods |-> All,
   index |-> <<>>, autoindex |-> TRUE],
  [url |-> <<N("vault")>>, root |-> Vault, upload |-> Vault, methods |-> All,
   index |-> <<>>, autoindex |-> FALSE],
  [url |-> <<>>, root |-> Pages, upload |-> Upload, methods |-> {"GET"},
   index |-> <<N("index")>>, autoindex |-> FALSE] >>
SiteDirs == {Pages, Upload, Vault}
SiteReadOnly == {Append(Upload, N("fixed"))}
SiteLocked == {Vault}

\* Error pages that are in the root of the default route, or in no root.
MCErrorPages == [code \in {400, 403, 404, 405, 502} |->
                   IF code = 502 THEN <<N("lost")>> ELSE <<N("oops")>>]

Always == {Append(Pages, N("index")), Append(Pages, N("oops")), Append(Pages, Ext("run", "py")),
           Append(Upload, N("fixed")), Append(Vault, N("f"))}
MCSites ==
  {[p \in Always \cup kept |-> <<"old">>] : kept \in SUBSET {Append(Upload, N("a"))}}

Part(key, value, ext) == [key |-> key, value |-> value, ext |-> ext]
Form(kind, opened, parts) == [kind |-> kind, opened |-> opened, parts |-> parts]
A == Part("a", "v", "")
B == Part("b", "w", "")
Forms == {
  Form("none", FALSE, <<>>), Form("other", FALSE, <<>>), Form("plain", FALSE, <<A>>),
  Form("urlencoded", FALSE, <<>>), Form("urlencoded", FALSE, <<A>>),
  Form("urlencoded", FALSE, <<A, B>>), Form("urlencoded", FALSE, <<A, Part("fixed", "w", "")>>),
  Form("urlencoded", FALSE, <<A, B, Part("c", "x", "")>>), Form("multipart", FALSE, <<A>>), Form("multipart", TRUE, <<A>>),
  Form("multipart", TRUE, <<Part("a", "w", "png")>>),
  Form("multipart", TRUE, <<Part("a", "w", "png"), Part("", "v", "")>>),
  Form("multipart", TRUE, <<A, Part("a", "w", "png")>>) }

Request(method, url, form, cookie, keep, fault) ==
  [method |-> method, url |-> url, form |-> form, cookie |-> cookie, keep |-> keep,
   fault |-> fault]
NoForm == Form("none", FALSE, <<>>)

MCRequests ==
  {Request("GET", url, NoForm, cookie, keep, "none") :
     url \in {<<>>, <<Ext("run", "py")>>, <<N("upload"), N("a")>>, <<N("post")>>,
              <<N("post"), N("a")>>, <<N("gone")>>},
     cookie \in {0, 1}, keep \in BOOLEAN}
  \cup {Request("DELETE", url, NoForm, 1, TRUE, "none") :
          url \in {<<N("index")>>, <<N("post")>>, <<N("post"), N("a")>>,
                   <<N("post"), N("fixed")>>, <<N("vault"), N("f")>>, <<N("post"), N("gone")>>}}
  \cup {Request("POST", <<N("post")>>, form, cookie, TRUE, "none") :
          form \in Forms, cookie \in {0, 1}}
  \cup {Request("POST", url, form, 0, TRUE, fault) :
          url \in {<<N("post"), N("a")>>, <<N("post"), N("fixed")>>, <<N("vault")>>,
                   <<N("index")>>, <<N("post"), N("gone")>>},
          form \in {Form("plain", FALSE, <<A>>), Form("urlencoded", FALSE, <<A>>)},
          fault \in {"none", "size"}}
  \cup {Request("none", <<>>, NoForm, 0, TRUE, "line"),
        Request("PUT", <<N("post")>>, NoForm, 0, TRUE, "none"),
        Request("GET", <<>>, NoForm, 0, TRUE, "version")}
=============================================================================
