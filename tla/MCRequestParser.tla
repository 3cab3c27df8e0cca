--------------------------- MODULE MCRequestParser ---------------------------
EXTENDS RequestParser

Message(line, headers, body) == [line |-> line, headers |-> headers, body |-> body]

\* Requests with and without a body, errors in every part of the head, bodies at
\* half the limit, at the limit and over it, and several bodies of one size.
PlainMessages ==
  { Message("GET", <<>>, <<>>),
    Message("GET", <<"other", "keep">>, <<>>),
    Message("POST", <<"type", "len2", "keep">>, <<"x", "y">>),
    Message("POST", <<"keep", "len2", "type">>, <<"y", "y">>),
    Message("POST", <<"type", "len1">>, <<"x">>),
    Message("POST", <<"len2", "keep">>, <<"x", "y">>),
    Message("POST", <<"type", "keep">>, <<>>),
    Message("POST", <<"type", "len4", "keep">>, <<"x", "y", "x", "y">>),
    Message("POST", <<"type", "len9", "keep">>,
            <<"x", "y", "x", "y", "x", "y", "x", "y", "x">>),
    Message("PUT", <<"type", "keep">>, <<>>),
    Message("OLD", <<"keep">>, <<>>) }

\* The chunked requests of RequestTest.cpp, with shorter chunks.
ChunkedMessages ==
  { Message("POST", <<"type", "chunked">>,
            <<"d3", "CR", "LF", "x", "y", "x", "CR", "LF", "d0", "CR", "LF", "CR", "LF">>) }

AllMessages == PlainMessages \cup ChunkedMessages
=============================================================================
