----------------------------- MODULE MCCgiOutput -----------------------------
EXTENDS CgiOutput

Output(lines, newline, page) == [lines |-> lines, newline |-> newline, page |-> page]

\* Pages around the limit of 4, one that holds an empty line itself, one of a
\* script that ends its lines as print() does.
SomeOutputs ==
  { Output(1, CrLf, <<>>),
    Output(1, CrLf, <<"x", "x", "x">>),
    Output(2, CrLf, <<"x", "CR", "LF", "x">>),
    Output(1, CrLf, <<"CR", "LF", "CR", "LF">>),
    Output(2, CrLf, <<"x", "x", "x", "x", "x">>),
    Output(1, CrLf, <<"x", "x", "x", "x", "x", "x">>),
    Output(3, CrLf, <<"x", "x", "x", "x">>),
    Output(4, CrLf, <<"CR", "LF", "x">>),
    Output(1, <<"LF">>, <<"x", "x">>),
    Output(2, <<"LF">>, <<"CR", "LF", "x">>) }
=============================================================================
