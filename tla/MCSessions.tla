----------------------------- MODULE MCSessions -----------------------------
EXTENDS Sessions

CONSTANTS u1, u2

MCUsers == {u1, u2}
\* A browser opens several connections.
MCOwner == [c \in 1 .. 3 |-> IF c = 3 THEN u2 ELSE u1]
MCRand == [t \in 0 .. MaxSecond |-> t + 11]
=============================================================================
