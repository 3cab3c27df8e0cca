----------------------------- MODULE MCEventLoop -----------------------------
EXTENDS EventLoop, TLC
ClientSymmetry == Permutations(Clients)
=============================================================================
