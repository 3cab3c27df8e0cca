---------------------------- MODULE MCBodyBuffer ----------------------------
EXTENDS BodyBuffer, TLC

Symmetry == Permutations(Buffers) \cup Permutations(Byte)
=============================================================================
