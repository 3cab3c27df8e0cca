---------------------------- MODULE MCCgiProcess ----------------------------
EXTENDS CgiProcess, TLC
=============================================================================
