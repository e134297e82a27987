--------------------------- MODULE MCPendingCalls ----------------------------
(* Instances of PendingCalls for TLC: see the .cfg files.                  *)
EXTENDS PendingCalls

CONSTANTS main, t2, t3

TwoThreads   == {main, t2}
ThreeThreads == {main, t2, t3}
==============================================================================
