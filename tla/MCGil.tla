------------------------------- MODULE MCGil ---------------------------------
(* Instances of Gil for TLC: see the .cfg files.                           *)
EXTENDS Gil

CONSTANTS t1, t2, t3

AllThreads   == {t1, t2, t3}
TwoThreads   == {t1, t2}
==============================================================================
