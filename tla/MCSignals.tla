----------------------------- MODULE MCSignals -------------------------------
(* Instances of Signals for TLC: see the .cfg files.                       *)
EXTENDS Signals
==============================================================================
