--------------------------- MODULE MCProcessPool -----------------------------
(* Instances of ProcessPool for TLC: three jobs for one process, which fill    *)
(* the call queue, or two for two.                                             *)
EXTENDS ProcessPool

CONSTANTS f1, f2, f3, p1, p2

Programs == {<<f1, f2, f3>>, <<f1, f2>>}
MCInit == Init /\ Len(order) + max_workers = 4
MCSpec == MCInit /\ [][Next]_vars /\ Fairness
==============================================================================
