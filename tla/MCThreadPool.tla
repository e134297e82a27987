----------------------------- MODULE MCThreadPool ----------------------------
(* Instances of ThreadPool for TLC: see the .cfg files.                    *)
EXTENDS ThreadPool

CONSTANTS w1, w2, f1, f2, r1, v1

TwoWorkers == {w1, w2}
TwoJobs    == {f1, f2}

Present == {r \in Reader : reader[r].at # "gone"}
             \cup {w \in Waiter : waiter[w].at # "gone"}
             \cup {f \in Job : callback[f].at # "gone"}

\* Two workers, no client of the futures, and any way to end the pool; or one
\* worker, one client, and shutdown().
MCInit == /\ Init
          /\ IF max_workers = 1
             THEN Cardinality(Present) = 1 /\ ends = {"shutdown"}
             ELSE Present = {} /\ ends = Ends

MCSpec == MCInit /\ [][Next]_vars /\ Fairness
==============================================================================
