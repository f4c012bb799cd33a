---------------------------- MODULE MC_HAFailover ----------------------------
(* Instances of HAFailover for TLC: the .cfg files of the failover runs give *)
(* the threads, the number of clusters and the primary.                      *)
EXTENDS HAFailover, TLC

CONSTANTS t1, t2

\* The second application thread has no special role before the object is
\* open, but t1 constructs it: only threads other than Main are alike.
OneThread == {t1}
TwoThreads == {t1, t2}
=============================================================================
