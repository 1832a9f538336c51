------------------------ MODULE MCRZCriticalSection ------------------------
(* Instances of RZCriticalSection: a set of threads and the nesting that   *)
(* lets one of them be inside twice while the others wait.                 *)
EXTENDS RZCriticalSection

CONSTANTS t1, t2, t3

TwoThreads == {t1, t2}
ThreeThreads == {t1, t2, t3}
=============================================================================
