--------------------------- MODULE MCPthreadQueue ---------------------------
(* Instances of PthreadQueue.  One pointer besides NULL is enough to tell    *)
(* elements apart, and two slots to fill the ring, empty it and wrap both    *)
(* indices; a third thread makes two of them wait for the same mutex.        *)
EXTENDS PthreadQueue

CONSTANTS t1, t2, t3, v1

ThreeThreads == {t1, t2, t3}
OneValue == {v1}
=============================================================================
