------------------------------ MODULE MCRWLock ------------------------------
(* Model-checking instance of RWLock.                                      *)
EXTENDS RWLock

CONSTANTS t1, t2, t3
=============================================================================
