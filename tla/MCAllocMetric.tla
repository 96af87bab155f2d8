-------------------------- MODULE MCAllocMetric ---------------------------
(* A program that allocates and frees windows of MPI.                      *)
EXTENDS SplayTree

Windows ==
  {[metrics |-> {"mpi"}, features |-> {"windows"}, calls |-> 3, before |-> {}]}
=============================================================================
