-------------------------- MODULE MCMpiRequests ---------------------------
(* A program that asks for the status of a persistent request that it has  *)
(* not started.                                                            *)
EXTENDS MpiRequests, TLC

RequestObjects == 1 .. 3
EntryObjects == 11 .. 13
StatusOfInactive ==
  {[features |-> {"persistent", "status of inactive"}, operations |-> 1]}

Symmetry == Permutations(Threads)
=============================================================================
