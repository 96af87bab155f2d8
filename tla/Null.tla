------------------------------- MODULE Null -------------------------------
(* The null pointer, and the invalid handle, of every module. *)
CONSTANT NULL
=============================================================================
