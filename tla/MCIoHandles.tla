--------------------------- MODULE MCIoHandles ----------------------------
(* Two threads whose files are in one bucket of the table.                 *)
EXTENDS IoHandles

CONSTANTS i1, i2

OneBucket ==
  {[locations |-> {i1, i2}, functions |-> {"open", "close", "read"},
    features |-> {"collision"}, descriptors |-> 1 .. 3, io_calls |-> 3]}
=============================================================================
