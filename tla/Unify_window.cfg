\* Two processes; rank 0 has given the window a name, rank 1 has the default.
CONSTANT
  UnifySetups <- NamedAtRoot
SPECIFICATION UnifySpec
INVARIANTS
  FirstNameUsed
