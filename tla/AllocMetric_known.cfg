\* A window whose address is given out again after MPI_Win_free.
CONSTANTS
  Callers = {t1}
  Addresses = {1, 2, 3, 4}
  Sizes = {1}
  AllocSetups <- Windows
  Trees <- SearchTrees
  ItemsOf <- ItemsBelow
  IsSearchTree <- IsOrdered
  Splay <- splay
  Insert <- insert_memory_allocation
  RemoveRoot <- remove_memory_allocation
  NULL = NULL
SPECIFICATION AllocSpec
INVARIANTS
  LeaksReported
