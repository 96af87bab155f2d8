\* A program that enters a rewind region again while it is second on the stack.
CONSTANTS
  RewindRegions = {r1, r2}
  Paradigms = {mpi}
  Other = other
  BufferSize = 4
  MaxTime = 4
  Programs = {"recursive"}
SPECIFICATION RewindSpec
PROPERTIES
  EnteredIsOnTop
