CONSTANTS
  B = 8
  Words <- MCWords
  Memory <- MCMemory
  Locs <- MCLocs
  Thread = 0
  Values <- MCValues
  MaxStores = 2
  Procs = {p1, p2}
  Requests <- MCRequests
  MemWords = {0, 1, 2}
  Outputs <- MCOutputs
  MaxCalls = 3
  MaxWrites = 1
SPECIFICATION Spec
INVARIANTS FilesTypeOK QuietReads MastersSettled ReplySettled
PROPERTIES ImplementsHeap ImplementsFiles
SYMMETRY Symmetry
CHECK_DEADLOCK FALSE
