CONSTANTS
  MaxId = 1
  Params <- MCParams
  Result <- MCResult
  Words = {w1, w2}
  NoWord = nw
  MaxCalls = 2
  MaxFails = 2
SPECIFICATION FairSpec
INVARIANTS TypeOK RightCall
PROPERTIES CleanCallsImplement CallEnds
