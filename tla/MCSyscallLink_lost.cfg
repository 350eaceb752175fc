CONSTANTS
  Cmds <- MCCmds
  Vals <- MCVals
  Args <- MCArgs
  Zero = 0
  LowByte <- MCLowByte
  Serve <- MCServe
  KeepsUp = TRUE
  MaxRuns = 1
  MaxCalls = 2
SPECIFICATION FairSpec
PROPERTIES EveryCallReturns
