CONSTANTS
  Cmds <- MCCmds
  Vals <- MCVals
  Args <- MCArgs
  Zero = 0
  LowByte <- MCLowByte
  Serve <- MCServe
  KeepsUp = FALSE
  MaxRuns = 2
  MaxCalls = 3
SPECIFICATION Spec
INVARIANTS TypeOK ServicesProvoked ReturnsServed QuietCallRight
PROPERTIES StaysQuiet QuietCallsImplement
