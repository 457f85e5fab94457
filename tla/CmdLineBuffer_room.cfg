\* A fifth character typed at the start of a line of four.
SPECIFICATION Spec
CONSTANTS
  Chars = {1, 2}
  MaxLine = 5
  MaxHistory = 1
  FileHistory <- MCFileHistory
  Commands <- MCCommands
  RecallLine <- MCRecallLine
  RecallIndex = 1
  ForgetLine <- MCForgetLine
  AskLine <- MCAskLine
INVARIANT UsedIsAllocated
