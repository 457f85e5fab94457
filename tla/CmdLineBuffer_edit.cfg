\* Every key on lines of up to three characters and a history of up to two lines.
SPECIFICATION Spec
CONSTANTS
  Chars = {1, 2}
  MaxLine = 3
  MaxHistory = 2
  FileHistory <- MCFileHistory
  Commands <- MCCommands
  RecallLine <- MCRecallLine
  RecallIndex = 1
  ForgetLine <- MCForgetLine
  AskLine <- MCAskLine
INVARIANTS
  TypeOK
  CursorInLine
  ScreenIsLine
  BufferIsHistoryLine
  HistoryIsClean
VIEW EditView
