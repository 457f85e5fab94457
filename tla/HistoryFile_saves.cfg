\* Two terminals record commands, clear and leave; saves fail, are cut short and torn.
CONSTANTS
  Terminals = {t1, t2}
  Characters = {"l", "s", "h"}
  Commands <- MCCommands
  MaxLines = 3
SPECIFICATION Spec
INVARIANT FileIsLatest
