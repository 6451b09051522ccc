SPECIFICATION Spec
CONSTANTS
  Thread = {1, 2}
  LastDay = 2
  MaxLines = 2
INVARIANTS RightFile OnlyKillsLose
PROPERTY FilesOnlyGrow
