CONSTANTS
  Programs = {p1, p2}
  Files = {a, b}
  NoFile = NoFile
  MaxSources = 2
SPECIFICATION Spec
INVARIANTS
  TypeOK
  FilesChangeByWholeCommands
  LostUnlessCopied
  FailureLeavesFiles
  OnlyFirstSourcesAreCopied
CHECK_DEADLOCK FALSE
