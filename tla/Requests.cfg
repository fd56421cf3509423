CONSTANTS
  Drives = {"C:"}
  Typed <- MCTyped
  MaxFiles = 2
  MaxSize = 1
  MaxFolders = 1
  MaxLength = 6
  LineNumbers = {2, 3}
  MaxLine = 2
  MaxPrinted = 2
SPECIFICATION Spec
INVARIANTS
  TypeOK
  PathsAgree
  ErrorsPlaced
CONSTRAINT Alone
