CONSTANTS
  Names <- MCNames
  MoveNames <- MCMoveNames
  MoveToml = "Move.toml"
  Main <- MCMain
  Paths <- MCPaths
  Shares <- MCShares
  MaxDepth = 2
  MaxContents = 4
  MaxFolders = 1
SPECIFICATION Spec
INVARIANTS
  TypeOK
  TabsSound
PROPERTIES
  MovesLoseNothing
  MoveTomlKept
