CONSTANTS
  Names <- MCDropNames
  MoveNames <- MCMoveNames
  MoveToml = "Move.toml"
  Main <- MCMain
  Paths <- MCDropPaths
  Shares <- MCNoShares
  MaxDepth = 2
  MaxContents = 4
  MaxFolders = 1
SPECIFICATION Spec
PROPERTY RefusedDropMovesNothing
