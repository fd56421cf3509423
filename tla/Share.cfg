CONSTANTS
  page = page
  one = one
  two = two
  none = none
  some = some
  Tokens <- MCTokens
  Pages <- MCPages
  Workspaces <- MCWorkspaces
  Default <- MCDefault
  Books <- MCBooks
  NoBook = none
  MaxFiles = 2
  MaxTokens = 2
  MaxCalls = 2
SPECIFICATION FairSpec
CONSTRAINT Plain
CHECK_DEADLOCK FALSE
INVARIANTS
  TypeOK
  FlatExact
  OneGistPerShare
PROPERTY CallsEnd
