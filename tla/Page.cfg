CONSTANTS
  Workspaces <- MCWorkspaces
  Default <- MCDefault
  DefaultFunction <- MCFunction
  MaxClicks = 2
  MaxAccounts = 2
SPECIFICATION Spec
INVARIANTS
  TypeOK
  SelectionSound
  SignedAsOffered
  ShownIsStored
  PreferencesSound
  NoVimInDefault
CONSTRAINT Apart
