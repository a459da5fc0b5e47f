CONSTANTS
  Windows = {w1, w2}
  Apps = {player, editor}
  MultiApps = {player}
  GuardedApps = {editor}
  Workspaces = 2
  MaxZ = 5
SYMMETRY WindowSymmetry
SPECIFICATION Spec
INVARIANTS
  TypeOK
  StackIsStrict
  CloseIsAsked
  RaisedIsSeen
PROPERTY
  NoSilentLoss
