CONSTANTS
  Windows = {w1}
  Sockets = {s1, s2}
  w1 = w1
  s1 = s1
  s2 = s2
  s3 = s3
  MaxSessions = 1
  MaxRetries = 1
  MaxLogins = 2
  MaxWaiting = 1
  MaxLost = 1
  None = None
SPECIFICATION FairSpec
INVARIANTS
  TypeOK
  ShellsAreCapped
PROPERTIES
  RevokedShellsDie
  GoneWindowsAreReaped
  RetriesEnd
  ImplementsShellPool
