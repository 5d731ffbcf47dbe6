SPECIFICATION FairSpec
CONSTANTS
  t1 = t1
  t2 = t2
  n1 = n1
  n2 = n2
  Task <- MCTask
  Net <- MCNet
  None = None
  Empty = Empty
  Junk = Junk
INVARIANT TypeOK RestartNeverTearsSave CredentialsPaired JunkOnlyRefused SequentialTearDownSafe
PROPERTY ConnectEndsInRestart NoWayBack
