\* Two networks and two retries instead of 50: retries enough to lose, regain
\* and lose a network within a boot, and one form that overwrites another.
SPECIFICATION FairSpec
CONSTANTS
  Net = {n1, n2}
  None = None
  RetryMax = 2
INVARIANTS
  TypeOK
  AccessPointUp
  SentListAllocated
  OfflineOnlySpent
  CredentialsApplied
PROPERTY PortalOpens
