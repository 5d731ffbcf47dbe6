SPECIFICATION Spec
CONSTANTS
  t1 = t1
  t2 = t2
  n1 = n1
  n2 = n2
  Task <- MCTask
  Net <- MCNet
  None = None
  Empty = Empty
  Junk = Junk
SYMMETRY Symmetry
INVARIANT DnsStoppedOnce
