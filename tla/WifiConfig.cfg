\* One network, one retry: the first provisioning is enough.
SPECIFICATION Spec
CONSTANTS
  Net = {n1}
  None = None
  RetryMax = 1
INVARIANT ConnectsWithCredentials
