\* Two-bit bytes, two written and two read: first, middle and last byte of
\* each loop, with and without acknowledge, and an address nobody has.
SPECIFICATION Spec
CONSTANTS
  Width = 2
  Device <- MCDevice
  MaxOut = 2
  MaxIn = 2
INVARIANTS
  TypeOK
  BusIdleAtReturn
PROPERTIES
  ImplementsTransfer
  DataStable
