CONSTANTS
  n1 = n1
  i1 = i1
  i2 = i2
  c1 = c1
  c2 = c2
  NoVdev = NoVdev
  NoClaim = NoClaim
  NoCall = NoCall
  Claim = {n1}
  Vdev = {i1, i2}
  Call = {c1, c2}
  Size = {0, 2}
  DefaultSize = 1
  RecoveryClaim = {n1}
  Faults = {"alloc", "allocLost", "crash"}
  MaxUpsets = 4
SPECIFICATION Spec
INVARIANTS RecoveryKept
