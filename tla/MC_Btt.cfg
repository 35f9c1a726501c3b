SPECIFICATION Spec
CONSTANTS
  nlane = 2
  nfree = 2
  external_nlba = 2
  EntriesPerLine = 1
  Values = {v1, v2}
  Zero = Zero
  EIO = EIO
  Torn = Torn
  Ops = {"read", "write", "set_zero", "set_error"}
  MaxOps = 3
  MaxCrash = 1
INVARIANTS TypeOK BlocksPartitioned RuntimeMatchesFlog FlogUnambiguous
SYMMETRY ValueSymmetry
PROPERTY ImplementsBlockDevice
