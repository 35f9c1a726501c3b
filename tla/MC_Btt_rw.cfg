SPECIFICATION FairSpec
CONSTANTS
  nlane = 2
  nfree = 2
  external_nlba = 2
  EntriesPerLine = 1
  Values = {v1}
  Zero = Zero
  EIO = EIO
  Torn = Torn
  Ops = {"read", "write"}
  MaxOps = 4
  MaxCrash = 0
INVARIANTS NoReadOfBlockBeingWritten RttAnnouncesReads
PROPERTY CallsReturn
