\* Two sockets that browsers may get, one after the other or at once.
CONSTANTS
  f1 = f1  f2 = f2
  None = None
  Fds <- TwoFds
  MaxDone = 1
SPECIFICATION FairSpec
INVARIANTS TypeOK SlotOpen OneBrowser ScanFlagTrue
PROPERTIES StopReturns
