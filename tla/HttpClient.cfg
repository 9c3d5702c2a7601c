\* Three callers on a queue of depth one: the queue fills up.
CONSTANTS
  c1 = c1  c2 = c2  c3 = c3
  u1 = u1  u2 = u2
  Failed = Failed  Nil = Nil
  Callers <- ThreeCallers
  Urls <- TwoUrls
  QueueDepth = 1
SPECIFICATION FairSpec
INVARIANTS TypeOK OneTlsContext OwnResponse ItemAlive NothingLeaked IInv
PROPERTIES RefinesSerialHttp EveryCallReturns
