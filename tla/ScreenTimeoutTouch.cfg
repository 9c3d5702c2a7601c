CONSTANTS
  Totals <- FourEightNever
  W = 11
SPECIFICATION Spec
INVARIANT WakingTouchSwallowed
