\* Thresholds of 2, 3, 4 and 4, 6, 8 seconds on a tick that wraps at 11.
CONSTANTS
  Totals <- FourEightNever
  W = 11
SPECIFICATION FairSpec
INVARIANTS TypeOK ScreenShowsStage NeverStaysAwake
PROPERTIES TurnsDark
