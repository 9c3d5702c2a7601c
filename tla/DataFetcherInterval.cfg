SPECIFICATION FairSpec
CONSTANTS
  weather_min = weather_min
  elpris = elpris
  v1 = v1
  v2 = v2
  Nil = Nil
  IntervalJobs <- Weather
  DailyJobs <- None
  Values <- TwoValues
  MaxRetries = 1
  MaxDay = 0
INVARIANTS TypeOK RequestPending
PROPERTIES GatesBeforeTls EventuallyCurrent RefreshEnds
