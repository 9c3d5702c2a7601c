SPECIFICATION Spec
CONSTANTS
  weather_min = weather_min
  elpris = elpris
  v1 = v1
  v2 = v2
  Nil = Nil
  IntervalJobs <- None
  DailyJobs <- Elpris
  Values <- OneValue
  MaxRetries = 1
  MaxDay = 1
PROPERTY DailyFires
