SPECIFICATION Spec
CONSTANTS
  lvgl = lvgl
  httpd = httpd
  Callers <- NoCallers
  Reasons <- AllReasons
  MaxRetries = 2
  BaseRetry = 500
  MaxRetry = 900
  DnsErrors = TRUE
  MaxLosses = 1
  MaxOps = 0
INVARIANT CutMeansOffline
CHECK_DEADLOCK FALSE
