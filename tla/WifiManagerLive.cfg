SPECIFICATION FairSpec
CONSTANTS
  lvgl = lvgl
  httpd = httpd
  Callers <- NoCallers
  Reasons <- Transient
  MaxRetries = 2
  BaseRetry = 500
  MaxRetry = 900
  DnsErrors = FALSE
  MaxLosses = 2
  MaxOps = 0
INVARIANT ConnectingProgress
PROPERTY Recovers
CHECK_DEADLOCK FALSE
