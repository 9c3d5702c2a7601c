SPECIFICATION Spec
CONSTANTS
  lvgl = lvgl
  httpd = httpd
  Callers <- Both
  Reasons <- AllReasons
  MaxRetries = 2
  BaseRetry = 500
  MaxRetry = 900
  DnsErrors = TRUE
  MaxLosses = 1
  MaxOps = 2
INVARIANTS TypeOK RetryPending FailedStops DelayCapped
CHECK_DEADLOCK FALSE
