\* A redirect from one host to another.
CONSTANTS
  Threads = {t1}
  host = host
  http = http
  https = https
  Hosts <- MCOrigins
  Origins <- MCOrigins
  HostOf <- MCOwnHost
  NoThread = NoThread
  NoHost = NoHost
  NoDelay = NoDelay
  NoOrigin = NoOrigin
  NoEntry = NoEntry
  NoHeader = NoHeader
  CrawlDelays <- MCSiteDelays
  SiteDelays <- MCSiteDelays
  DefaultInterval = 1
  Overrides <- MCOverrides
  Jitter = 1
  Horizon = 2
  TTL = 2
  MaxRetries = 3
  BackoffStart = 1
  BackoffCap = 2
  RetryAfters <- MCRetryAfters
  MaxRedirects = 1
SPECIFICATION ClientSpec
INVARIANTS
  EveryRequestConsults
