\* The cached robots.txt expires between is_allowed and crawl_delay.
CONSTANTS
  Threads = {t1}
  host = host
  http = http
  https = https
  Hosts = {host}
  Origins <- MCOrigins
  HostOf <- MCHostOf
  NoThread = NoThread
  NoHost = NoHost
  NoDelay = NoDelay
  NoOrigin = NoOrigin
  NoEntry = NoEntry
  NoHeader = NoHeader
  CrawlDelays <- MCSiteDelays
  SiteDelays <- MCSiteDelays
  DefaultInterval = 1
  Overrides <- MCOverrides
  Jitter = 1
  Horizon = 2
  TTL = 2
  MaxRetries = 3
  BackoffStart = 1
  BackoffCap = 2
  RetryAfters <- MCRetryAfters
  MaxRedirects = 1
SPECIFICATION ClientSpec
PROPERTIES
  DenialBlocks
