\* Three callers, two hosts, so that two of them contend while one is elsewhere.
CONSTANTS
  Threads = {t1, t2, t3}
  slow = slow
  plain = plain
  Hosts <- MCHosts
  NoThread = NoThread
  NoHost = NoHost
  NoDelay = NoDelay
  CrawlDelays <- MCCrawlDelays
  DefaultInterval = 1
  Overrides <- MCOverrides
  Jitter = 1
  Horizon = 3
SPECIFICATION LimiterSpec
INVARIANTS
  LimiterTypeOK
  LockDiscipline
  SleepSuffices
PROPERTIES
  GatesImplemented
  HostsIndependent
