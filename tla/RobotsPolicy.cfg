\* Two threads and two origins whose robots.txt they fetch and store concurrently.
CONSTANTS
  Threads = {t1, t2}
  Origins = {here, there}
  NoOrigin = NoOrigin
  NoEntry = NoEntry
  NoDelay = NoDelay
  SiteDelays <- MCSiteDelays
  TTL = 2
SPECIFICATION FairRobotsSpec
INVARIANTS
  RobotsTypeOK
PROPERTIES
  PermissionIsFresh
  VerdictsConverge
