\* Two processes and two runs, so that a dead run, a failed one and a running
\* one can lie behind each other.
CONSTANTS
  charts = charts
  artists = artists
  releases = releases
  plays = plays
  deezer = deezer
  mb = mb
  lastfm = lastfm
  Processes = {p1, p2}
  Jobs = {charts, artists, releases, plays}
  Sources = {deezer, mb, lastfm}
  SourceOf <- MCSourceOf
  Enabled = {deezer, mb}
  NoJob = NoJob
  NoRow = NoRow
  MaxRuns = 2
  StaleAfter = 1
SPECIFICATION FairStatusSpec
INVARIANTS
  RunnerTypeOK
  NoWorkUnrecorded
  LedgerHonest
PROPERTIES
  FinalStays
  DeadRunsSurface
  DeadRunsNeverClear
  FailuresSurface
