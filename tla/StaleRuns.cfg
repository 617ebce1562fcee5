\* A run that is still working when it gets older than the threshold.
CONSTANTS
  charts = charts
  artists = artists
  releases = releases
  plays = plays
  deezer = deezer
  mb = mb
  lastfm = lastfm
  Processes = {p1, p2}
  Jobs = {charts, artists, releases, plays}
  Sources = {deezer, mb, lastfm}
  SourceOf <- MCSourceOf
  Enabled = {deezer, mb}
  NoJob = NoJob
  NoRow = NoRow
  MaxRuns = 2
  StaleAfter = 1
SPECIFICATION StatusSpec
INVARIANTS
  StaleMeansDead
