\* Two processes, two runs: one after the other, or overlapping.
CONSTANTS
  Processes = {p1, p2}
  top100 = top100
  mirror = mirror
  account = account
  chart = chart
  liked = liked
  beatport = beatport
  spotify = spotify
  Jobs = {top100, mirror, account}
  Sources = {beatport, spotify}
  SourceOf <- MCSourceOf
  ContentOf <- MCContentOf
  Enabled = {beatport}
  NoJob = NoJob
  NoRow = NoRow
  NoDoc = NoDoc
  MaxRuns = 2
  StaleAfter = 0
  MaxTime = 2
  WaitTimeout = 2
SPECIFICATION FairPipelineSpec
INVARIANTS
  PipelineTypeOK
  NoSecondCopy
  ExitTellsTruth
PROPERTIES
  CollectionPromised
  ContainerEnds
