\* One loop, transfers that fail, imports that fail: work ends.
\* The daemon idles once nothing is wanted or the bound on grabs is met.
CONSTANTS
  e1 = e1  e2 = e2  m1 = m1  show = show
  single = single  pack = pack
  film = film  other = other  third = third
  NoRelease = NoRelease  Free = Free  Dead = Dead
  Episodes = {e1, e2}
  Movies = {}
  SeriesOf <- EpisodeSeries
  Rank <- EpisodeRank
  Releases = {single, pack}
  Covers <- PackAndSingle
  Loops = {loop1}
  Callers = {status}
  Workers = {loop1, status}
  Status = status
  Faults = {"files", "space"}
  Requests = {}
  Library = {}
  StartStates = {"wanted"}
  TorrentMoves <- Rough
  MaxGrabs = 2
  MaxFallbacks = 1
  MaxCrashes = 0
SPECIFICATION FairSpec
CHECK_DEADLOCK FALSE
PROPERTY SearchEnds
PROPERTY ReservationEnds
