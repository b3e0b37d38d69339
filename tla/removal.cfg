\* Operators remove grabs of an episode, unmonitor it and search again.
\* The daemon idles once nothing is wanted or the bound on grabs is met.
CONSTANTS
  e1 = e1  e2 = e2  m1 = m1  show = show
  single = single  pack = pack
  film = film  other = other  third = third
  NoRelease = NoRelease  Free = Free  Dead = Dead
  Episodes = {e1}
  Movies = {}
  SeriesOf <- OneEpisode
  Rank <- OneRank
  Releases = {single}
  Covers <- OneSingle
  Loops = {loop1}
  Callers = {status}
  Workers = {loop1, status}
  Status = status
  Faults = {"slow"}
  Requests = {"delete", "unmonitor", "search", "pause"}
  Library = {}
  StartStates = {"wanted"}
  TorrentMoves <- Smooth
  MaxGrabs = 2
  MaxFallbacks = 1
  MaxCrashes = 0
SPECIFICATION Spec
CHECK_DEADLOCK FALSE
INVARIANT OwnedTorrentTracked
INVARIANT SearchOwnsItem
