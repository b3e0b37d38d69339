\* A search loop and manual picks of stored releases over one series;
\* nothing fails but an import that finds an item leased.
\* The daemon idles once nothing is wanted or the bound on grabs is met.
CONSTANTS
  e1 = e1  e2 = e2  m1 = m1  show = show
  single = single  pack = pack
  film = film  other = other  third = third
  NoRelease = NoRelease  Free = Free  Dead = Dead
  Episodes = {e1, e2}
  Movies = {}
  SeriesOf <- EpisodeSeries
  Rank <- EpisodeRank
  Releases = {single, pack}
  Covers <- PackAndSingle
  Loops = {loop1}
  Callers = {status, caller}
  Workers = {loop1, status, caller}
  Status = status
  Faults = {}
  Requests = {"grab"}
  Library = {}
  StartStates = {"wanted"}
  TorrentMoves <- Smooth
  MaxGrabs = 2
  MaxFallbacks = 1
  MaxCrashes = 0
SPECIFICATION Spec
CHECK_DEADLOCK FALSE
INVARIANT OwnedTorrentTracked
PROPERTY LifecycleSpec
PROPERTY ReservationKept
