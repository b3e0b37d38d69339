\* architecture.md: loops use compare-and-update writes.
\* The daemon idles once nothing is wanted or the bound on grabs is met.
CONSTANTS
  e1 = e1  e2 = e2  m1 = m1  show = show
  single = single  pack = pack
  film = film  other = other  third = third
  NoRelease = NoRelease  Free = Free  Dead = Dead
  Episodes = {}
  Movies = {m1}
  SeriesOf <- NoSeries
  Rank <- NoRank
  Releases = {film, other}
  Covers <- Films
  Loops = {loop1}
  Callers = {status}
  Workers = {loop1, status}
  Status = status
  Faults = {}
  Requests = {"delete"}
  Library = {}
  StartStates = {"wanted"}
  TorrentMoves <- Smooth
  MaxGrabs = 1
  MaxFallbacks = 1
  MaxCrashes = 0
SPECIFICATION Spec
CHECK_DEADLOCK FALSE
PROPERTY ClosedGrabsStayClosed
