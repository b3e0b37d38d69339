\* A movie already in the library is searched again; every fault, one crash.
\* The daemon idles once nothing is wanted or the bound on grabs is met.
CONSTANTS
  e1 = e1  e2 = e2  m1 = m1  show = show
  single = single  pack = pack
  film = film  other = other  third = third
  NoRelease = NoRelease  Free = Free  Dead = Dead
  Episodes = {}
  Movies = {m1}
  SeriesOf <- NoSeries
  Rank <- NoRank
  Releases = {film, other, third}
  Covers <- ThreeFilms
  Loops = {loop1}
  Callers = {status}
  Workers = {loop1, status}
  Status = status
  Faults = {"client", "store", "files", "space", "cancel", "crash"}
  Requests = {}
  Library = {m1}
  StartStates = {"wanted"}
  TorrentMoves <- Meddled
  MaxGrabs = 3
  MaxFallbacks = 1
  MaxCrashes = 1
SPECIFICATION Spec
CHECK_DEADLOCK FALSE
INVARIANT TypeOK
INVARIANT LeasesAccounted
INVARIANT FallbackBounded
