CONSTANTS
  Threshold = 2  Cooldown = 2  MaxRetries = 1  Kinds = {"tpb", "torznab"}
  Outages = 1  Hangups = 1  Impatience = 1
  Calls = {1, 2}  Expiries = 2  BadLogins = 1  CallBound = 3
  Torrents = {1}  Changes = 3  Mishaps = 2
  Layouts <- MCLayouts  Setbacks = 2
  Episodes = {1, 2}  Failures = 1
  Works = {1, 2, 3}  Clients = {1, 2}  MaxClients = 1  Buffer = 1
  Procs = {1, 2, 3}  Knows <- MCKnows  Breaks = 1
  End = 5  Interval = 1  Keep = 2  Troubles = 2
  Offers <- MCOffers  Profiles <- MCProfiles  Weights <- MCWeights
  Wants <- MCWants  FailedGrabs = 1
  FileNames <- MCFileNames  SeederPoints <- MCSeederPoints
  search = search  recent = recent  manual = manual
  Items = {i1, i2}  Lessees = {search, recent, manual}  NoOwner = NoOwner
  Owners = {"engine-search", "manual-grab"}  OwnerOf <- OwnNames
  TtlOf <- Times  Renewers = {search, recent, manual}
  Chosen = {"indexers", "session", "control", "landing", "delete", "loops", "migrations", "backups", "scoring", "locks"}
SPECIFICATION Spec
CHECK_DEADLOCK FALSE
INVARIANT ServicesTypeOK
INVARIANT OneLoginPerSession
INVARIANT ExpiryIsInvisible
INVARIANT PauseReaches
INVARIANT NothingDeleted
INVARIANT DeletionIsWhole
INVARIANT RunsOnOwnSchema
INVARIANT NewestKept
INVARIANT LeaseExclusion
INVARIANT LiveLeaseHasRow
PROPERTY IndexerRecovers
 
PROPERTY ImportCompletes
PROPERTY TriggeredWorkIsSeen
PROPERTY UpgradesClimb
