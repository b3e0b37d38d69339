CONSTANTS
  m1 = m1  show = show  u1 = u1  u2 = u2
  e1 = e1  e2 = e2   s0 = s0  j1 = j1  j2 = j2
  Users <- MCUsers  Movies <- MCMovies  Show = show
  Episodes <- MCEpisodes  Season <- MCSeason  Number <- MCNumber
  JellyfinItems <- MCItems  TitleOf <- MCTitleOf  NoToken = 0
  Handlers = {1, 2}  Asks <- MCAsks  Patches <- MCPatches
  Passes = {p1}  Old <- MCOld
  Tokens = {1, 2, 3, 4}  BatchSize = 1
  Scenarios <- MCScenarios
SPECIFICATION Spec
CHECK_DEADLOCK FALSE
INVARIANT RequestTypeOK
INVARIANT NothingUnrequested
INVARIANT TrialWithinScope
INVARIANT AttentionIsRetryable
INVARIANT DeliveredWasSent
INVARIANT OneNoticeEach
 
PROPERTY KeepsPromise
PROPERTY TrialGetsFetched
PROPERTY SyncConverges
PROPERTY AvailableIsAnnounced
PROPERTY OutboxKeepsActions
PROPERTY OutboxMoves
