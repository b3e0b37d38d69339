\* A trial that is voted on while recommendations are generated.
CONSTANTS
  m1 = m1  show = show  u1 = u1  u2 = u2
  e1 = e1  e2 = e2   s0 = s0  j1 = j1  j2 = j2
  Users <- MCUsers  Movies <- MCMovies  Show = show
  Episodes <- MCEpisodes  Season <- MCSeason  Number <- MCNumber
  JellyfinItems <- MCItems  TitleOf <- MCTitleOf  NoToken = 0
  Handlers = {1, 2}  Asks <- MCAsks  Patches <- MCPatches
  Passes = {p1}  Old <- MCOld
  Tokens = {1, 2, 3, 4}  BatchSize = 1
  Scenarios <- MCVotes
SPECIFICATION Spec
CHECK_DEADLOCK FALSE
INVARIANT RatedStaysExcluded
