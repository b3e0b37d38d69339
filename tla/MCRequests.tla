------------------------------ MODULE MCRequests ------------------------------
(* RequestSystem for TLC: ten scenarios, each with the jobs and the        *)
(* outside events that bear on one part, on one or two titles.              *)
EXTENDS RequestSystem

CONSTANTS m1, show, u1, u2, e1, e2, s0, j1, j2

MCUsers == {u1, u2}
MCMovies == {m1}
MCEpisodes == {e1, e2, s0}
MCSeason == e1 :> 1 @@ e2 :> 2 @@ s0 :> 0
MCNumber == e1 :> 1 @@ e2 :> 1 @@ s0 :> 1
MCItems == {j1, j2}
MCTitleOf == j1 :> m1 @@ j2 :> show
MCOld == {e1, s0}

Mode(m) == [NoScope EXCEPT !.mode = m]
Trial(t) == [NoScope EXCEPT !.trial = t]
MCAsks == {NoScope, Mode("latest_season"), Mode("all"),
           [NoScope EXCEPT !.seasons = {0}],
           Trial("one_episode"), Trial("three_episodes"), Trial("first_season")}
MCPatches == {[mode |-> "", status |-> "paused"], [mode |-> "all", status |-> "following"]}

Budget(b) == [kind \in Kinds |-> IF kind \in DOMAIN b THEN b[kind] ELSE 0]

Scenario(b, j) ==
  [budget |-> Budget(b), jobs |-> j, open |-> {}, offered |-> {}, known |-> {},
   asks |-> {NoScope}, acts |-> {"request"}, users |-> {u1}]

(* A trial of each kind on a series whose episode list grows; a vote.      *)
Trials ==
  [Scenario([post |-> 1, vote |-> 1, announce |-> 1, skip |-> 1, abort |-> 1], {"passes", "acquisition"})
   EXCEPT !.offered = {<<u1, show>>}, !.known = {e1, s0},
          !.asks = {Trial("one_episode"), Trial("three_episodes"), Trial("first_season")}]

(* A trial of the first season while only a special is announced.          *)
Specials ==
  [Scenario([post |-> 1, announce |-> 1], {"passes", "acquisition"})
   EXCEPT !.offered = {<<u1, show>>}, !.known = {s0}, !.asks = {Trial("first_season")}]

(* Two users ask for different things at once, and a handler fails.        *)
Requests ==
  [Scenario([post |-> 2, fail |-> 1], {"passes"})
   EXCEPT !.offered = {<<u1, show>>, <<u2, show>>}, !.known = {e1, s0}, !.users = {u1, u2},
          !.asks = {Trial("one_episode"), [NoScope EXCEPT !.seasons = {0}]}]

(* A retry and another user's trial on a series that is followed, while    *)
(* passes and the pipeline go on.                                          *)
Retries ==
  [Scenario([retry |-> 1, broken |-> 1, post |-> 1], {"passes", "acquisition"})
   EXCEPT !.open = {<<u1, show>>}, !.known = {e1, e2}, !.offered = {<<u2, show>>},
          !.users = {u2}, !.asks = {Trial("one_episode")}]

(* An operator's change of the row a request is widening.                  *)
Changes ==
  [Scenario([patch |-> 1, post |-> 1], {"passes"})
   EXCEPT !.open = {<<u2, show>>}, !.known = {e1, e2}, !.offered = {<<u1, show>>},
          !.asks = {Mode("latest_season"), Mode("all")}]

(* Synchronisations that overlap, while the library changes.               *)
Syncs ==
  [Scenario([library |-> 2, giveup |-> 1, lose |-> 1], {"sync"})
   EXCEPT !.open = {<<u1, m1>>}]

(* Notices that are refused, abandoned, or no longer wanted.               *)
Notices ==
  [Scenario([library |-> 1, refuse |-> 1, abandon |-> 1, cancel |-> 1], {"sync", "worker"})
   EXCEPT !.open = {<<u1, m1>>, <<u2, m1>>}]

(* Marks on virtual titles through the outbox.                             *)
Plugin ==
  [Scenario([mark |-> 2, fail |-> 1, unanswered |-> 1], {"monitor"})
   EXCEPT !.offered = {<<u1, m1>>, <<u1, show>>}]

(* Ratings, dismissals and generations of one user's list.                 *)
Offers ==
  [Scenario([mark |-> 1, post |-> 1, generate |-> 1, prune |-> 1], {"monitor"})
   EXCEPT !.offered = {<<u1, m1>>}, !.acts = {"undo", "rate", "dismiss"}]

(* A trial is voted on while the list is generated, and the request that   *)
(* started it was never recorded.                                          *)
Votes ==
  [Scenario([post |-> 1, vote |-> 1, generate |-> 1, prune |-> 1], {"passes", "acquisition"})
   EXCEPT !.offered = {<<u1, show>>}, !.known = {e1}, !.asks = {Trial("one_episode")}]

MCScenarios ==
  {Trials, Specials, Requests, Retries, Changes, Syncs, Notices, Plugin, Offers, Votes}
MCVotes == {Votes}
===============================================================================
