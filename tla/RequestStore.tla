----------------------------- MODULE RequestStore -----------------------------
(***************************************************************************)
(* The tables behind Discover and Requests and the transactions on them:   *)
(* recommendations with their feedback and ratings, media requests, series *)
(* trials, the synchronised Jellyfin items and the availability outbox     *)
(* (store/recommendations.go, recommendation_preferences.go, requests.go,  *)
(* trials.go, notifications.go).  One Jellyfin server, any movies, one     *)
(* series; the users are known.  A transaction is one step of whoever runs *)
(* it: the operators below say what it writes.                             *)
(***************************************************************************)
EXTENDS Naturals, FiniteSets

CONSTANTS
  Users, Movies, Show,     (* titles are the movies and the series        *)
  Episodes,                (* episodes the series may come to have        *)
  Season, Number,          (* [Episodes -> Nat]; season 0 are specials    *)
  JellyfinItems, TitleOf,  (* library items and the titles they are of    *)
  NoToken                  (* sync token of an item never synchronised    *)

Titles == Movies \cup {Show}
Keys == Users \X Titles

ASSUME TablesAssumption ==
  /\ Show \notin Movies
  /\ Season \in [Episodes -> Nat] /\ Number \in [Episodes -> Nat]
  /\ \A e, f \in Episodes : Season[e] = Season[f] /\ Number[e] = Number[f] => e = f
  /\ IsFiniteSet(Users) /\ IsFiniteSet(Movies) /\ IsFiniteSet(Episodes)
  /\ TitleOf \in [JellyfinItems -> Titles]

VARIABLES
  recs,       (* [Keys -> [id, st]]: the recommendation of a user, id 0:  *)
              (* no row                                                   *)
  feedback,   (* SUBSET [aid, act, key], actions recorded under their ids *)
  rated,      (* SUBSET Keys, titles a user has rated                     *)
  movie,      (* [Movies -> Phase]                                        *)
  series,     (* [mode, status]: the shared monitor of the series         *)
  episode,    (* [Episodes -> Phase]                                      *)
  selected,   (* SUBSET Nat, series_seasons of the series                 *)
  request,    (* [Keys -> [st, mode, seasons]]                            *)
  trial,      (* [Users -> [scope, limit, season, decision]]              *)
  picked,     (* [Users -> SUBSET Episodes], episodes of the trial        *)
  watched,    (* [Users -> SUBSET Episodes]                               *)
  item,       (* [JellyfinItems -> [present, token]]                      *)
  notice      (* [Keys -> [id, st]]: the outbox row of a request          *)

recVars == <<recs, feedback, rated>>
subjectVars == <<movie, series, episode, selected>>
requestVars == <<request, trial, picked, watched>>
syncVars == <<item, notice>>
tables == <<recVars, subjectVars, requestVars, syncVars>>

RecStatus == {"none", "active", "dismissed", "requested"}

(* Item states as far as requests tell them apart: active stands for       *)
(* searching to importing, failed for failed and import_failed.            *)
Phase == {"missing", "unmonitored", "wanted", "active", "failed", "imported"}

MonitorMode == {"none", "future_only", "latest_season", "all"}
RequestMode == (MonitorMode \ {"none"}) \cup {""}
TrialScope == {"one_episode", "three_episodes", "first_season"}
Decision == {"continue", "stop"}

NoRec == [id |-> 0, st |-> "none"]
NoTrial == [scope |-> "none", limit |-> 0, season |-> 0, decision |-> ""]
NoNotice == [id |-> 0, st |-> "none"]

(* SQLite numbers a new row one above the largest number in use, so the    *)
(* number of the last row is given out again once that row is deleted.     *)
Largest(ids) == CHOOSE n \in ids \cup {0} : \A m \in ids : m <= n
NewIds(table, keys) ==
  LET top == Largest({table[k].id : k \in Keys}) IN
  {id \in [keys -> (top + 1) .. (top + Cardinality(keys))] :
     \A j, k \in keys : id[j] = id[k] => j = k}

Open(k) == request[k].st = "open"
Undecided(u) == trial[u].scope # "none" /\ trial[u].decision = ""

-------------------------------------------------------------------------------
(* Recommendations.                                                        *)

(* Titles a generation leaves out: in the library, acted on, or rated.     *)
Excluded(u) ==
  {TitleOf[i] : i \in {j \in JellyfinItems : item[j].present}}
  \cup {t \in Titles : <<u, t>> \in rated \/ \E f \in feedback : f.key = <<u, t>>}

(* A row that was acted on keeps its status; the active rest is replaced.  *)
Replace(u, kind, offered) ==
  LET new == {<<u, t>> : t \in {t \in offered : recs[<<u, t>>].id = 0}} IN
  \E id \in NewIds(recs, new) :
    recs' = [k \in Keys |->
      IF k \in new THEN [id |-> id[k], st |-> "active"]
      ELSE IF k[1] = u /\ k[2] \in kind \ offered /\ recs[k].st = "active" THEN NoRec
      ELSE recs[k]]

RecordAction(k, aid, act) ==
  IF \E f \in feedback : f.aid = aid
  THEN UNCHANGED <<feedback, recs>>
  ELSE /\ feedback' = feedback \cup {[aid |-> aid, act |-> act, key |-> k]}
       /\ recs' = IF recs[k].id = 0 THEN recs
                  ELSE [recs EXCEPT ![k].st =
                          IF act = "request" THEN "requested" ELSE "dismissed"]

RecordRating(k) ==
  /\ rated' = rated \cup {k}
  /\ recs' = IF recs[k].id = 0 THEN recs ELSE [recs EXCEPT ![k].st = "dismissed"]

(* Mutant: the rating is not looked at. *)
CanUndo_Rated(k) == recs[k].st = "dismissed"

CanUndo(k) == recs[k].st = "dismissed" /\ k \notin rated

UndoDismissal(k) ==
  /\ feedback' = {f \in feedback : f.key # k \/ f.act # "dismiss"}
  /\ recs' = [recs EXCEPT ![k].st = "active"]

-------------------------------------------------------------------------------
(* Requests.                                                               *)

(* Requests and the shared monitor only ever widen.                        *)
MergedMode(have, asked) ==
  IF have # "all" /\ \/ asked = "all" \/ have = ""
                     \/ have = "future_only" /\ asked = "latest_season"
  THEN asked ELSE have

CreateForAction(k, mode, reopen) ==
  LET row == request[k] IN
  request' = [request EXCEPT ![k] =
    IF row.st = "none" THEN [st |-> "open", mode |-> mode, seasons |-> {}]
    ELSE [row EXCEPT !.st = IF reopen THEN "open" ELSE @, !.mode = MergedMode(@, mode)]]

AddSeasons(u, seasons) ==
  /\ selected' = selected \cup seasons
  /\ request' = [request EXCEPT ![<<u, Show>>].seasons = @ \cup seasons]

(* Notices of a withdrawn request that were not delivered go with it.      *)
DropNotice(k) ==
  notice' = [notice EXCEPT ![k] = IF @.st = "delivered" THEN @ ELSE NoNotice]

Cancel(k) ==
  /\ request' = [request EXCEPT ![k].st = "withdrawn"]
  /\ DropNotice(k)

Reactivate(k) == request' = [request EXCEPT ![k].st = "open"]

(* Mutant: the summary counts the whole series for a trial. *)
Summarised_Whole(u, e) ==
  LET r == request[<<u, Show>>] IN
  r.mode # "" \/ r.seasons = {} \/ Season[e] \in r.seasons

(* The episodes a request's summary counts, as the SQL of ListPage picks   *)
(* them, and those it includes for a retry, as IncludesEpisode does.       *)
Summarised(u, e) ==
  LET r == request[<<u, Show>>] IN
  /\ r.mode # "" \/ r.seasons = {} \/ Season[e] \in r.seasons
  /\ trial[u].scope = "none" \/ trial[u].decision = "continue" \/ e \in picked[u]

Includes(u, e) ==
  LET r == request[<<u, Show>>] IN
  IF trial[u].scope # "none" /\ trial[u].decision # "continue" THEN e \in picked[u]
  ELSE r.mode # "" \/ r.seasons = {} \/ Season[e] \in r.seasons

NeedsAttention(k) ==
  /\ Open(k)
  /\ \/ k[2] \in Movies /\ movie[k[2]] = "failed"
     \/ k[2] = Show /\ \E e \in Episodes : episode[e] = "failed" /\ Summarised(k[1], e)

-------------------------------------------------------------------------------
(* Trials.                                                                 *)

Stored == {e \in Episodes : episode[e] # "missing"}

(* Mutant: specials are episodes like any other. *)
Regular_Specials(es) == {e \in es : Number[e] > 0}

Regular(es) == {e \in es : Season[e] > 0 /\ Number[e] > 0}

Before(e, f) ==
  \/ Season[e] < Season[f]
  \/ Season[e] = Season[f] /\ Number[e] < Number[f]

AtMost(n, m) == IF n <= m THEN n ELSE m

(* The first n of a set of episodes, by season and number.                 *)
FirstOf(es, n) == {e \in es : Cardinality({f \in es : Before(f, e)}) < n}

CanStartTrial(u, scope) ==
  /\ scope \in TrialScope
  /\ Open(<<u, Show>>) /\ series.status = "following"
  /\ request[<<u, Show>>].mode = "" /\ request[<<u, Show>>].seasons = {}
  /\ \/ trial[u].scope = "none"
     \/ trial[u].scope = scope /\ trial[u].decision = ""

StartTrial(u, scope) ==
  trial' = IF trial[u].scope # "none" THEN trial
           ELSE [trial EXCEPT ![u] =
                  [scope |-> scope, season |-> 0, decision |-> "",
                   limit |-> CASE scope = "one_episode" -> 1
                               [] scope = "three_episodes" -> 3
                               [] scope = "first_season" -> 0]]

(* Selects the episodes of every open trial of the series: the limit first, *)
(* the first season's episodes with their number as the limit, then the    *)
(* next regular episodes while there is room.  A trial of the first season *)
(* has no season (0) while there is no regular episode.                    *)
PrepareFor(undecided) ==
  LET regular == Regular(Stored)
      first == {e \in regular : \A f \in regular : Season[e] <= Season[f]}
      live == {u \in undecided : Open(<<u, Show>>)}
      season == [u \in Users |->
        IF u \in live /\ trial[u].scope = "first_season" /\ trial[u].season = 0
        THEN Largest({Season[e] : e \in first}) ELSE trial[u].season]
      chosen == [u \in Users |->
        IF u \in live /\ trial[u].scope = "first_season"
        THEN picked[u] \cup {e \in Stored : season[u] > 0 /\ Season[e] = season[u] /\ Number[e] > 0}
        ELSE picked[u]]
      limit == [u \in Users |->
        CASE u \in live /\ trial[u].scope = "three_episodes" -> AtMost(3, Cardinality(regular))
          [] u \in undecided /\ trial[u].scope = "first_season" -> Cardinality(chosen[u])
          [] OTHER -> trial[u].limit]
  IN /\ trial' = [u \in Users |->
          [trial[u] EXCEPT !.season = season[u], !.limit = limit[u]]]
     /\ picked' = [u \in Users |->
          IF u \in live /\ Cardinality(chosen[u]) < limit[u]
          THEN chosen[u] \cup FirstOf(regular \ chosen[u], limit[u] - Cardinality(chosen[u]))
          ELSE chosen[u]]

PrepareTrials == PrepareFor({u \in Users : Undecided(u)})

TrialEpisodeIDs ==
  UNION {picked[u] : u \in {v \in Users : Undecided(v) /\ Open(<<v, Show>>)}}

(* The largest limit of the open trials, counted as one at least; 0: none. *)
TrialEpisodeLimit ==
  Largest({Largest({1, trial[u].limit}) :
             u \in {v \in Users : Undecided(v) /\ Open(<<v, Show>>)}})

(* Mutant: any episode that is played counts. *)
CanMarkWatched_Any(u, e) == Undecided(u) /\ Open(<<u, Show>>)

CanMarkWatched(u, e) == e \in picked[u] /\ Undecided(u) /\ Open(<<u, Show>>)

MarkWatched(u, e) == watched' = [watched EXCEPT ![u] = @ \cup {e}]

(* Mutant: the vote does not wait for the last episode. *)
CanVote_Early(u) ==
  /\ Undecided(u) /\ Open(<<u, Show>>)
  /\ trial[u].limit > 0 /\ Cardinality(watched[u]) + 1 >= trial[u].limit

CanVote(u) ==
  /\ Undecided(u) /\ Open(<<u, Show>>)
  /\ trial[u].limit > 0 /\ Cardinality(watched[u]) >= trial[u].limit

(* The vote, its rating and what it means for the series and the request   *)
(* are one transaction.                                                    *)
VoteTrial(u, decision) ==
  LET k == <<u, Show>> IN
  /\ trial' = [trial EXCEPT ![u].decision = decision]
  /\ rated' = rated \cup {k}
  /\ recs' = IF recs[k].id = 0 THEN recs
             ELSE [recs EXCEPT ![k].st =
                    IF decision = "continue" THEN "requested" ELSE "dismissed"]
  /\ IF decision = "continue"
     THEN /\ series' = [mode |-> "all", status |-> "following"]
          /\ request' = [request EXCEPT ![k].mode = "all"]
          /\ UNCHANGED notice
     ELSE Cancel(k) /\ UNCHANGED series

-------------------------------------------------------------------------------
(* The synchronised library and the availability outbox.                   *)

UpsertItems(batch, token) ==
  item' = [i \in JellyfinItems |->
             IF i \in batch THEN [present |-> TRUE, token |-> token] ELSE item[i]]

(* Mutant: items of the batch that just ended count as absent too. *)
CompleteSync_NoToken(token) ==
  /\ item' = [i \in JellyfinItems |-> [item[i] EXCEPT !.present = FALSE]]
  /\ UNCHANGED notice

(* What this synchronisation did not name is gone, and every open request  *)
(* whose title is present and that has no notice yet gets one.             *)
CompleteSync(token) ==
  LET there == {i \in JellyfinItems : item[i].present /\ item[i].token = token}
      due == {k \in Keys : /\ Open(k) /\ notice[k].id = 0
                           /\ \E i \in there : TitleOf[i] = k[2]}
  IN /\ item' = [i \in JellyfinItems |-> [item[i] EXCEPT !.present = i \in there]]
     /\ \E id \in NewIds(notice, due) :
          notice' = [k \in Keys |->
            IF k \in due THEN [id |-> id[k], st |-> "due"] ELSE notice[k]]

Claimable == {k \in Keys : notice[k].st = "due" /\ Open(k)}

(* The worker claims the oldest due row by moving its next attempt on, and *)
(* finishes it by its number.                                              *)
ClaimNotification(k) ==
  /\ k \in Claimable /\ \A j \in Claimable : notice[k].id <= notice[j].id
  /\ notice' = [notice EXCEPT ![k].st = "waiting"]

(* Mutant: a notice that was sent is due again. *)
FinishNotification_Again(id, failed) ==
  notice' = [k \in Keys |->
    IF notice[k].id = id /\ id # 0 THEN [notice[k] EXCEPT !.st = "waiting"] ELSE notice[k]]

FinishNotification(id, failed) ==
  notice' = [k \in Keys |->
    IF notice[k].id # id \/ id = 0 THEN notice[k]
    ELSE [notice[k] EXCEPT !.st = IF failed /\ @ # "delivered" THEN "waiting" ELSE
                                  IF failed THEN @ ELSE "delivered"]]
===============================================================================
