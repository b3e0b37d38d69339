------------------------------- MODULE ActionApi -------------------------------
(***************************************************************************)
(* The handlers that act on recommendations, requests, trials and the      *)
(* series row (api/recommendations.go, requests.go, trials.go,             *)
(* resources.go).  A handler is a chain of transactions on RequestStore    *)
(* with nothing held in between; each step below is one of them, and a     *)
(* handler may end in an error between any two: the database, a metadata   *)
(* provider, or a client that hung up, which cancels its context.          *)
(***************************************************************************)
EXTENDS RequestStore

CONSTANTS
  Handlers,     (* requests served at a time: 1 .. n                      *)
  Asks,         (* scopes users ask for: [mode, seasons, trial]           *)
  Patches       (* what operators save on the series: [mode, status], ""  *)
                (* for a field they leave alone                           *)

VARIABLE call   (* [Handlers -> [pc, k, rid, aid, act, ask, told, row, todo]] *)

NoScope == [mode |-> "", seasons |-> {}, trial |-> ""]
NoRow == [mode |-> "none", status |-> "missing"]
Idle == [pc |-> "idle", k |-> CHOOSE k \in Keys : TRUE, rid |-> 0, aid |-> <<0, "">>,
         act |-> "", ask |-> NoScope, told |-> FALSE, row |-> NoRow, todo |-> {}]

ASSUME HandlersAssumption == Handlers # {} /\ Handlers \subseteq Nat

(* A request asks for a mode, for seasons or for a trial, one of them.     *)
ASSUME AsksAssumption ==
  /\ Asks \subseteq [mode : RequestMode, seasons : SUBSET Nat, trial : TrialScope \cup {""}]
  /\ \A a \in Asks : /\ a.mode # "" => a.seasons = {} /\ a.trial = ""
                     /\ a.seasons # {} => a.trial = ""
  /\ Patches \subseteq [mode : MonitorMode \cup {""}, status : {"", "following", "paused"}]

(* Handlers are alike: a request takes the first that is free.             *)
Free(h) ==
  /\ call[h].pc = "idle"
  /\ \A g \in Handlers : call[g].pc = "idle" => h <= g
Step(h, pc) == call' = [call EXCEPT ![h].pc = pc]
Answer(h, status) == Step(h, status)

(* A handler that fails leaves behind whatever it committed so far.        *)
Fail(h) ==
  /\ call[h].pc \notin {"idle", "ok", "error"}
  /\ Answer(h, "error") /\ UNCHANGED tables

(* A client that does not wait, or whose answer got lost, takes an answer  *)
(* for an error.                                                           *)
Return(h) == call' = [call EXCEPT ![h] = Idle]

-------------------------------------------------------------------------------
(* POST /recommendations/{id}/actions.                                     *)

HasRec(rid) == \E k \in Keys : recs[k].id = rid
RecOf(rid) == CHOOSE k \in Keys : recs[k].id = rid

(* The recommendation is read by its number; a request goes on to the      *)
(* rules, everything else is recorded at once.                             *)
Receive(h, rid, aid, act, ask) ==
  /\ Free(h)
  /\ call' = [call EXCEPT ![h] =
       IF ~HasRec(rid) THEN [Idle EXCEPT !.pc = "error", !.aid = aid]
       ELSE [Idle EXCEPT !.pc = IF act = "request" THEN "told" ELSE "record",
               !.k = RecOf(rid), !.rid = rid, !.aid = aid, !.act = act, !.ask = ask]]

(* Whether this action was recorded before, and for the same title.        *)
ReadRecorded(h) ==
  LET c == call[h]
      known == {f \in feedback : f.aid = c.aid} IN
  /\ c.pc = "told"
  /\ call' = [call EXCEPT ![h].told = known # {},
       ![h].pc = CASE \E f \in known : f.act # "request" \/ f.key # c.k -> "error"
                   [] known = {} /\ c.k[2] = Show -> "rules"
                   [] OTHER -> "subject"]
  /\ UNCHANGED tables

TrialAllows(u, wanted) ==
  \/ trial[u].scope = "none"
  \/ trial[u].decision = "" /\ wanted = trial[u].scope
  \/ trial[u].decision # "" /\ wanted = ""

CheckRules(h) ==
  /\ call[h].pc = "rules"
  /\ Step(h, IF TrialAllows(call[h].k[1], call[h].ask.trial) THEN "subject" ELSE "error")
  /\ UNCHANGED tables

(* What the request records, and what it asks of the shared monitor.       *)
Scoped(ask) == ask.seasons # {} \/ ask.trial # ""
RequestedMode(c) ==
  IF c.told \/ c.k[2] # Show THEN ""
  ELSE IF ~Scoped(c.ask) /\ c.ask.mode = "" THEN "future_only"
  ELSE c.ask.mode
SeriesMode(c) ==
  IF c.told THEN "" ELSE IF Scoped(c.ask) THEN "none" ELSE RequestedMode(c)

Widens(have, asked) ==
  \/ asked = "latest_season" /\ have \in {"future_only", "none"}
  \/ asked = "all" /\ have # "all"
  \/ asked = "future_only" /\ have = "none"

RequestMovie(h) ==
  LET c == call[h] IN
  /\ c.pc = "subject" /\ c.k[2] \in Movies
  /\ IF movie[c.k[2]] = "missing" /\ c.told
     THEN Answer(h, "error") /\ UNCHANGED movie
     ELSE /\ movie' = [movie EXCEPT ![c.k[2]] = IF @ = "missing" THEN "wanted" ELSE @]
          /\ Step(h, "track")
  /\ UNCHANGED <<recVars, series, episode, selected, requestVars, syncVars>>

CreateSeries(h) ==
  LET c == call[h] IN
  /\ c.pc = "subject" /\ c.k[2] = Show /\ series.status = "missing"
  /\ IF c.told THEN Answer(h, "error") /\ UNCHANGED series
     ELSE /\ series' = [mode |-> SeriesMode(c), status |-> "following"]
          /\ Step(h, "track")
  /\ UNCHANGED <<recVars, movie, episode, selected, requestVars, syncVars>>

(* The row is read, widened in memory, and written back whole later on.    *)
ReadSeries(h) ==
  LET c == call[h]
      widens == series.status = "following" /\ Widens(series.mode, SeriesMode(c)) IN
  /\ c.pc = "subject" /\ c.k[2] = Show /\ series.status # "missing"
  /\ call' = [call EXCEPT
       ![h].pc = IF widens THEN "update" ELSE "track",
       ![h].row = IF widens THEN [series EXCEPT !.mode = SeriesMode(c)] ELSE @]
  /\ UNCHANGED tables

UpdateSeries(h) ==
  /\ call[h].pc = "update"
  /\ series' = call[h].row
  /\ Step(h, IF call[h].act = "patch" THEN "ok" ELSE "track")
  /\ UNCHANGED <<recVars, movie, episode, selected, requestVars, syncVars>>

TrackRequest(h) ==
  LET c == call[h] IN
  /\ c.pc = "track"
  /\ CreateForAction(c.k, RequestedMode(c), ~c.told)
  /\ Step(h, IF ~c.told /\ Scoped(c.ask) THEN "scope" ELSE "record")
  /\ UNCHANGED <<recVars, subjectVars, trial, picked, watched, syncVars>>

SelectSeasons(h) ==
  LET c == call[h] IN
  /\ c.pc = "scope" /\ c.ask.seasons # {}
  /\ AddSeasons(c.k[1], c.ask.seasons)
  /\ Step(h, "record")
  /\ UNCHANGED <<recVars, movie, series, episode, trial, picked, watched, syncVars>>

BeginTrial(h) ==
  LET c == call[h] IN
  /\ c.pc = "scope" /\ c.ask.trial # ""
  /\ IF CanStartTrial(c.k[1], c.ask.trial)
     THEN StartTrial(c.k[1], c.ask.trial) /\ Step(h, "record")
     ELSE UNCHANGED trial /\ Answer(h, "error")
  /\ UNCHANGED <<recVars, subjectVars, request, picked, watched, syncVars>>

(* The recommendation may have been replaced in the meantime.              *)
Record(h) ==
  LET c == call[h]
      k == RecOf(c.rid) IN
  /\ c.pc = "record"
  /\ CASE ~HasRec(c.rid) -> Answer(h, "error") /\ UNCHANGED recVars
       [] HasRec(c.rid) /\ c.act = "undo" ->
            IF CanUndo(k) THEN UndoDismissal(k) /\ Answer(h, "ok") /\ UNCHANGED rated
            ELSE Answer(h, "error") /\ UNCHANGED recVars
       [] HasRec(c.rid) /\ c.act = "rate" ->
            RecordRating(k) /\ Answer(h, "ok") /\ UNCHANGED feedback
       [] HasRec(c.rid) /\ c.act \in {"request", "dismiss"} ->
            RecordAction(k, c.aid, c.act) /\ Answer(h, "ok") /\ UNCHANGED rated
  /\ UNCHANGED <<subjectVars, requestVars, syncVars>>

-------------------------------------------------------------------------------
(* POST /requests/{id}/actions, the trial endpoints, PATCH /series.        *)

CancelRequest(k) ==
  /\ request[k].st # "none"
  /\ Cancel(k)
  /\ UNCHANGED <<recVars, subjectVars, trial, picked, watched, item, call>>

Retryable == {"wanted", "failed"}

(* What a retry searches, as read from the request and its episodes.       *)
RetryTodo(k) ==
  IF k[2] = Show
  THEN {e \in Stored : series.status = "following" /\ episode[e] \in Retryable /\ Includes(k[1], e)}
  ELSE {m \in {k[2]} : movie[m] \in Retryable}

ReceiveRetry(h, k) ==
  /\ Free(h) /\ request[k].st # "none"
  /\ call' = [call EXCEPT ![h] =
       [Idle EXCEPT !.pc = IF RetryTodo(k) = {} THEN "error" ELSE "force",
                    !.k = k, !.act = "retry", !.todo = RetryTodo(k)]]
  /\ UNCHANGED tables

(* One subject after another; the first refusal ends the request.          *)
ForceSearch(h, s) ==
  LET now == IF s \in Movies THEN movie[s] ELSE episode[s] IN
  /\ call[h].pc = "force" /\ s \in call[h].todo
  /\ IF now \notin Retryable
     THEN Answer(h, "error") /\ UNCHANGED <<movie, episode>>
     ELSE /\ IF s \in Movies
             THEN movie' = [movie EXCEPT ![s] = "wanted"] /\ UNCHANGED episode
             ELSE episode' = [episode EXCEPT ![s] = "wanted"] /\ UNCHANGED movie
          /\ call' = [call EXCEPT ![h].todo = @ \ {s}]
  /\ UNCHANGED <<recVars, series, selected, requestVars, syncVars>>

Reopen(h) ==
  /\ call[h].pc = "force" /\ call[h].todo = {}
  /\ Reactivate(call[h].k) /\ Answer(h, "ok")
  /\ UNCHANGED <<recVars, subjectVars, trial, picked, watched, syncVars>>

Vote(u, decision) ==
  /\ CanVote(u)
  /\ VoteTrial(u, decision)
  /\ UNCHANGED <<feedback, movie, episode, selected, picked, watched, item, call>>

(* One watched episode of a playback batch; a batch stops at the first     *)
(* episode that is not of an open trial, keeping what it has marked.       *)
Playback(u, e) ==
  /\ CanMarkWatched(u, e)
  /\ MarkWatched(u, e)
  /\ UNCHANGED <<recVars, subjectVars, request, trial, picked, syncVars, call>>

Patched(row, p) ==
  [mode |-> IF p.mode = "" THEN row.mode ELSE p.mode,
   status |-> IF p.status = "" THEN row.status ELSE p.status]

(* An operator's PATCH reads the row and saves it whole in a second step.  *)
ReceivePatch(h, p) ==
  /\ Free(h) /\ series.status # "missing"
  /\ call' = [call EXCEPT ![h] =
       [Idle EXCEPT !.pc = "update", !.act = "patch", !.row = Patched(series, p)]]
  /\ UNCHANGED tables

HandlerStep(h) ==
  \/ ReadRecorded(h) \/ CheckRules(h)
  \/ RequestMovie(h) \/ CreateSeries(h) \/ ReadSeries(h) \/ UpdateSeries(h)
  \/ TrackRequest(h) \/ SelectSeasons(h) \/ BeginTrial(h) \/ Record(h)
  \/ \E s \in call[h].todo : ForceSearch(h, s)
  \/ Reopen(h)
===============================================================================
