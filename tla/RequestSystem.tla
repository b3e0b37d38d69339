----------------------------- MODULE RequestSystem -----------------------------
(***************************************************************************)
(* Discover, Requests, series trials and availability together: the        *)
(* handlers, the metadata passes, the synchronisation, the notification    *)
(* worker, the generator and the plugin's monitor on one set of tables,    *)
(* with the users, operators and failures around them.  What comes from    *)
(* outside is bounded by a budget that a scenario starts with.             *)
(***************************************************************************)
EXTENDS SeriesTrials, Availability, Discover

CONSTANTS
  Scenarios     (* [budget, jobs, open, offered, known, asks, acts, users] *)

Kinds == {"post", "fail", "cancel", "race", "retry", "patch", "announce", "abort", "skip",
          "broken", "vote", "library", "lose", "giveup", "refuse", "abandon",
          "generate", "prune", "mark", "unanswered"}

ASSUME ScenariosAssumption ==
  \A s \in Scenarios : /\ s.budget \in [Kinds -> Nat]
                       /\ s.open \subseteq Keys /\ s.offered \subseteq Keys
                       /\ s.users \subseteq Users /\ s.asks \subseteq Asks
                       /\ s.acts \subseteq {"request", "rate", "dismiss", "undo"}

VARIABLES
  budget,       (* [Kinds -> Nat]: what may still happen from outside     *)
  scenario,     (* the background jobs that run, what is asked, by whom   *)
  asked         (* what was ever asked of the series: SUBSET scopes with  *)
                (* the user, for the properties                           *)

systemVars == <<budget, scenario, asked>>
vars == <<tables, call, passVars, availVars, discoverVars, systemVars>>

Spend(kind) ==
  /\ budget[kind] > 0
  /\ budget' = [budget EXCEPT ![kind] = @ - 1]

Init ==
  \E s \in Scenarios :
    /\ budget = s.budget /\ scenario = s
    /\ asked = {[user |-> k[1], mode |-> "future_only", seasons |-> {}, trial |-> ""] :
                 k \in {k \in s.open : k[2] = Show}}
    /\ recs \in {r \in [Keys -> [id : 0 .. Cardinality(s.offered), st : {"none", "active"}]] :
                   /\ \A k \in Keys : (r[k].id > 0) <=> (k \in s.offered)
                   /\ \A k \in Keys : (r[k].st = "active") <=> (k \in s.offered)
                   /\ \A j, k \in s.offered : r[j].id = r[k].id => j = k}
    /\ feedback = {} /\ rated = {}
    /\ movie = [m \in Movies |-> IF \E k \in s.open : k[2] = m THEN "wanted" ELSE "missing"]
    /\ series = IF \E k \in s.open : k[2] = Show
                THEN [mode |-> "future_only", status |-> "following"] ELSE NoRow
    /\ episode = [e \in Episodes |-> "missing"] /\ selected = {}
    /\ request = [k \in Keys |-> [st |-> IF k \in s.open THEN "open" ELSE "none",
                    mode |-> IF k \in s.open /\ k[2] = Show THEN "future_only" ELSE "",
                    seasons |-> {}]]
    /\ trial = [u \in Users |-> NoTrial]
    /\ picked = [u \in Users |-> {}] /\ watched = [u \in Users |-> {}]
    /\ item = [i \in JellyfinItems |-> [present |-> FALSE, token |-> NoToken]]
    /\ notice = [k \in Keys |-> NoNotice]
    /\ call = [h \in Handlers |-> Idle]
    /\ pass = [p \in Passes |-> NoPass]
    /\ provider = [e \in Episodes |-> IF e \notin s.known THEN "unknown"
                                      ELSE IF e \in Old THEN "aired" ELSE "announced"]
    /\ library = {} /\ run = NoRun /\ wire = {} /\ worker = Resting
    /\ posted = [k \in Keys |-> 0]
    /\ generation = NoGeneration /\ outbox = <<>> /\ monitor = NoCheck
    /\ shown = {} /\ mark = [k \in Keys |-> ""] /\ recorded = {}

-------------------------------------------------------------------------------
(* Users and operators.                                                    *)

(* What a request handler that starts is asked of the series.              *)
Heard(c) ==
  [user |-> c.k[1], mode |-> IF ~Scoped(c.ask) /\ c.ask.mode = "" THEN "future_only" ELSE c.ask.mode,
   seasons |-> c.ask.seasons, trial |-> c.ask.trial]
Hear ==
  asked' = asked \cup {Heard(call'[h]) : h \in
             {h \in Handlers : /\ call[h].pc = "idle" /\ call'[h].pc = "told"
                               /\ call'[h].k[2] = Show}}

(* A user acts on a recommendation through the web interface.              *)
UserActs(h, k, act, ask) ==
  /\ Spend("post") /\ recs[k].id > 0 /\ k[1] \in scenario.users
  /\ (act = "request" /\ k[2] = Show) \/ ask = NoScope
  /\ Receive(h, recs[k].id, <<100 + budget["post"], act>>, act, ask)
  /\ Hear
  /\ UNCHANGED <<tables, passVars, availVars, discoverVars, scenario>>

UserCancels(k) ==
  /\ Spend(IF worker.pc # "idle" /\ worker.key = k THEN "race" ELSE "cancel")
  /\ Open(k) /\ CancelRequest(k)
  /\ UNCHANGED <<passVars, availVars, discoverVars, scenario, asked>>

UserRetries(h, k) ==
  /\ Spend("retry") /\ ReceiveRetry(h, k)
  /\ UNCHANGED <<passVars, availVars, discoverVars, scenario, asked>>

(* A vote to stop withdraws the request.                                   *)
UserVotes(u, decision) ==
  /\ Spend(IF decision = "stop" /\ worker.pc # "idle" /\ worker.key = <<u, Show>>
           THEN "race" ELSE "vote")
  /\ Vote(u, decision)
  /\ asked' = IF decision = "stop" THEN asked
              ELSE asked \cup {[user |-> u, mode |-> "all", seasons |-> {}, trial |-> ""]}
  /\ UNCHANGED <<passVars, availVars, discoverVars, scenario>>

UserWatches(u, e) ==
  /\ episode[e] = "imported" /\ e \notin watched[u] /\ Playback(u, e)
  /\ UNCHANGED <<passVars, availVars, discoverVars, systemVars>>

OperatorPatches(h, p) ==
  /\ Spend("patch") /\ ReceivePatch(h, p)
  /\ asked' = IF p.mode = "" THEN asked
              ELSE asked \cup {[user |-> CHOOSE u \in Users : TRUE, mode |-> p.mode,
                                seasons |-> {}, trial |-> ""]}
  /\ UNCHANGED <<passVars, availVars, discoverVars, scenario>>

-------------------------------------------------------------------------------
(* Handlers, passes and what goes wrong with them.                         *)

Handle(h) ==
  /\ HandlerStep(h) /\ Remember
  /\ UNCHANGED <<passVars, availVars, generation, pluginVars, systemVars>>

HandlerFails(h) ==
  /\ Spend("fail") /\ Fail(h)
  /\ UNCHANGED <<passVars, availVars, discoverVars, scenario, asked>>

RunPass(p) ==
  /\ "passes" \in scenario.jobs /\ PassStep(p)
  /\ UNCHANGED <<call, availVars, discoverVars, systemVars>>

PassAborts(p) ==
  /\ Spend("abort") /\ AbortPass(p)
  /\ UNCHANGED <<call, availVars, discoverVars, scenario, asked>>

PassSkips(p, e) ==
  /\ Spend("skip") /\ SkipEpisode(p, e)
  /\ UNCHANGED <<call, availVars, discoverVars, scenario, asked>>

ProviderAnnounces(e) ==
  /\ Spend("announce") /\ Announce(e)
  /\ UNCHANGED <<call, availVars, discoverVars, scenario, asked>>

EpisodeAirs(e) ==
  /\ Air(e)
  /\ UNCHANGED <<call, availVars, discoverVars, systemVars>>

(* The acquisition pipeline takes an item on, and ends with it.            *)
Acquire(s) ==
  LET phase == IF s \in Movies THEN movie[s] ELSE episode[s]
      Becomes(to) == IF s \in Movies THEN movie' = [movie EXCEPT ![s] = to] /\ UNCHANGED episode
                     ELSE episode' = [episode EXCEPT ![s] = to] /\ UNCHANGED movie IN
  /\ "acquisition" \in scenario.jobs
  /\ \/ phase = "wanted" /\ Becomes("active") /\ UNCHANGED budget
     \/ phase = "active" /\ Becomes("imported") /\ UNCHANGED budget
     \/ phase = "active" /\ Spend("broken") /\ Becomes("failed")
  /\ UNCHANGED <<recVars, series, selected, requestVars, syncVars, call, passVars,
                 availVars, discoverVars, scenario, asked>>

-------------------------------------------------------------------------------
(* Synchronisation, notices, recommendations and the plugin.               *)

SyncStep ==
  /\ "sync" \in scenario.jobs /\ AvailStep
  /\ UNCHANGED <<call, passVars, discoverVars, systemVars>>

(* A message whose run has ended.                                          *)
HandleLate ==
  /\ \E m \in wire : m.token # run.token /\ (HandleBatch(m) \/ HandleComplete(m))
  /\ UNCHANGED <<call, passVars, discoverVars, systemVars>>

SyncFault ==
  /\ \/ Spend("lose") /\ \E m \in wire : LoseMessage(m)
     \/ Spend("giveup") /\ GiveUp
     \/ Spend("library") /\ \E i \in JellyfinItems : ChangeLibrary(i)
  /\ UNCHANGED <<call, passVars, discoverVars, scenario, asked>>

Notify ==
  /\ "worker" \in scenario.jobs
  /\ WorkerStep \/ Post(TRUE, TRUE) \/ \E k \in Keys : ComeDue(k)
  /\ UNCHANGED <<call, passVars, discoverVars, systemVars>>

(* The budget "abandon" is for attempts whose outcome is not recorded: the *)
(* worker dies, its row cannot be written, or the answer is lost.          *)
NotifyFault ==
  /\ \/ Spend("refuse") /\ Post(FALSE, TRUE)
     \/ Spend("abandon") /\ (Abandon \/ Post(TRUE, FALSE))
  /\ UNCHANGED <<call, passVars, discoverVars, scenario, asked>>

Generate ==
  /\ \/ Spend("generate") /\ \E u \in Users : GenerateRead(u)
     \/ Spend("prune") /\ \E k \in Keys : Prune(k)
     \/ UNCHANGED budget /\ (GenerateFail \/ \E offered \in SUBSET Titles : GenerateReplace(offered))
  /\ UNCHANGED <<passVars, availVars, scenario, asked>>

Monitor ==
  /\ "monitor" \in scenario.jobs /\ MonitorStep(scenario.users) /\ Hear
  /\ UNCHANGED <<passVars, availVars, budget, scenario>>

PluginFault ==
  /\ \/ Spend("unanswered") /\ LoseAnswer
     \/ Spend("mark") /\ \E k \in Keys, act \in MarkActs : Mark(k, act)
  /\ UNCHANGED <<passVars, availVars, scenario, asked>>

ForgetCall(h) ==
  /\ Forget(h)
  /\ UNCHANGED <<passVars, availVars, systemVars>>

Next ==
  \/ \E h \in Handlers :
       \/ \E k \in Keys : UserRetries(h, k)
       \/ \E k \in Keys, act \in scenario.acts, ask \in scenario.asks : UserActs(h, k, act, ask)
       \/ \E p \in Patches : OperatorPatches(h, p)
       \/ Handle(h) \/ HandlerFails(h) \/ ForgetCall(h)
  \/ \E k \in Keys : UserCancels(k)
  \/ \E u \in Users, decision \in {"continue", "stop"} : UserVotes(u, decision)
  \/ \E u \in Users, e \in Episodes : UserWatches(u, e)
  \/ \E p \in Passes : RunPass(p) \/ PassAborts(p) \/ \E e \in Episodes : PassSkips(p, e)
  \/ \E e \in Episodes : ProviderAnnounces(e) \/ EpisodeAirs(e)
  \/ \E s \in Movies \cup Episodes : Acquire(s)
  \/ SyncStep \/ SyncFault \/ Notify \/ NotifyFault
  \/ Generate \/ Monitor \/ PluginFault

(* The loops run on, handlers finish, the plugin checks every minute; how  *)
(* often anything fails is bounded by the budget.                          *)
Fairness ==
  /\ \A h \in Handlers : WF_vars(Handle(h)) /\ WF_vars(ForgetCall(h))
  /\ \A p \in Passes : WF_vars(RunPass(p))
  /\ WF_vars(SyncStep) /\ WF_vars(HandleLate)
  /\ WF_vars(Notify)
  /\ WF_vars(Monitor)

Spec == Init /\ [][Next]_vars /\ Fairness

-------------------------------------------------------------------------------
(* Properties.                                                             *)

(* Every variable stays in its domain: rows, handlers, passes, messages.   *)
RequestTypeOK ==
  /\ recs \in [Keys -> [id : Nat, st : RecStatus]]
  /\ movie \in [Movies -> Phase] /\ episode \in [Episodes -> Phase]
  /\ series.mode \in MonitorMode /\ series.status \in {"missing", "following", "paused"}
  /\ request \in [Keys -> [st : {"none", "open", "withdrawn"}, mode : RequestMode,
                           seasons : SUBSET Nat]]
  /\ \A u \in Users : /\ trial[u].scope \in TrialScope \cup {"none"}
                      /\ trial[u].decision \in Decision \cup {""}
                      /\ watched[u] \subseteq picked[u]
  /\ notice \in [Keys -> [id : Nat, st : {"none", "due", "waiting", "delivered"}]]
  /\ \A h \in Handlers : call[h].pc \in {"idle", "told", "rules", "subject", "update", "track",
                             "scope", "record", "force", "ok", "error"}
  /\ \A p \in Passes : pass[p].pc \in {"idle", "seasons", "limits", "fetch", "prepare", "ids", "store"}

(* An episode is looked for only because somebody asked for it: a monitor  *)
(* mode that covers it, its season, or a trial it was chosen for.  A trial *)
(* alone never makes Reelay fetch more than the trial.                     *)
NothingUnrequested ==
  \A e \in Episodes : episode[e] \notin {"missing", "unmonitored"} =>
    \E a \in asked :
      \/ a.mode \in {"all", "latest_season"}
      \/ a.mode = "future_only" /\ e \notin Old
      \/ Season[e] \in a.seasons
      \/ a.trial # "" /\ e \in picked[a.user]

(* A trial stays within what it was started for.                           *)
TrialWithinScope ==
  \A u \in Users :
    /\ trial[u].scope = "one_episode" => Cardinality(picked[u]) <= 1
    /\ trial[u].scope = "three_episodes" => Cardinality(picked[u]) <= 3
    /\ trial[u].scope = "first_season" => \A e \in picked[u] : Season[e] = trial[u].season
    /\ \A e \in picked[u] : Season[e] > 0 /\ Number[e] > 0

(* Trials are what TrialPromise says, whatever else happens to the tables. *)
Promise == INSTANCE TrialPromise WITH
  Requesters <- Users, Parts <- Episodes,
  stage <- [u \in Users |-> IF trial[u].scope = "none" THEN "none"
                            ELSE IF trial[u].decision = "" THEN "open" ELSE trial[u].decision],
  due <- picked, seen <- watched
KeepsPromise == Promise!Spec

(* Once the outside world rests: an aired episode of a running trial is    *)
(* looked for, unless the request is withdrawn or the series paused.       *)
TrialGetsFetched ==
  <>[]\A u \in Users, e \in Episodes :
        /\ e \in picked[u] /\ provider[e] = "aired"
        /\ Undecided(u) /\ Open(<<u, Show>>) /\ series.status = "following"
        => episode[e] # "unmonitored"

(* Whatever the list of requests shows as in need of attention, a retry of *)
(* that request has something to search.                                   *)
AttentionIsRetryable ==
  \A k \in Keys :
    NeedsAttention(k) /\ (k[2] = Show => series.status = "following") => RetryTodo(k) # {}

(* However messages of ended runs mix with those of the next, Reelay comes *)
(* to hold present what Jellyfin holds once the library stops changing.    *)
SyncConverges == <>[]("sync" \in scenario.jobs => Present = library)

Spent(kind) == scenario.budget[kind] - budget[kind]

(* A notice that counts as delivered was accepted by the endpoint, unless  *)
(* a request was withdrawn while its notice was under way: its number may  *)
(* then belong to another.                                                 *)
DeliveredWasSent ==
  Spent("race") = 0 => \A k \in Keys : notice[k].st = "delivered" => posted[k] > 0

(* Notices are posted at least once.  The endpoint accepts the notice of a *)
(* request again only for an attempt whose outcome was not recorded (a     *)
(* death, a failed write, a lost answer) or a withdrawal: refusals, claims *)
(* that come due, items that vanish and return and late messages of the    *)
(* synchronisation never cause a second one.                               *)
OneNoticeEach ==
  \A k \in Keys : posted[k] <= 1 + Spent("abandon") + Spent("race")

(* Every open request whose title stays in the library gets announced.     *)
AvailableIsAnnounced ==
  <>[]\A k \in Keys :
        /\ {"sync", "worker"} \subseteq scenario.jobs
        /\ Open(k) /\ \E i \in library : TitleOf[i] = k[2]
        => posted[k] > 0

(* The plugin's outbox loses nothing: what left it Reelay has recorded.    *)
Delivery == INSTANCE ActionDelivery WITH
  pending <- {outbox[i].aid : i \in DOMAIN outbox},
  done <- recorded
OutboxKeepsActions == Delivery!Spec

(* Every mark is worked off again and again, unless the recommendation of  *)
(* an action in the outbox is gone: that action fails for good, and what   *)
(* is queued behind it waits.                                              *)
OutboxMoves ==
  []<>(\/ outbox = <<>> /\ \A k \in Keys : mark[k] = ""
       \/ \E i \in DOMAIN outbox : ~HasRec(outbox[i].rid))

(* A title a user has rated is not offered to that user again, in whatever *)
(* order ratings, dismissals, generations and expiry come, unless the      *)
(* rating is the vote of a trial whose request was never recorded: its     *)
(* recommendation may be gone, and a generation that is under way does not *)
(* know of the vote.                                                       *)
Unrecorded(k) ==
  k[2] = Show /\ trial[k[1]].decision # "" /\ ~\E f \in feedback : f.key = k
RatedNeverOffered == \A k \in rated : recs[k].st # "active" \/ Unrecorded(k)

(* The README says that rated titles remain excluded from suggestions.     *)
RatedStaysExcluded == \A k \in rated : recs[k].st # "active"
===============================================================================
