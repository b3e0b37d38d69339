----------------------------- MODULE RequestProofs -----------------------------
(***************************************************************************)
(* What Discover, Requests and the notices promise, for any number of      *)
(* users, titles, handlers, passes and failures: nothing is looked for     *)
(* that nobody asked for, a rated title is not offered again, a request is *)
(* announced once, and the plugin's outbox loses nothing.                  *)
(***************************************************************************)
EXTENDS RequestTypes

-------------------------------------------------------------------------------
(* Requests in need of attention.                                          *)

(* The list of requests and the retry judge the episodes of a request by   *)
(* different queries; what the first counts as failed the second retries   *)
(* (store/requests.go ListPage and api/requests.go retry).                 *)
THEOREM AttentionCanBeRetried == Spec => []AttentionIsRetryable
<1>1. AttentionIsRetryable
  <2> SUFFICES ASSUME NEW k \in Keys, NeedsAttention(k),
                      k[2] = Show => series.status = "following"
               PROVE  RetryTodo(k) # {}
    BY DEF AttentionIsRetryable
  <2>1. CASE k[2] \in Movies /\ movie[k[2]] = "failed"
    <3>1. k[2] # Show
      BY <2>1, TablesAssumption
    <3>2. k[2] \in RetryTodo(k)
      BY <2>1, <3>1 DEF RetryTodo, Retryable
    <3>3. QED
      BY <3>2
  <2>2. CASE k[2] = Show /\ \E e \in Episodes : episode[e] = "failed" /\ Summarised(k[1], e)
    <3>1. PICK e \in Episodes : episode[e] = "failed" /\ Summarised(k[1], e)
      BY <2>2
    <3>2. Includes(k[1], e)
      BY <3>1, Zenon DEF Includes, Summarised
    <3>3. e \in RetryTodo(k)
      BY <2>2, <3>1, <3>2 DEF RetryTodo, Retryable, Stored
    <3>4. QED
      BY <3>3
  <2>3. QED
    BY <2>1, <2>2 DEF NeedsAttention
<1>2. QED
  BY <1>1, PTL

-------------------------------------------------------------------------------
(* Rated titles.  A generation that is under way leaves out what was rated *)
(* or acted on when it started; whatever is rated or acted on later still  *)
(* has its row, which a new list keeps, unless a vote rates a title whose  *)
(* row is gone.                                                            *)

ListLeavesOut ==
  generation.pc = "rank" =>
    \A k \in Keys :
      k[1] = generation.user /\ recs[k].id = 0 /\ (k \in rated \/ \E f \in feedback : f.key = k)
      => k[2] \in generation.excluded \/ Unrecorded(k)
OfferInv == rated \subseteq Keys /\ RatedNeverOffered /\ ListLeavesOut

(* The steps by what they do to the lists.                                 *)
OfferSteps ==
  \/ UNCHANGED <<recVars, generation>>
  \/ UNCHANGED <<trial, generation>> /\ \E h \in Handlers : Recorded(h)
  \/ UNCHANGED generation /\ \E u \in Users, decision \in {"continue", "stop"} : Vote(u, decision)
  \/ UNCHANGED trial /\ \/ \E u \in Users : GenerateRead(u)
                        \/ \E k \in Keys : Prune(k)
                        \/ GenerateFail \/ \E offered \in SUBSET Titles : GenerateReplace(offered)

LEMMA ListSteps ==
  ASSUME SystemTypes, [Next]_vars PROVE OfferSteps
<1> USE DEF tables, recVars, subjectVars, requestVars, syncVars, discoverVars, OfferSteps
<1>1. ASSUME NEW h \in Handlers, Handle(h) PROVE OfferSteps
  <2>1. CASE Record(h)
    BY <1>1, <2>1, RecordRecords DEF Handle
  <2>2. CASE ~Record(h)
    BY <1>1, <2>2 DEF Handle, HandlerStep, ReadRecorded, CheckRules, RequestMovie, CreateSeries,
         ReadSeries, UpdateSeries, TrackRequest, SelectSeasons, BeginTrial, ForceSearch, Reopen
  <2>3. QED
    BY <2>1, <2>2
<1>2. CASE \E h \in Handlers : \/ HandlerFails(h) \/ ForgetCall(h)
                               \/ \E k \in Keys : UserRetries(h, k)
                               \/ \E k \in Keys, act \in scenario.acts, ask \in scenario.asks :
                                    UserActs(h, k, act, ask)
                               \/ \E patch \in Patches : OperatorPatches(h, patch)
  BY <1>2, ZenonT(30) DEF HandlerFails, Fail, ForgetCall, Forget, UserRetries, ReceiveRetry, UserActs,
              OperatorPatches, ReceivePatch
<1>3. CASE \/ \E k \in Keys : UserCancels(k)
           \/ \E u \in Users, e \in Episodes : UserWatches(u, e)
           \/ \E s \in Movies \cup Episodes : Acquire(s)
           \/ \E e \in Episodes : ProviderAnnounces(e) \/ EpisodeAirs(e)
  BY <1>3 DEF UserCancels, CancelRequest, UserWatches, Playback, Acquire, ProviderAnnounces,
              Announce, EpisodeAirs, Air
<1>4. CASE \E u \in Users, decision \in {"continue", "stop"} : UserVotes(u, decision)
  BY <1>4 DEF UserVotes
<1>5. CASE \E p \in Passes : RunPass(p) \/ PassAborts(p) \/ \E e \in Episodes : PassSkips(p, e)
  <2>1. UNCHANGED <<recs, feedback, rated, generation>>
    BY <1>5, ZenonT(30) DEF RunPass, PassStep, ListSeries, ReadSeasons, ReadLimits,
                FetchEpisodes, StoreAnnounced, SelectEpisodes,
                ReadSelected, FinishPass, StoreEpisode, PassAborts, AbortPass, PassSkips, SkipEpisode
  <2>2. QED
    BY <2>1
<1>6. CASE SyncStep \/ SyncFault \/ Notify \/ NotifyFault
  BY <1>6 DEF SyncStep, AvailStep, BeginSync, SendBatch, SendComplete, HandleBatch, HandleComplete,
              SyncFault, LoseMessage, GiveUp, ChangeLibrary, Notify, WorkerStep, Claim, Finish,
              Post, ComeDue, NotifyFault, Abandon
<1>7. CASE Generate
  BY <1>7 DEF Generate, GenerateRead, GenerateFail, GenerateReplace, Prune
<1>8. CASE Monitor \/ PluginFault
  BY <1>8 DEF Monitor, MonitorStep, BeginCheck, Answered, RefreshVirtual, SendQueued, SendMark,
              ListActive, PluginFault, LoseAnswer, Mark
<1>9. CASE UNCHANGED vars
  BY <1>9 DEF vars
<1>10. QED
  BY <1>1, <1>2, <1>3, <1>4, <1>5, <1>6, <1>7, <1>8, <1>9 DEF Next

(* A trial that was decided stays decided.                                 *)
LEMMA DecisionsStay ==
  ASSUME TrialInv, [Next]_vars, NEW u \in Users, trial[u].decision # ""
  PROVE  trial'[u].decision # ""
<1>1. trial \in [Users -> TrialRows] /\ trial[u].scope # "none"
  BY DEF TrialInv, TrialTypes, TrialFits
<1>2. CASE Elsewhere \/ Sees
  BY <1>2 DEF Elsewhere, Sees
<1>3. CASE Starts
  <2>1. PICK v, scope : CanStartTrial(v, scope) /\ StartTrial(v, scope)
    BY <1>3 DEF Starts
  <2>2. UNCHANGED trial \/ (trial[v].scope = "none" /\ \E row : trial' = [trial EXCEPT ![v] = row])
    BY <2>1, Zenon DEF StartTrial
  <2>3. UNCHANGED trial \/ trial'[u] = trial[u]
    BY <1>1, <2>2
  <2>4. QED
    BY <2>3
<1>4. CASE Decides
  <2>1. PICK v \in Users, decision \in {"continue", "stop"} :
          trial' = [trial EXCEPT ![v].decision = decision]
    BY <1>4 DEF Decides
  <2>2. trial'[u] = IF u = v THEN [trial[u] EXCEPT !.decision = decision] ELSE trial[u]
    BY <1>1, <2>1
  <2>3. trial'[u].decision \in {trial[u].decision, "continue", "stop"}
    BY <1>1, <2>2 DEF TrialRows
  <2>4. "continue" # "" /\ "stop" # ""
    OBVIOUS
  <2>5. QED
    BY <2>3, <2>4, Zenon
<1>5. CASE Prepares
  BY <1>5, PreparedTrials DEF Prepares
<1>6. QED
  BY <1>2, <1>3, <1>4, <1>5, SystemSteps


LEMMA OfferStart == Init => OfferInv
<1> SUFFICES ASSUME Init PROVE OfferInv
  OBVIOUS
<1>1. rated = {} /\ generation = NoGeneration
  BY DEF Init
<1>2. NoGeneration.pc # "rank"
  BY DEF NoGeneration
<1>3. QED
  BY <1>1, <1>2 DEF OfferInv, RatedNeverOffered, ListLeavesOut

(* Acting on a recommendation keeps its row, and takes it off the list     *)
(* unless the action is an undo, which a rated title does not allow.       *)
LEMMA RecordOffers ==
  ASSUME SystemTypes, OfferInv, NEW h \in Handlers, Recorded(h), UNCHANGED <<trial, generation>>
  PROVE  OfferInv'
<1>1. PICK k \in Keys :
        /\ recs[k].id > 0
        /\ \/ CanUndo(k) /\ UndoDismissal(k) /\ UNCHANGED rated
           \/ RecordRating(k) /\ UNCHANGED feedback
           \/ RecordAction(k, call[h].aid, call[h].act) /\ UNCHANGED rated
  BY DEF Recorded
<1>2. RecTypes
  BY DEF SystemTypes, TableTypes
<1>3. CASE UNCHANGED recVars
  BY <1>3 DEF recVars, OfferInv, RatedNeverOffered, ListLeavesOut, Unrecorded
<1>4. CASE CanUndo(k) /\ UndoDismissal(k) /\ UNCHANGED rated
  <2>1. /\ k \notin rated /\ UNCHANGED rated
        /\ feedback' \subseteq feedback
        /\ recs'[k].id = recs[k].id /\ \A j \in Keys \ {k} : recs'[j] = recs[j]
    <3>1. recs' = [recs EXCEPT ![k].st = "active"] /\ "active" \in RecStatus
      BY <1>4 DEF UndoDismissal, RecStatus
    <3>2. recs'[k].id = recs[k].id /\ \A j \in Keys \ {k} : recs'[j] = recs[j]
      BY <1>1, <1>2, <3>1, StatusMoves
    <3>3. QED
      BY <1>4, <3>2 DEF CanUndo, UndoDismissal
  <2>2. \A j : Unrecorded(j) => Unrecorded(j)'
    BY <2>1 DEF Unrecorded
  <2>3. RatedNeverOffered'
    BY <2>1, <2>2 DEF OfferInv, RatedNeverOffered
  <2>4. ListLeavesOut'
    BY <2>1, <2>2 DEF OfferInv, ListLeavesOut
  <2>5. QED
    BY <2>1, <2>3, <2>4 DEF OfferInv
<1>5. ASSUME NEW st \in {"requested", "dismissed"},
             recs' = IF recs[k].id = 0 THEN recs ELSE [recs EXCEPT ![k].st = st],
             rated' \subseteq rated \cup {k},
             \A f \in feedback : f \in feedback',
             \A f \in feedback' : f \in feedback \/ f.key = k
      PROVE  OfferInv'
  <2>1. recs'[k].st # "active" /\ recs'[k].id = recs[k].id /\ \A j \in Keys \ {k} : recs'[j] = recs[j]
    BY <1>2, <1>5, TakenOff
  <2>2. \A j \in Keys \ {k} : Unrecorded(j) => Unrecorded(j)'
    BY <1>5 DEF Unrecorded
  <2>3. RatedNeverOffered'
    BY <1>5, <2>1, <2>2 DEF OfferInv, RatedNeverOffered
  <2>4. ListLeavesOut'
    BY <1>1, <1>5, <2>1, <2>2 DEF OfferInv, ListLeavesOut
  <2>5. QED
    BY <1>5, <2>3, <2>4 DEF OfferInv
<1>6. CASE RecordRating(k) /\ UNCHANGED feedback
  BY <1>5, <1>6 DEF RecordRating
<1>7. CASE RecordAction(k, call[h].aid, call[h].act) /\ UNCHANGED rated
  <2>1. CASE UNCHANGED <<feedback, recs>>
    BY <1>3, <1>7, <2>1 DEF recVars
  <2>2. CASE ~UNCHANGED <<feedback, recs>>
    <3> DEFINE st == IF call[h].act = "request" THEN "requested" ELSE "dismissed"
               new == [aid |-> call[h].aid, act |-> call[h].act, key |-> k]
    <3>1. feedback' = feedback \cup {new} /\ new.key = k
          /\ recs' = (IF recs[k].id = 0 THEN recs ELSE [recs EXCEPT ![k].st = st])
      BY <1>7, <2>2 DEF RecordAction
    <3>2. st \in {"requested", "dismissed"}
      OBVIOUS
    <3> HIDE DEF st, new
    <3>3. QED
      BY <1>5, <1>7, <3>1, <3>2
  <2>3. QED
    BY <2>1, <2>2
<1>8. QED
  BY <1>1, <1>4, <1>6, <1>7

LEMMA VoteOffers ==
  ASSUME SystemTypes, TrialInv, OfferInv, UNCHANGED generation,
         NEW u \in Users, NEW decision \in {"continue", "stop"}, Vote(u, decision)
  PROVE  OfferInv'
<1> DEFINE k == <<u, Show>>
           st == IF decision = "continue" THEN "requested" ELSE "dismissed"
<1>1. k \in Keys /\ k[1] = u /\ k[2] = Show
  BY DEF Keys, Titles
<1>2. /\ rated' = rated \cup {k} /\ UNCHANGED feedback
      /\ recs' = IF recs[k].id = 0 THEN recs ELSE [recs EXCEPT ![k].st = st]
      /\ trial' = [trial EXCEPT ![u].decision = decision]
  BY DEF Vote, VoteTrial
<1>3. /\ \A v \in Users \ {u} : trial'[v] = trial[v]
      /\ trial'[u].decision # ""
  BY <1>2 DEF TrialInv, TrialTypes, TrialRows
<1>4. RecTypes /\ st \in {"requested", "dismissed"}
  BY DEF SystemTypes, TableTypes
<1>5. \A j \in Keys : Unrecorded(j) => Unrecorded(j)'
  <2> SUFFICES ASSUME NEW j \in Keys, Unrecorded(j) PROVE Unrecorded(j)'
    OBVIOUS
  <2>1. trial'[j[1]].decision # ""
    BY <1>3 DEF Unrecorded, Keys
  <2>2. QED
    BY <1>2, <2>1 DEF Unrecorded
<1>6. (\E f \in feedback : f.key = k) \/ Unrecorded(k)'
  BY <1>1, <1>2, <1>3 DEF Unrecorded
<1> HIDE DEF k, st
<1>7. RecTypes' /\ recs'[k].st # "active" /\ recs'[k].id = recs[k].id
      /\ \A j \in Keys \ {k} : recs'[j] = recs[j]
  BY <1>1, <1>2, <1>4, TakenOff
<1>8. RatedNeverOffered'
  BY <1>2, <1>5, <1>7 DEF OfferInv, RatedNeverOffered
<1>9. ListLeavesOut'
  <2> SUFFICES ASSUME generation.pc = "rank", NEW j \in Keys, j[1] = generation.user,
                      recs'[j].id = 0, j \in rated' \/ \E f \in feedback : f.key = j
               PROVE  j[2] \in generation.excluded \/ Unrecorded(j)'
    BY <1>2 DEF ListLeavesOut
  <2>1. recs[j].id = 0
    BY <1>7
  <2>2. CASE j \in rated \/ \E f \in feedback : f.key = j
    BY <1>5, <2>1, <2>2 DEF OfferInv, ListLeavesOut
  <2>3. CASE j = k
    BY <1>6, <2>1, <2>2, <2>3
  <2>4. QED
    BY <1>2, <2>2, <2>3
<1>10. QED
  BY <1>1, <1>2, <1>8, <1>9 DEF OfferInv

LEMMA GenerateOffers ==
  ASSUME SystemTypes, OfferInv, UNCHANGED trial,
         \/ \E u \in Users : GenerateRead(u)
         \/ \E k \in Keys : Prune(k)
         \/ GenerateFail \/ \E offered \in SUBSET Titles : GenerateReplace(offered)
  PROVE  OfferInv'
<1> USE DEF tables, recVars
<1>0. UNCHANGED <<feedback, rated>> /\ \A j : Unrecorded(j)' <=> Unrecorded(j)
  BY DEF GenerateRead, Prune, GenerateFail, GenerateReplace, Unrecorded
<1>a. RecTypes /\ GenerationTypes /\ rated \subseteq Keys
  BY DEF SystemTypes, TableTypes, OfferInv
<1>b. NoGeneration.pc # "rank"
  BY DEF NoGeneration
<1>1. ASSUME NEW u \in Users, GenerateRead(u) PROVE OfferInv'
  <2>1. UNCHANGED recs /\ generation' = [pc |-> "rank", user |-> u, excluded |-> Excluded(u)]
    BY <1>1 DEF GenerateRead
  <2>2. ASSUME NEW k \in Keys, k[1] = u, k \in rated \/ \E f \in feedback : f.key = k
        PROVE  k[2] \in Excluded(u)
    <3>1. k = <<u, k[2]>> /\ k[2] \in Titles
      BY <2>2 DEF Keys
    <3>2. QED
      BY <2>2, <3>1 DEF Excluded
  <2>3. QED
    BY <1>0, <2>1, <2>2 DEF OfferInv, RatedNeverOffered, ListLeavesOut
<1>2. ASSUME NEW k \in Keys, Prune(k) PROVE OfferInv'
  <2>1. recs' = [recs EXCEPT ![k] = NoRec] /\ UNCHANGED generation /\ generation.pc = "idle"
    BY <1>2 DEF Prune
  <2>2. NoRec.st # "active"
    BY DEF NoRec
  <2>3. \A j \in Keys : recs'[j].st = "active" => recs[j].st = "active"
    BY <1>a, <2>1, <2>2 DEF RecTypes
  <2>4. QED
    BY <1>0, <2>1, <2>3 DEF OfferInv, RatedNeverOffered, ListLeavesOut
<1>3. CASE GenerateFail
  BY <1>0, <1>3, <1>b DEF GenerateFail, OfferInv, RatedNeverOffered, ListLeavesOut
<1>4. ASSUME NEW offered \in SUBSET Titles, GenerateReplace(offered) PROVE OfferInv'
  <2> DEFINE u == generation.user
  <2>1. /\ generation.pc = "rank" /\ offered \subseteq Titles \ generation.excluded
        /\ Replace(u, Titles, offered) /\ generation' = NoGeneration
    BY <1>4 DEF GenerateReplace
  <2>2. u \in Users
    BY <1>a, <2>1 DEF GenerationTypes
  <2> HIDE DEF u
  <2>3. \A k \in Keys : \/ recs'[k] = recs[k]
                        \/ recs'[k] = NoRec
                        \/ k[1] = u /\ k[2] \in offered /\ recs[k].id = 0
    BY <1>a, <2>1, <2>2, ReplacedRows
  <2>4. NoRec.st # "active"
    BY DEF NoRec
  <2>5. ASSUME NEW k \in rated, recs'[k].st = "active" PROVE Unrecorded(k)
    <3>1. k \in Keys
      BY <1>a
    <3>2. CASE recs'[k] = recs[k]
      BY <2>5, <3>2 DEF OfferInv, RatedNeverOffered
    <3>3. CASE k[1] = u /\ k[2] \in offered /\ recs[k].id = 0
      BY <2>1, <3>1, <3>3 DEF OfferInv, ListLeavesOut, u
    <3>4. QED
      BY <2>3, <2>4, <2>5, <3>1, <3>2, <3>3
  <2>6. QED
    BY <1>0, <1>a, <1>b, <2>1, <2>5 DEF OfferInv, RatedNeverOffered, ListLeavesOut
<1>5. QED
  BY <1>1, <1>2, <1>3, <1>4

LEMMA OfferStep == SystemTypes /\ TrialInv /\ OfferInv /\ [Next]_vars => OfferInv'
<1> SUFFICES ASSUME SystemTypes, TrialInv, OfferInv, [Next]_vars PROVE OfferInv'
  OBVIOUS
<1>1. CASE UNCHANGED <<recVars, generation>>
  <2>1. UNCHANGED <<recs, feedback, rated, generation>>
    BY <1>1 DEF recVars
  <2>2. \A k \in Keys : Unrecorded(k) => Unrecorded(k)'
    BY <2>1, DecisionsStay DEF Unrecorded, Keys
  <2>3. QED
    BY <2>1, <2>2 DEF OfferInv, RatedNeverOffered, ListLeavesOut
<1>2. QED
  BY <1>1, ListSteps, RecordOffers, VoteOffers, GenerateOffers DEF OfferSteps

(* A title a user has rated is not offered to that user again, unless the  *)
(* rating is the vote of a trial whose request was never recorded          *)
(* (recommendation/service.go, store/recommendations.go).                  *)
THEOREM RatedTitlesStayOff == Spec => []RatedNeverOffered
<1>1. Init => OfferInv
  BY OfferStart
<1>2. OfferInv => RatedNeverOffered
  BY DEF OfferInv
<1>3. QED
  BY <1>1, <1>2, OfferStep, TypesInvariant, PTL DEF Spec


-------------------------------------------------------------------------------
(* Notices.  The worker works on the row it claimed as long as the row     *)
(* keeps its number: a withdrawal drops the row, and its number may then   *)
(* go to the row of another request.                                       *)

Busy == worker.pc # "idle"
Holds == Busy /\ notice[worker.key].id = worker.id

(* A post that is under way for a row that is gone.                        *)
Stray(k) == worker.pc = "post" /\ worker.key = k /\ ~Holds
(* The notice was delivered, or was accepted and its row says so soon.     *)
Done(k) ==
  notice[k].st = "delivered" \/ (worker.pc = "finish" /\ worker.sent /\ worker.key = k /\ Holds)
Count(fact) == IF fact THEN 1 ELSE 0

NoticeNumbers ==
  /\ \A j, k \in Keys : notice[j].id = notice[k].id /\ notice[j].id # 0 => j = k
  /\ \A k \in Keys : notice[k].id = 0 <=> notice[k].st = "none"
  /\ Busy => worker.key \in Keys /\ worker.id > 0
  /\ Holds => notice[worker.key].st \in {"due", "waiting"}
SpentInBudget == \A kind \in {"abandon", "race"} : budget[kind] <= scenario.budget[kind]

(* An accepted post is accounted for by its delivered row, or by an        *)
(* attempt without a recorded outcome or a withdrawal in between.          *)
PostsAccounted ==
  \A k \in Keys : posted[k] + Count(Stray(k)) <= Spent("abandon") + Spent("race") + Count(Done(k))

(* Without such a withdrawal the worker never loses its row.               *)
RowsKept ==
  Spent("race") = 0 =>
    /\ Busy => Holds /\ notice[worker.key].st = "waiting"
    /\ worker.pc = "finish" /\ worker.sent => posted[worker.key] > 0
    /\ \A k \in Keys : notice[k].st = "delivered" => posted[k] > 0
NoticeInv == NoticeNumbers /\ SpentInBudget /\ PostsAccounted /\ RowsKept


LEMMA NoticeStart == Init => NoticeInv
<1> SUFFICES ASSUME Init PROVE NoticeInv
  OBVIOUS
<1>1. /\ notice = [k \in Keys |-> NoNotice] /\ worker = Resting /\ posted = [k \in Keys |-> 0]
      /\ budget = scenario.budget
  BY DEF Init
<1>2. NoNotice.id = 0 /\ NoNotice.st = "none"
  BY DEF NoNotice
<1> HIDE DEF NoNotice
<1>3. budget \in [Kinds -> Nat] /\ {"abandon", "race"} \subseteq Kinds
  BY TypesStart DEF SystemTypes, Kinds
<1>4. ~Busy
  BY <1>1, RestIsTyped DEF Busy
<1>5. NoticeNumbers
  BY <1>1, <1>2, <1>4 DEF NoticeNumbers, Holds
<1>6. SpentInBudget /\ Spent("abandon") = 0 /\ Spent("race") = 0
  BY <1>1, <1>3 DEF SpentInBudget, Spent
<1>7. \A k \in Keys : ~Stray(k) /\ ~Done(k) /\ posted[k] = 0
  BY <1>1, <1>2, <1>4 DEF Stray, Done, Busy
<1>8. PostsAccounted
  BY <1>6, <1>7 DEF PostsAccounted, Count
<1>9. RowsKept
  BY <1>1, <1>2, <1>4 DEF RowsKept, Busy
<1>10. QED
  BY <1>5, <1>6, <1>8, <1>9 DEF NoticeInv

LEMMA SpentIsNat ==
  ASSUME SystemTypes, SpentInBudget, NEW kind \in {"abandon", "race"}
  PROVE  Spent(kind) \in Nat
<1>1. budget[kind] \in Nat /\ scenario.budget[kind] \in Nat
  BY ScenariosAssumption DEF SystemTypes, Kinds
<1>2. QED
  BY <1>1 DEF SpentInBudget, Spent

LEMMA BudgetKept ==
  ASSUME SystemTypes, SpentInBudget, [Next]_vars, NEW kind \in {"abandon", "race"}, Keeps(kind)
  PROVE  Spent(kind)' = Spent(kind) /\ budget'[kind] <= scenario'.budget[kind]
  BY BudgetStep DEF Keeps, Spent, SpentInBudget

LEMMA BudgetSpent ==
  ASSUME SystemTypes, SpentInBudget, [Next]_vars, NEW kind \in {"abandon", "race"}, Spend(kind)
  PROVE  Spent(kind)' = Spent(kind) + 1 /\ budget'[kind] <= scenario'.budget[kind]
<1>1. budget \in [Kinds -> Nat] /\ kind \in Kinds /\ scenario.budget[kind] \in Nat
  BY ScenariosAssumption DEF SystemTypes, Kinds
<1>2. budget'[kind] = budget[kind] - 1 /\ UNCHANGED scenario /\ budget[kind] \in Nat
  BY <1>1, Spending, BudgetStep
<1>3. budget[kind] <= scenario.budget[kind]
  BY DEF SpentInBudget
<1>4. QED
  BY <1>1, <1>2, <1>3 DEF Spent

(* A step that leaves budgets alone accounts for its posts when it adds no *)
(* more than it takes off.                                                 *)
LEMMA Accounted ==
  ASSUME SystemTypes, SpentInBudget, PostsAccounted, [Next]_vars, posted' \in [Keys -> Nat],
         Keeps("abandon"), Keeps("race"),
         \A k \in Keys : posted'[k] + Count(Stray(k)') + Count(Done(k))
                           <= posted[k] + Count(Stray(k)) + Count(Done(k)')
  PROVE  PostsAccounted'
<1>1. Spent("abandon")' = Spent("abandon") /\ Spent("race")' = Spent("race")
  BY BudgetKept
<1>2. Spent("abandon") \in Nat /\ Spent("race") \in Nat
  BY SpentIsNat
<1> SUFFICES ASSUME NEW k \in Keys
             PROVE  posted'[k] + Count(Stray(k)')
                      <= Spent("abandon")' + Spent("race")' + Count(Done(k)')
  BY DEF PostsAccounted, Count
<1> DEFINE a == Spent("abandon")
           r == Spent("race")
<1>3. posted[k] \in Nat /\ posted'[k] \in Nat
  BY DEF SystemTypes, NoticeTypes
<1>4. /\ Count(Stray(k)) \in Nat /\ Count(Stray(k)') \in Nat
      /\ Count(Done(k)) \in Nat /\ Count(Done(k)') \in Nat
  BY DEF Count
<1>5. posted[k] + Count(Stray(k)) <= a + r + Count(Done(k))
  BY DEF PostsAccounted
<1>6. a \in Nat /\ r \in Nat /\ Spent("abandon")' = a /\ Spent("race")' = r
  BY <1>1, <1>2
<1> HIDE DEF a, r
<1>7. posted'[k] + Count(Stray(k)') <= a + r + Count(Done(k)')
  BY <1>3, <1>4, <1>5, <1>6
<1>8. QED
  BY <1>6, <1>7

LEMMA QuietNotices ==
  ASSUME SystemTypes, NoticeInv, [Next]_vars, Quiet PROVE NoticeInv'
<1>1. UNCHANGED <<notice, worker, posted>> /\ Keeps("abandon") /\ Keeps("race")
  BY DEF Quiet
<1>2. /\ Spent("abandon")' = Spent("abandon") /\ Spent("race")' = Spent("race")
      /\ SpentInBudget'
  BY <1>1, BudgetKept DEF NoticeInv, SpentInBudget
<1>3. (Holds' <=> Holds) /\ (Busy' <=> Busy)
      /\ \A k \in Keys : (Stray(k)' <=> Stray(k)) /\ (Done(k)' <=> Done(k))
  BY <1>1 DEF Holds, Busy, Stray, Done
<1>4. NoticeNumbers'
  BY <1>1, <1>3 DEF NoticeInv, NoticeNumbers
<1>5. PostsAccounted'
  BY <1>1, <1>2, <1>3 DEF NoticeInv, PostsAccounted, Count
<1>6. RowsKept'
  BY <1>1, <1>2, <1>3 DEF NoticeInv, RowsKept
<1>7. QED
  BY <1>2, <1>4, <1>5, <1>6 DEF NoticeInv


(* The worker claims a row, or a row comes due again.                      *)
LEMMA ClaimNotices ==
  ASSUME SystemTypes, NoticeInv, [Next]_vars, NEW k \in Keys, Claim(k) \/ ComeDue(k),
         Keeps("abandon"), Keeps("race")
  PROVE  NoticeInv'
<1> USE DEF availVars, workerVars
<1>0. NoticeTypes /\ NoticeNumbers /\ SpentInBudget /\ PostsAccounted /\ RowsKept
  BY DEF SystemTypes, NoticeInv
<1>1. SpentInBudget' /\ Spent("race")' = Spent("race")
  BY <1>0, BudgetKept DEF SpentInBudget
<1>2. PICK st \in {"due", "waiting"} :
        /\ notice' = [notice EXCEPT ![k].st = st] /\ UNCHANGED posted
        /\ notice[k].st \in {"due", "waiting"}
        /\ \/ /\ st = "waiting" /\ ~Busy
              /\ worker' = [pc |-> "post", id |-> notice[k].id, key |-> k, sent |-> FALSE]
           \/ UNCHANGED worker /\ (~Busy \/ worker.key # k)
  BY DEF Claim, ClaimNotification, Claimable, ComeDue, Busy
<1>3. /\ notice'[k].st = st /\ notice'[k].id = notice[k].id
      /\ \A j \in Keys \ {k} : notice'[j] = notice[j]
  BY <1>0, <1>2, NoticeMoves DEF NoticeTypes
<1>4. /\ \A j \in Keys : notice'[j].id = notice[j].id
      /\ \A j \in Keys : notice'[j].st = "delivered" <=> notice[j].st = "delivered"
      /\ \A j \in Keys : notice'[j].st = "none" <=> notice[j].st = "none"
      /\ notice[k].id # 0 /\ notice[k].id \in Nat
  BY <1>0, <1>2, <1>3 DEF NoticeNumbers, NoticeTypes, NoticeRows
<1>5. CASE UNCHANGED worker /\ (~Busy \/ worker.key # k)
  <2>1. Busy => worker.key \in Keys /\ notice'[worker.key] = notice[worker.key]
    BY <1>0, <1>3, <1>5 DEF NoticeNumbers
  <2>2. (Busy' <=> Busy) /\ (Holds' <=> Holds)
    BY <1>5, <2>1 DEF Busy, Holds
  <2>3. NoticeNumbers'
    BY <1>0, <1>4, <1>5, <2>1, <2>2 DEF NoticeNumbers, Holds
  <2>4. \A j \in Keys : (Stray(j)' <=> Stray(j)) /\ (Done(j)' <=> Done(j))
    BY <1>4, <1>5, <2>2 DEF Stray, Done
  <2>5. RowsKept'
    BY <1>0, <1>1, <1>2, <1>4, <1>5, <2>1, <2>2 DEF RowsKept, Busy
  <2>6. PostsAccounted'
    <3>1. posted' \in [Keys -> Nat] /\ \A j \in Keys : posted'[j] = posted[j] /\ posted[j] \in Nat
      BY <1>0, <1>2 DEF NoticeTypes
    <3>2. \A j \in Keys : posted'[j] + Count(Stray(j)') + Count(Done(j))
                            <= posted[j] + Count(Stray(j)) + Count(Done(j)')
      BY <2>4, <3>1 DEF Count
    <3>3. QED
      BY <1>0, <3>1, <3>2, Accounted
  <2>7. QED
    BY <1>1, <2>3, <2>5, <2>6 DEF NoticeInv
<1>6. CASE /\ st = "waiting" /\ ~Busy
           /\ worker' = [pc |-> "post", id |-> notice[k].id, key |-> k, sent |-> FALSE]
  <2>1. Busy' /\ Holds' /\ worker'.key = k /\ worker'.pc = "post" /\ worker'.id = notice[k].id
    BY <1>3, <1>6 DEF Busy, Holds
  <2>2. NoticeNumbers'
    BY <1>0, <1>3, <1>4, <1>6, <2>1 DEF NoticeNumbers
  <2>3. \A j \in Keys : ~Stray(j) /\ ~Stray(j)' /\ (Done(j)' <=> Done(j))
    BY <1>4, <1>6, <2>1 DEF Stray, Done, Busy
  <2>4. RowsKept'
    BY <1>0, <1>1, <1>2, <1>3, <1>4, <1>6, <2>1 DEF RowsKept
  <2>5. PostsAccounted'
    <3>1. posted' \in [Keys -> Nat] /\ \A j \in Keys : posted'[j] = posted[j] /\ posted[j] \in Nat
      BY <1>0, <1>2 DEF NoticeTypes
    <3>2. \A j \in Keys : posted'[j] + Count(Stray(j)') + Count(Done(j))
                            <= posted[j] + Count(Stray(j)) + Count(Done(j)')
      BY <2>3, <3>1 DEF Count
    <3>3. QED
      BY <1>0, <3>1, <3>2, Accounted
  <2>6. QED
    BY <1>1, <2>2, <2>4, <2>5 DEF NoticeInv
<1>7. QED
  BY <1>2, <1>5, <1>6

LEMMA PostNotices ==
  ASSUME SystemTypes, NoticeInv, [Next]_vars, NEW accepted \in BOOLEAN, Post(accepted, TRUE),
         Keeps("abandon"), Keeps("race")
  PROVE  NoticeInv'
<1>0. NoticeTypes /\ NoticeNumbers /\ SpentInBudget /\ PostsAccounted /\ RowsKept
      /\ worker \in WorkerRows
  BY DEF SystemTypes, NoticeInv, NoticeTypes
<1>1. SpentInBudget' /\ Spent("race")' = Spent("race")
  BY <1>0, BudgetKept DEF SpentInBudget
<1>2. /\ worker.pc = "post" /\ UNCHANGED notice
      /\ worker' = [worker EXCEPT !.pc = "finish", !.sent = accepted]
      /\ posted' = IF accepted THEN [posted EXCEPT ![worker.key] = @ + 1] ELSE posted
  BY DEF Post, tables, syncVars
<1>3. /\ worker'.pc = "finish" /\ worker'.sent = accepted
      /\ worker'.key = worker.key /\ worker'.id = worker.id
  BY <1>0, <1>2 DEF WorkerRows
<1>4. Busy /\ Busy' /\ (Holds' <=> Holds) /\ worker.key \in Keys
  BY <1>0, <1>2, <1>3 DEF Busy, Holds, NoticeNumbers
<1>k. PICK k \in Keys : k = worker.key
  BY <1>4
<1>5. /\ posted' \in [Keys -> Nat] /\ \A j \in Keys : posted[j] \in Nat
      /\ \A j \in Keys \ {k} : posted'[j] = posted[j]
      /\ posted'[k] = IF accepted THEN posted[k] + 1 ELSE posted[k]
  BY <1>0, <1>2, <1>k DEF NoticeTypes
<1>6. NoticeNumbers'
  BY <1>0, <1>2, <1>3, <1>4 DEF NoticeNumbers
<1>7. /\ \A j \in Keys : ~Stray(j)'
      /\ \A j \in Keys \ {k} : ~Stray(j) /\ (Done(j)' <=> Done(j))
      /\ Stray(k) <=> ~Holds
      /\ Done(k) <=> notice[k].st = "delivered"
      /\ Done(k)' <=> notice[k].st = "delivered" \/ (accepted /\ Holds)
      /\ Holds => notice[k].st # "delivered"
  BY <1>0, <1>2, <1>3, <1>4, <1>k DEF Stray, Done, NoticeNumbers
<1>8. PostsAccounted'
  <2>1. ASSUME NEW j \in Keys
        PROVE  posted'[j] + Count(Stray(j)') + Count(Done(j))
                 <= posted[j] + Count(Stray(j)) + Count(Done(j)')
    <3>1. posted[j] \in Nat /\ Count(Stray(j)') = 0
      BY <1>5, <1>7 DEF Count
    <3>2. CASE j # k
      <4>1. Count(Stray(j)) = 0 /\ Count(Done(j)') = Count(Done(j)) /\ Count(Done(j)) \in Nat
        BY <1>7, <3>2 DEF Count
      <4>2. QED
        BY <1>5, <3>1, <3>2, <4>1
    <3>3. CASE j = k /\ Holds
      <4>1. Count(Stray(j)) = 0 /\ Count(Done(j)) = 0 /\ Count(Done(j)') = Count(accepted)
        BY <1>7, <3>3 DEF Count
      <4>2. QED
        BY <1>5, <3>1, <3>3, <4>1 DEF Count
    <3>4. CASE j = k /\ ~Holds
      <4>1. Count(Stray(j)) = 1 /\ Count(Done(j)') = Count(Done(j)) /\ Count(Done(j)) \in Nat
        BY <1>7, <3>4 DEF Count
      <4>2. QED
        BY <1>5, <3>1, <3>4, <4>1
    <3>5. QED
      BY <3>2, <3>3, <3>4
  <2>2. QED
    BY <1>0, <1>5, <2>1, Accounted
<1>9. RowsKept'
  <2>1. \A j \in Keys : posted[j] > 0 => posted'[j] > 0
    BY <1>5
  <2>2. accepted => posted'[k] > 0
    BY <1>5
  <2>3. QED
    BY <1>0, <1>1, <1>2, <1>3, <1>4, <1>k, <2>1, <2>2 DEF RowsKept
<1>10. QED
  BY <1>1, <1>6, <1>8, <1>9 DEF NoticeInv

LEMMA FinishNotices ==
  ASSUME SystemTypes, NoticeInv, [Next]_vars, Finish, Keeps("abandon"), Keeps("race")
  PROVE  NoticeInv'
<1>0. NoticeTypes /\ NoticeNumbers /\ SpentInBudget /\ PostsAccounted /\ RowsKept
      /\ worker.sent \in BOOLEAN
  BY DEF SystemTypes, NoticeInv, NoticeTypes, WorkerRows
<1>1. SpentInBudget' /\ Spent("race")' = Spent("race")
  BY <1>0, BudgetKept DEF SpentInBudget
<1> DEFINE id == worker.id
           failed == ~worker.sent
<1>2. /\ FinishNotification(id, failed) /\ worker' = Resting /\ UNCHANGED posted
      /\ worker.pc = "finish" /\ failed \in BOOLEAN
  BY DEF Finish
<1>3. Busy /\ ~Busy' /\ worker.key \in Keys /\ id > 0 /\ worker'.pc = "idle"
  BY <1>0, <1>2, RestIsTyped DEF Busy, NoticeNumbers
<1>a. id # 0
  BY <1>3
<1> HIDE DEF id, failed
<1>4. /\ \A k \in Keys : notice[k].id # id => notice'[k] = notice[k]
      /\ \A k \in Keys : notice[k].id = id =>
           /\ notice'[k].id = id
           /\ notice'[k].st = IF ~failed \/ notice[k].st = "delivered" THEN "delivered" ELSE "waiting"
  BY <1>0, <1>2, <1>a, NoticeFinishes DEF NoticeTypes
<1>5. \A k \in Keys : /\ notice'[k].id = notice[k].id
                      /\ notice'[k].st = "none" <=> notice[k].st = "none"
  BY <1>0, <1>4, <1>a DEF NoticeNumbers
<1>6. NoticeNumbers'
  BY <1>0, <1>3, <1>5 DEF NoticeNumbers, Holds
<1>7. \A k \in Keys : ~Stray(k)' /\ ~Stray(k) /\ (Done(k) => Done(k)')
  <2> SUFFICES ASSUME NEW k \in Keys PROVE ~Stray(k)' /\ ~Stray(k) /\ (Done(k) => Done(k)')
    OBVIOUS
  <2>1. ~Stray(k)' /\ ~Stray(k)
    BY <1>2, <1>3 DEF Stray
  <2>2. notice[k].st = "delivered" => notice'[k].st = "delivered"
    BY <1>4
  <2>3. worker.sent /\ worker.key = k /\ Holds => notice'[k].st = "delivered"
    BY <1>4 DEF Holds, id, failed
  <2>4. QED
    BY <2>1, <2>2, <2>3 DEF Done
<1>8. PostsAccounted'
  <2>1. posted' \in [Keys -> Nat] /\ \A j \in Keys : posted'[j] = posted[j] /\ posted[j] \in Nat
    BY <1>0, <1>2 DEF NoticeTypes
  <2>2. \A j \in Keys : posted'[j] + Count(Stray(j)') + Count(Done(j))
                          <= posted[j] + Count(Stray(j)) + Count(Done(j)')
    BY <1>7, <2>1 DEF Count
  <2>3. QED
    BY <1>0, <2>1, <2>2, Accounted
<1>9. RowsKept'
  <2> SUFFICES ASSUME Spent("race") = 0, NEW k \in Keys, notice'[k].st = "delivered"
               PROVE  posted[k] > 0
    BY <1>1, <1>2, <1>3 DEF RowsKept
  <2>1. CASE notice[k].st = "delivered"
    BY <1>0, <2>1 DEF RowsKept
  <2>2. CASE notice[k].st # "delivered"
    <3>1. notice[k].id = id /\ worker.sent
      BY <1>4, <2>2 DEF failed
    <3>2. Holds
      BY <1>0, <1>3 DEF RowsKept
    <3>3. k = worker.key
      BY <1>0, <1>3, <1>a, <3>1, <3>2 DEF NoticeNumbers, Holds, id
    <3>4. QED
      BY <1>0, <1>2, <3>1, <3>3 DEF RowsKept
  <2>3. QED
    BY <2>1, <2>2
<1>10. QED
  BY <1>1, <1>6, <1>8, <1>9 DEF NoticeInv


(* An attempt without a recorded outcome, or a withdrawal that came in     *)
(* between, pays for a post.                                               *)
LEMMA Paid ==
  ASSUME SystemTypes, SpentInBudget, PostsAccounted, posted' \in [Keys -> Nat],
         Spent("abandon")' + Spent("race")' = Spent("abandon") + Spent("race") + 1,
         \A k \in Keys : posted'[k] + Count(Stray(k)') + Count(Done(k))
                           <= posted[k] + Count(Stray(k)) + Count(Done(k)') + 1
  PROVE  PostsAccounted'
<1>1. Spent("abandon") \in Nat /\ Spent("race") \in Nat
  BY SpentIsNat
<1> DEFINE paid == Spent("abandon") + Spent("race")
<1>2. paid \in Nat /\ Spent("abandon")' + Spent("race")' = paid + 1
  BY <1>1
<1> SUFFICES ASSUME NEW k \in Keys
             PROVE  posted'[k] + Count(Stray(k)')
                      <= Spent("abandon")' + Spent("race")' + Count(Done(k)')
  BY DEF PostsAccounted, Count
<1>3. posted[k] \in Nat /\ posted'[k] \in Nat
  BY DEF SystemTypes, NoticeTypes
<1>4. /\ Count(Stray(k)) \in Nat /\ Count(Stray(k)') \in Nat
      /\ Count(Done(k)) \in Nat /\ Count(Done(k)') \in Nat
  BY DEF Count
<1>5. posted[k] + Count(Stray(k)) <= paid + Count(Done(k))
  BY DEF PostsAccounted
<1>6. PICK now \in Nat : now = paid + 1
  BY <1>2
<1> HIDE DEF paid
<1>7. posted'[k] + Count(Stray(k)') <= now + Count(Done(k)')
  BY <1>2, <1>3, <1>4, <1>5, <1>6
<1>8. QED
  BY <1>2, <1>6, <1>7

LEMMA AbandonNotices ==
  ASSUME SystemTypes, NoticeInv, [Next]_vars, Abandons PROVE NoticeInv'
<1>0. NoticeTypes /\ NoticeNumbers /\ SpentInBudget /\ PostsAccounted /\ RowsKept
      /\ worker \in WorkerRows
  BY DEF SystemTypes, NoticeInv, NoticeTypes
<1>1. UNCHANGED notice /\ Spend("abandon")
  BY DEF Abandons, Abandon, Post, tables, syncVars
<1>2. Keeps("race")
  BY <1>1, Spending DEF SystemTypes, Kinds, Keeps
<1>3. /\ Spent("abandon")' = Spent("abandon") + 1 /\ Spent("race")' = Spent("race")
      /\ SpentInBudget'
  BY <1>0, <1>1, <1>2, BudgetSpent, BudgetKept DEF SpentInBudget
<1>4. Spent("abandon")' + Spent("race")' = Spent("abandon") + Spent("race") + 1
  BY <1>0, <1>3, SpentIsNat
<1>5. CASE Abandon
  <2>1. UNCHANGED posted /\ worker' = Resting
    BY <1>5 DEF Abandon
  <2>2. ~Busy' /\ ~Holds' /\ (\A k \in Keys : ~Stray(k)') /\ worker'.pc # "finish"
    BY <2>1, RestIsTyped DEF Busy, Holds, Stray
  <2>3. NoticeNumbers'
    BY <1>0, <1>1, <2>2 DEF NoticeNumbers
  <2>4. RowsKept'
    BY <1>0, <1>1, <1>3, <2>1, <2>2 DEF RowsKept
  <2>5. PostsAccounted'
    <3>1. posted' \in [Keys -> Nat] /\ \A k \in Keys : posted'[k] = posted[k] /\ posted[k] \in Nat
      BY <1>0, <2>1 DEF NoticeTypes
    <3>2. \A k \in Keys : posted'[k] + Count(Stray(k)') + Count(Done(k))
                             <= posted[k] + Count(Stray(k)) + Count(Done(k)') + 1
      BY <2>2, <3>1 DEF Count
    <3>3. QED
      BY <1>0, <1>4, <3>1, <3>2, Paid
  <2>6. QED
    BY <1>3, <2>3, <2>4, <2>5 DEF NoticeInv
<1>6. CASE Post(TRUE, FALSE)
  <2>1. /\ worker.pc = "post" /\ worker' = [worker EXCEPT !.pc = "finish", !.sent = FALSE]
        /\ posted' = [posted EXCEPT ![worker.key] = @ + 1]
    BY <1>6 DEF Post
  <2>2. /\ worker'.pc = "finish" /\ ~worker'.sent
        /\ worker'.key = worker.key /\ worker'.id = worker.id
    BY <1>0, <2>1 DEF WorkerRows
  <2>3. Busy /\ Busy' /\ (Holds' <=> Holds) /\ worker.key \in Keys
    BY <1>0, <1>1, <2>1, <2>2 DEF Busy, Holds, NoticeNumbers
  <2>4. posted' \in [Keys -> Nat] /\ \A k \in Keys : posted[k] \in Nat /\ posted'[k] <= posted[k] + 1
    BY <1>0, <2>1, <2>3 DEF NoticeTypes
  <2>5. NoticeNumbers'
    BY <1>0, <1>1, <2>2, <2>3 DEF NoticeNumbers
  <2>6. RowsKept'
    <3>1. \A k \in Keys : posted[k] > 0 => posted'[k] > 0
      BY <1>0, <2>1, <2>3 DEF NoticeTypes
    <3>2. QED
      BY <1>0, <1>1, <1>3, <2>2, <2>3, <3>1 DEF RowsKept
  <2>7. PostsAccounted'
    <3>1. \A k \in Keys : ~Stray(k)' /\ (Done(k) => Done(k)')
      BY <1>1, <2>1, <2>2 DEF Stray, Done
    <3>2. \A k \in Keys : posted'[k] + Count(Stray(k)') + Count(Done(k))
                             <= posted[k] + Count(Stray(k)) + Count(Done(k)') + 1
      BY <2>4, <3>1 DEF Count
    <3>3. QED
      BY <1>0, <1>4, <2>4, <3>2, Paid
  <2>8. QED
    BY <1>3, <2>5, <2>6, <2>7 DEF NoticeInv
<1>7. QED
  BY <1>5, <1>6 DEF Abandons

(* A withdrawal drops the row of a request, unless it was delivered.       *)
LEMMA WithdrawNotices ==
  ASSUME SystemTypes, NoticeInv, [Next]_vars, NEW k \in Keys, Withdraws(k) PROVE NoticeInv'
<1>0. NoticeTypes /\ NoticeNumbers /\ SpentInBudget /\ PostsAccounted /\ RowsKept
  BY DEF SystemTypes, NoticeInv
<1>1. DropNotice(k) /\ UNCHANGED <<worker, posted>>
  BY DEF Withdraws
<1>2. /\ notice'[k] = IF notice[k].st = "delivered" THEN notice[k] ELSE NoNotice
      /\ \A j \in Keys \ {k} : notice'[j] = notice[j]
  BY <1>0, <1>1, NoticeDrops DEF NoticeTypes
<1>3. NoNotice.id = 0 /\ NoNotice.st = "none"
  BY DEF NoNotice
<1> HIDE DEF NoNotice
<1>4. \A j \in Keys :
        /\ notice'[j] = notice[j] \/ (notice'[j].id = 0 /\ notice'[j].st = "none")
        /\ notice'[j].st = "delivered" <=> notice[j].st = "delivered"
  <2> TAKE j \in Keys
  <2>1. CASE j = k
    BY <1>2, <1>3, <2>1
  <2>2. CASE j # k
    BY <1>2, <2>2
  <2>3. QED
    BY <2>1, <2>2
<1>5. (Busy' <=> Busy) /\ (Holds' => Holds /\ notice'[worker.key] = notice[worker.key])
  BY <1>0, <1>1, <1>4 DEF Busy, Holds, NoticeNumbers
<1>6. NoticeNumbers'
  BY <1>0, <1>1, <1>4, <1>5 DEF NoticeNumbers
<1>7. CASE worker.pc # "idle" /\ worker.key = k
  <2>1. Spend("race")
    BY <1>7 DEF Withdraws
  <2>2. Keeps("abandon")
    BY <2>1, Spending DEF SystemTypes, Kinds, Keeps
  <2>3. /\ Spent("race")' = Spent("race") + 1 /\ Spent("abandon")' = Spent("abandon")
        /\ SpentInBudget'
    BY <1>0, <2>1, <2>2, BudgetSpent, BudgetKept DEF SpentInBudget
  <2>4. Spent("abandon") \in Nat /\ Spent("race") \in Nat
    BY <1>0, SpentIsNat
  <2>5. RowsKept'
    BY <2>3, <2>4 DEF RowsKept
  <2>6. ASSUME NEW j \in Keys
        PROVE  Count(Stray(j)') + Count(Done(j)) <= Count(Stray(j)) + Count(Done(j)') + 1
    <3>1. Stray(j)' /\ Done(j) => Done(j)'
      BY <1>1, <1>4 DEF Stray, Done
    <3>2. QED
      BY <3>1 DEF Count
  <2>7. Spent("abandon")' + Spent("race")' = Spent("abandon") + Spent("race") + 1
    BY <2>3, <2>4
  <2>8. PostsAccounted'
    <3>1. posted' \in [Keys -> Nat] /\ \A j \in Keys : posted'[j] = posted[j] /\ posted[j] \in Nat
      BY <1>0, <1>1 DEF NoticeTypes
    <3>2. \A j \in Keys : posted'[j] + Count(Stray(j)') + Count(Done(j))
                             <= posted[j] + Count(Stray(j)) + Count(Done(j)') + 1
      BY <2>6, <3>1 DEF Count
    <3>3. QED
      BY <1>0, <2>7, <3>1, <3>2, Paid
  <2>9. QED
    BY <1>6, <2>3, <2>5, <2>8 DEF NoticeInv
<1>8. CASE ~Busy \/ worker.key # k
  <2>1. PICK kind \in {"cancel", "vote"} : Spend(kind)
    BY <1>8 DEF Withdraws, Busy
  <2>2. Keeps("race") /\ Keeps("abandon")
    BY <2>1, Spending DEF SystemTypes, Kinds, Keeps
  <2>3. SpentInBudget' /\ Spent("race")' = Spent("race")
    BY <1>0, <2>2, BudgetKept DEF SpentInBudget
  <2>4. Busy => notice'[worker.key] = notice[worker.key]
    BY <1>0, <1>2, <1>8 DEF NoticeNumbers
  <2>5. Holds' <=> Holds
    BY <1>1, <1>5, <2>4 DEF Holds
  <2>6. \A j \in Keys : (Stray(j)' <=> Stray(j)) /\ (Done(j)' <=> Done(j))
    BY <1>1, <1>4, <2>5 DEF Stray, Done
  <2>7. PostsAccounted'
    <3>1. posted' \in [Keys -> Nat] /\ \A j \in Keys : posted'[j] = posted[j] /\ posted[j] \in Nat
      BY <1>0, <1>1 DEF NoticeTypes
    <3>2. \A j \in Keys : posted'[j] + Count(Stray(j)') + Count(Done(j))
                            <= posted[j] + Count(Stray(j)) + Count(Done(j)')
      BY <2>6, <3>1 DEF Count
    <3>3. QED
      BY <1>0, <2>2, <3>1, <3>2, Accounted
  <2>8. RowsKept'
    BY <1>0, <1>1, <1>4, <1>5, <2>3, <2>4, <2>5 DEF RowsKept
  <2>9. QED
    BY <1>6, <2>3, <2>7, <2>8 DEF NoticeInv
<1>9. QED
  BY <1>7, <1>8 DEF Busy

(* A completed synchronisation opens rows; the number of a row that is     *)
(* gone may come back with one of them.                                    *)
LEMMA CompleteNotices ==
  ASSUME SystemTypes, NoticeInv, [Next]_vars, NEW token, Completes(token) PROVE NoticeInv'
<1>0. NoticeTypes /\ NoticeNumbers /\ SpentInBudget /\ PostsAccounted /\ RowsKept
  BY DEF SystemTypes, NoticeInv
<1>1. CompleteSync(token) /\ UNCHANGED <<worker, posted, budget>> /\ Keeps("race") /\ Keeps("abandon")
  BY DEF Completes, Keeps
<1>2. SpentInBudget' /\ Spent("race")' = Spent("race")
  BY <1>0, <1>1, BudgetKept DEF SpentInBudget
<1>3. \A k \in Keys : \/ notice'[k] = notice[k]
                      \/ /\ notice[k].id = 0 /\ notice'[k].st = "due" /\ notice'[k].id > 0
                         /\ \A j \in Keys : notice[j].id < notice'[k].id
                         /\ \A j \in Keys \ {k} : notice'[j].id # notice'[k].id
  BY <1>0, <1>1, NoticesComeUp DEF NoticeTypes
<1>4. \A j, k \in Keys : notice'[j].id = notice'[k].id /\ notice'[j].id # 0 => j = k
  <2> SUFFICES ASSUME NEW j \in Keys, NEW k \in Keys, notice'[j].id = notice'[k].id,
                      notice'[j].id # 0, j # k
               PROVE  FALSE
    OBVIOUS
  <2>1. notice'[j] = notice[j] /\ notice'[k] = notice[k]
    BY <1>3
  <2>2. QED
    BY <1>0, <2>1 DEF NoticeNumbers
<1>5. \A k \in Keys : /\ notice'[k].id = 0 <=> notice'[k].st = "none"
                      /\ notice'[k] = notice[k] \/ (notice[k].id = 0 /\ notice'[k].st = "due")
  <2> TAKE k \in Keys
  <2>1. CASE notice'[k] = notice[k]
    BY <1>0, <2>1 DEF NoticeNumbers
  <2>2. CASE notice'[k] # notice[k]
    <3>1. notice[k].id = 0 /\ notice'[k].st = "due" /\ notice'[k].id > 0
      BY <1>3, <2>2
    <3>2. notice'[k].id # 0
      BY <3>1
    <3>3. QED
      BY <3>1, <3>2
  <2>3. QED
    BY <2>1, <2>2
<1>6. (Busy' <=> Busy) /\ (Holds => Holds' /\ notice'[worker.key] = notice[worker.key])
  BY <1>0, <1>1, <1>5 DEF Busy, Holds, NoticeNumbers
<1>7. NoticeNumbers'
  BY <1>0, <1>1, <1>4, <1>5, <1>6 DEF NoticeNumbers, Holds
<1>8. \A k \in Keys : /\ notice[k].st = "delivered" <=> notice'[k].st = "delivered"
                      /\ Stray(k)' => Stray(k)
                      /\ Done(k) => Done(k)'
  BY <1>0, <1>1, <1>5, <1>6 DEF Stray, Done, NoticeNumbers
<1>9. PostsAccounted'
  <2>1. posted' \in [Keys -> Nat] /\ \A k \in Keys : posted'[k] = posted[k] /\ posted[k] \in Nat
    BY <1>0, <1>1 DEF NoticeTypes
  <2>2. \A k \in Keys : posted'[k] + Count(Stray(k)') + Count(Done(k))
                          <= posted[k] + Count(Stray(k)) + Count(Done(k)')
    BY <1>8, <2>1 DEF Count
  <2>3. QED
    BY <1>0, <1>1, <2>1, <2>2, Accounted
<1>10. RowsKept'
  BY <1>0, <1>1, <1>2, <1>6, <1>8 DEF RowsKept
<1>11. QED
  BY <1>2, <1>7, <1>9, <1>10 DEF NoticeInv

LEMMA NoticeStep == SystemTypes /\ NoticeInv /\ [Next]_vars => NoticeInv'
  BY NoticeSteps, QuietNotices, ClaimNotices, PostNotices, FinishNotices, AbandonNotices,
     WithdrawNotices, CompleteNotices DEF Works

LEMMA NoticesAccounted == Spec => [](SystemTypes /\ NoticeInv)
<1>1. Init => NoticeInv
  BY NoticeStart
<1>2. QED
  BY <1>1, NoticeStep, TypesInvariant, PTL DEF Spec

(* Unless a withdrawal came in between, a notice recorded as delivered was *)
(* accepted by the endpoint (engine/notifications.go).                     *)
THEOREM DeliveredNoticesWereSent == Spec => []DeliveredWasSent
<1>1. SystemTypes /\ NoticeInv => DeliveredWasSent
  BY DEF NoticeInv, RowsKept, DeliveredWasSent
<1>2. QED
  BY <1>1, NoticesAccounted, PTL

(* A request's owner is told once, or once more for every attempt whose    *)
(* outcome was not recorded and every withdrawal that came in between.     *)
THEOREM OwnersToldOnce == Spec => []OneNoticeEach
<1>1. ASSUME SystemTypes, NoticeInv PROVE OneNoticeEach
  <2>1. Spent("abandon") \in Nat /\ Spent("race") \in Nat
    BY <1>1, SpentIsNat DEF NoticeInv
  <2>2. ASSUME NEW k \in Keys
        PROVE  posted[k] <= Spent("abandon") + Spent("race") + 1
    <3>1. /\ posted[k] \in Nat /\ Count(Stray(k)) \in Nat /\ Count(Done(k)) \in 0 .. 1
      BY <1>1 DEF SystemTypes, NoticeTypes, Count
    <3>2. posted[k] + Count(Stray(k)) <= Spent("abandon") + Spent("race") + Count(Done(k))
      BY <1>1 DEF NoticeInv, PostsAccounted
    <3>3. QED
      BY <2>1, <3>1, <3>2
  <2>3. QED
    BY <2>1, <2>2 DEF OneNoticeEach
<1>2. QED
  BY <1>1, NoticesAccounted, PTL


-------------------------------------------------------------------------------
(* What was asked for.  A handler on its way carries an ask that was heard; *)
(* whatever it, a vote or an operator leaves in the series' row, among the *)
(* seasons or among the trials goes back to one; and so does the copy that *)
(* a pass or a handler works on.                                           *)

(* Every number of a recommendation is that of one title.                  *)
RecNumbers == \A j, k \in Keys : recs[j].id = recs[k].id /\ recs[j].id # 0 => j = k

ModeAsked(mode) == mode = "none" \/ \E a \in asked : a.mode = mode
SeasonAsked(n) == \E a \in asked : n \in a.seasons
TrialAsked(u) == \E a \in asked : a.user = u /\ a.trial # ""
(* What an ask wants of an episode.                                        *)
AskedFor(e) ==
  \E a \in asked :
    \/ a.mode \in {"all", "latest_season"}
    \/ a.mode = "future_only" /\ e \notin Old
    \/ Season[e] \in a.seasons
    \/ a.trial # "" /\ e \in picked[a.user]

(* A handler between its request and the end of what it does for it.       *)
OnItsWay(h) ==
  /\ call[h].pc \in {"told", "rules", "subject", "update", "track", "scope"}
  /\ call[h].act # "patch"
HeardOf(h) ==
  OnItsWay(h) =>
    /\ call[h].k \in Keys /\ (call[h].ask # NoScope => call[h].k[2] = Show)
    /\ call[h].k[2] = Show => Heard(call[h]) \in asked
UpdateAsked(h) == call[h].pc = "update" => ModeAsked(call[h].row.mode)
HandlersAsked == \A h \in Handlers : HeardOf(h) /\ UpdateAsked(h)

PassAsked(p) ==
  /\ ModeAsked(pass[p].row.mode) /\ \A n \in pass[p].sel : SeasonAsked(n)
  /\ \A e \in pass[p].ids : \E u \in Users : e \in picked[u] /\ TrialAsked(u)
PassesAsked == \A p \in Passes : PassAsked(p)

SeriesAsked == ModeAsked(series.mode) /\ \A n \in selected : SeasonAsked(n)
TrialsAsked == \A u \in Users : trial[u].scope # "none" => TrialAsked(u)
EpisodesAsked == \A e \in Episodes : episode[e] \in {"missing", "unmonitored"} \/ AskedFor(e)
TablesAsked == SeriesAsked /\ TrialsAsked /\ EpisodesAsked
AskersKnown == \A a \in asked : a.trial # "" => a.user \in Users
AskInv ==
  RecNumbers /\ AskersKnown /\ HandlersAsked /\ PassesAsked /\ TablesAsked

LEMMA AskStart == Init => AskInv
<1> SUFFICES ASSUME Init PROVE AskInv
  OBVIOUS
<1>1. PICK s \in Scenarios : Init!(s)
  BY DEF Init
<1>2. RecNumbers
  <2> SUFFICES ASSUME NEW j \in Keys, NEW k \in Keys, recs[j].id = recs[k].id, recs[j].id # 0
               PROVE  j = k
    BY DEF RecNumbers
  <2>1. recs[j].id > 0 /\ recs[k].id > 0
    BY TypesStart DEF SystemTypes, TableTypes, RecTypes, RecRows
  <2>2. j \in s.offered /\ k \in s.offered
    BY <1>1, <2>1
  <2>3. QED
    BY <1>1, <2>2
<1> DEFINE shows == {k \in s.open : k[2] = Show}
           ask(k) == [user |-> k[1], mode |-> "future_only", seasons |-> {}, trial |-> ""]
<1>a. asked = {ask(k) : k \in shows}
  BY <1>1
<1>b. \A k : ask(k).mode = "future_only" /\ ask(k).trial = ""
  OBVIOUS
<1> HIDE DEF ask
<1>3. \A a \in asked : a.trial = ""
  BY <1>a, <1>b
<1>4. ModeAsked(series.mode)
  <2>1. CASE \E k \in s.open : k[2] = Show
    <3>1. PICK k \in s.open : k[2] = Show
      BY <2>1
    <3>2. ask(k) \in asked /\ series.mode = "future_only"
      BY <1>1, <1>a, <3>1
    <3>3. QED
      BY <1>b, <3>2 DEF ModeAsked
  <2>2. CASE ~\E k \in s.open : k[2] = Show
    BY <1>1, <2>2, IdleIsTyped DEF ModeAsked
  <2>3. QED
    BY <2>1, <2>2
<1>5. HandlersAsked
  <2>1. \A h \in Handlers : call[h].pc = "idle"
    BY <1>1, IdleIsTyped
  <2>2. QED
    BY <2>1 DEF HandlersAsked, HeardOf, OnItsWay, UpdateAsked
<1>6. PassesAsked
  <2>1. \A p \in Passes : pass[p] = NoPass
    BY <1>1
  <2>2. NoPass.row = NoRow /\ NoPass.sel = {} /\ NoPass.ids = {}
    BY DEF NoPass
  <2>3. QED
    BY <2>1, <2>2, IdleIsTyped DEF PassesAsked, PassAsked, ModeAsked
<1>7. TablesAsked
  <2>1. selected = {} /\ episode = [e \in Episodes |-> "missing"] /\ trial = [u \in Users |-> NoTrial]
    BY <1>1
  <2>2. \A u \in Users : trial[u].scope = "none"
    BY <2>1 DEF NoTrial
  <2>3. QED
    BY <1>4, <2>1, <2>2 DEF TablesAsked, SeriesAsked, TrialsAsked, EpisodesAsked
<1>8. QED
  BY <1>2, <1>3, <1>5, <1>6, <1>7 DEF AskInv, AskersKnown

(* What was asked stays asked, and choices for trials stay.                *)
LEMMA AsksStay ==
  ASSUME [Next]_vars PROVE asked \subseteq asked'
<1> USE DEF systemVars
<1>1. CASE \E h \in Handlers : \/ Handle(h) \/ HandlerFails(h) \/ ForgetCall(h)
                               \/ \E k \in Keys : UserRetries(h, k)
                               \/ \E k \in Keys, act \in scenario.acts, ask \in scenario.asks :
                                    UserActs(h, k, act, ask)
                               \/ \E patch \in Patches : OperatorPatches(h, patch)
  BY <1>1 DEF Handle, HandlerFails, ForgetCall, UserRetries, UserActs, OperatorPatches, Hear
<1>2. CASE \/ \E k \in Keys : UserCancels(k)
           \/ \E u \in Users, decision \in {"continue", "stop"} : UserVotes(u, decision)
           \/ \E u \in Users, e \in Episodes : UserWatches(u, e)
           \/ \E s \in Movies \cup Episodes : Acquire(s)
           \/ \E e \in Episodes : ProviderAnnounces(e) \/ EpisodeAirs(e)
           \/ \E p \in Passes : RunPass(p) \/ PassAborts(p) \/ \E e \in Episodes : PassSkips(p, e)
  BY <1>2 DEF UserCancels, UserVotes, UserWatches, Acquire, ProviderAnnounces, EpisodeAirs,
              RunPass, PassAborts, PassSkips
<1>3. CASE SyncStep \/ SyncFault \/ Notify \/ NotifyFault \/ Generate \/ Monitor \/ PluginFault
  BY <1>3 DEF SyncStep, SyncFault, Notify, NotifyFault, Generate, Monitor, PluginFault, Hear
<1>4. CASE UNCHANGED vars
  BY <1>4 DEF vars
<1>5. QED
  BY <1>1, <1>2, <1>3, <1>4 DEF Next

LEMMA PicksStay ==
  ASSUME TrialInv, [Next]_vars, NEW u \in Users PROVE picked[u] \subseteq picked'[u]
<1>1. CASE Elsewhere \/ Starts \/ Decides \/ Sees
  BY <1>1 DEF Elsewhere, Starts, Decides, Sees
<1>2. CASE Prepares
  BY <1>2, PreparedTrials DEF Prepares
<1>3. QED
  BY <1>1, <1>2, SystemSteps

LEMMA StillAsked ==
  ASSUME TrialInv, AskersKnown, [Next]_vars
  PROVE  /\ \A mode : ModeAsked(mode) => ModeAsked(mode)'
         /\ \A n : SeasonAsked(n) => SeasonAsked(n)'
         /\ \A u : TrialAsked(u) => TrialAsked(u)'
         /\ \A e : AskedFor(e) => AskedFor(e)'
<1>1. asked \subseteq asked'
  BY AsksStay
<1>2. \A e : AskedFor(e) => AskedFor(e)'
  <2> SUFFICES ASSUME NEW e, AskedFor(e) PROVE AskedFor(e)'
    OBVIOUS
  <2>1. PICK a \in asked : \/ a.mode \in {"all", "latest_season"}
                           \/ a.mode = "future_only" /\ e \notin Old
                           \/ Season[e] \in a.seasons
                           \/ a.trial # "" /\ e \in picked[a.user]
    BY DEF AskedFor
  <2>2. a.trial # "" /\ e \in picked[a.user] => e \in picked'[a.user]
    BY PicksStay DEF AskersKnown
  <2>3. QED
    BY <1>1, <2>1, <2>2 DEF AskedFor
<1>3. QED
  BY <1>1, <1>2 DEF ModeAsked, SeasonAsked, TrialAsked


(* A new row takes a number above all others, so no two have the same.     *)
LEMMA NumbersStep ==
  ASSUME SystemTypes, RecNumbers, [Next]_vars PROVE RecNumbers'
<1>0. RecTypes /\ GenerationTypes
  BY DEF SystemTypes, TableTypes
<1>a. ASSUME \A k \in Keys : recs'[k].id = recs[k].id \/ recs'[k].id = 0 PROVE RecNumbers'
  BY <1>a DEF RecNumbers
<1>b. ASSUME NEW k \in Keys, NEW st \in RecStatus, st = "active" => recs[k].id > 0,
             recs' = [recs EXCEPT ![k].st = st]
      PROVE  RecNumbers'
  BY <1>0, <1>a, <1>b, StatusMoves
<1>c. ASSUME NEW k \in Keys, NEW st \in {"requested", "dismissed"},
             recs' = IF recs[k].id = 0 THEN recs ELSE [recs EXCEPT ![k].st = st]
      PROVE  RecNumbers'
  BY <1>0, <1>a, <1>c, TakenOff
<1>1. CASE UNCHANGED recs
  BY <1>1 DEF RecNumbers
<1>2. ASSUME NEW h \in Handlers, Recorded(h) PROVE RecNumbers'
  <2>1. PICK k \in Keys :
          /\ recs[k].id > 0
          /\ \/ CanUndo(k) /\ UndoDismissal(k) /\ UNCHANGED rated
             \/ RecordRating(k) /\ UNCHANGED feedback
             \/ RecordAction(k, call[h].aid, call[h].act) /\ UNCHANGED rated
    BY <1>2 DEF Recorded
  <2>2. CASE UndoDismissal(k)
    BY <1>b, <2>1, <2>2 DEF UndoDismissal, RecStatus
  <2>3. CASE RecordRating(k)
    BY <1>c, <2>3 DEF RecordRating
  <2>4. CASE RecordAction(k, call[h].aid, call[h].act)
    <3> DEFINE st == IF call[h].act = "request" THEN "requested" ELSE "dismissed"
    <3>1. \/ UNCHANGED recs
          \/ recs' = IF recs[k].id = 0 THEN recs ELSE [recs EXCEPT ![k].st = st]
      BY <2>4 DEF RecordAction
    <3>2. st \in {"requested", "dismissed"}
      OBVIOUS
    <3> HIDE DEF st
    <3>3. QED
      BY <1>1, <1>c, <3>1, <3>2
  <2>5. QED
    BY <2>1, <2>2, <2>3, <2>4
<1>3. ASSUME NEW u \in Users, NEW decision \in {"continue", "stop"}, Vote(u, decision)
      PROVE  RecNumbers'
  <2> DEFINE k == <<u, Show>>
             st == IF decision = "continue" THEN "requested" ELSE "dismissed"
  <2>1. k \in Keys /\ st \in {"requested", "dismissed"}
    BY DEF Keys, Titles
  <2>2. recs' = IF recs[k].id = 0 THEN recs ELSE [recs EXCEPT ![k].st = st]
    BY <1>3 DEF Vote, VoteTrial
  <2> HIDE DEF k, st
  <2>3. QED
    BY <1>c, <2>1, <2>2
<1>4. ASSUME NEW u \in Users, GenerateRead(u) PROVE RecNumbers'
  BY <1>1, <1>4 DEF GenerateRead, tables, recVars
<1>5. CASE GenerateFail
  BY <1>1, <1>5 DEF GenerateFail, tables, recVars
<1>6. ASSUME NEW k \in Keys, Prune(k) PROVE RecNumbers'
  <2>1. recs' = [recs EXCEPT ![k] = NoRec]
    BY <1>6 DEF Prune
  <2>2. NoRec.id = 0
    BY DEF NoRec
  <2> HIDE DEF NoRec
  <2>3. \A j \in Keys : recs'[j] = recs[j] \/ recs'[j] = NoRec
    BY <1>0, <2>1 DEF RecTypes
  <2>4. QED
    BY <1>a, <2>2, <2>3
<1>7. ASSUME NEW offered \in SUBSET Titles, GenerateReplace(offered) PROVE RecNumbers'
  <2> DEFINE u == generation.user
  <2>1. Replace(u, Titles, offered) /\ u \in Users
    BY <1>0, <1>7 DEF GenerateReplace, GenerationTypes
  <2> HIDE DEF u
  <2>2. NoRec.id = 0
    BY DEF NoRec
  <2>3. \A k \in Keys : \/ recs'[k] = recs[k] \/ recs'[k] = NoRec
                        \/ \A j \in Keys \ {k} : recs'[j].id # recs'[k].id
    BY <1>0, <2>1, ReplacedRows
  <2> HIDE DEF NoRec
  <2>4. QED
    BY <2>2, <2>3 DEF RecNumbers
<1>8. QED
  BY <1>1, <1>2, <1>3, <1>4, <1>5, <1>6, <1>7, ListSteps DEF OfferSteps, recVars

(* A pass works on what was asked for when it read it.                     *)
LEMMA PassesStep ==
  ASSUME SystemTypes, TrialInv, AskInv, [Next]_vars PROVE PassesAsked'
<1>0. /\ \A mode : ModeAsked(mode) => ModeAsked(mode)'
      /\ \A n : SeasonAsked(n) => SeasonAsked(n)'
      /\ \A u : TrialAsked(u) => TrialAsked(u)'
      /\ \A u \in Users : picked[u] \subseteq picked'[u]
  BY StillAsked, PicksStay DEF AskInv
<1>a. /\ \A p \in Passes : PassAsked(p)
      /\ SeriesAsked /\ TrialsAsked
  BY DEF AskInv, PassesAsked, TablesAsked
<1>b. ASSUME NEW p \in Passes, pass'[p].row = pass[p].row, pass'[p].sel = pass[p].sel,
             pass'[p].ids = pass[p].ids
      PROVE  PassAsked(p)'
  BY <1>0, <1>a, <1>b DEF PassAsked
<1>1. CASE UNCHANGED pass
  BY <1>1, <1>b DEF PassesAsked
<1>2. ASSUME NEW p \in Passes, PassLists(p) PROVE PassesAsked'
  <2>1. /\ \A q \in Passes \ {p} : pass'[q] = pass[q]
        /\ pass'[p].row = series /\ pass'[p].sel = {} /\ pass'[p].ids = {}
    BY <1>2, ListedPass DEF PassLists
  <2>2. PassAsked(p)'
    BY <1>0, <1>a, <2>1 DEF PassAsked, SeriesAsked
  <2>3. QED
    BY <1>b, <2>1, <2>2 DEF PassesAsked
<1>3. ASSUME NEW p \in Passes, PassCarries(p) PROVE PassesAsked'
  BY <1>3, <1>b DEF PassCarries, Carries, PassesAsked
<1>4. ASSUME NEW p \in Passes, PassSelects(p) PROVE PassesAsked'
  <2>1. /\ \A q \in Passes \ {p} : pass'[q] = pass[q]
        /\ pass'[p].row = pass[p].row /\ pass'[p].sel = pass[p].sel
        /\ pass'[p].ids = TrialEpisodeIDs
    BY <1>4 DEF PassSelects, Carries
  <2>2. ASSUME NEW e \in TrialEpisodeIDs PROVE \E u \in Users : e \in picked'[u] /\ TrialAsked(u)'
    <3>1. PICK u \in Users : Undecided(u) /\ e \in picked[u]
      BY DEF TrialEpisodeIDs
    <3>2. TrialAsked(u)
      BY <1>a, <3>1 DEF TrialsAsked, Undecided
    <3>3. QED
      BY <1>0, <3>1, <3>2
  <2>3. PassAsked(p)'
    BY <1>0, <1>a, <2>1, <2>2 DEF PassAsked
  <2>4. QED
    BY <1>b, <2>1, <2>3 DEF PassesAsked
<1>5. ASSUME NEW p \in Passes, PassEnds(p) PROVE PassesAsked'
  <2>1. pass'[p] = NoPass /\ \A q \in Passes \ {p} : pass'[q] = pass[q]
    BY <1>5 DEF PassEnds
  <2>2. NoPass.row = NoRow /\ NoPass.sel = {} /\ NoPass.ids = {}
    BY DEF NoPass
  <2>3. PassAsked(p)'
    BY <2>1, <2>2, IdleIsTyped DEF PassAsked, ModeAsked
  <2>4. QED
    BY <1>b, <2>1, <2>3 DEF PassesAsked
<1>6. ASSUME NEW p \in Passes, PassReads(p) PROVE PassesAsked'
  <2>1. /\ \A q \in Passes \ {p} : pass'[q] = pass[q]
        /\ pass'[p].row = pass[p].row /\ pass'[p].sel = selected /\ pass'[p].ids = pass[p].ids
    BY <1>6, SeasonsPass DEF PassReads
  <2>2. PassAsked(p)'
    BY <1>0, <1>a, <2>1 DEF PassAsked, SeriesAsked
  <2>3. QED
    BY <1>b, <2>1, <2>2 DEF PassesAsked
<1>7. QED
  BY <1>1, <1>2, <1>3, <1>4, <1>5, <1>6, PassesBySteps


(* A handler that takes a request makes it heard.                          *)
LEMMA Hearing ==
  ASSUME AskersKnown, NEW h \in Handlers, call[h].pc = "idle", OthersRest(h), Hear,
         call'[h].pc = "told" => call'[h].k \in Keys
  PROVE  /\ AskersKnown'
         /\ call'[h].pc = "told" /\ call'[h].k[2] = Show => Heard(call'[h]) \in asked'
<1> DEFINE new == {g \in Handlers : /\ call[g].pc = "idle" /\ call'[g].pc = "told"
                                    /\ call'[g].k[2] = Show}
<1>1. asked' = asked \cup {Heard(call'[g]) : g \in new}
  BY DEF Hear
<1>2. new \subseteq {h}
  BY DEF OthersRest
<1>3. h \in new => Heard(call'[h]).user \in Users
  BY DEF Heard, Keys
<1>4. call'[h].pc = "told" /\ call'[h].k[2] = Show => h \in new
  OBVIOUS
<1> HIDE DEF new
<1>5. QED
  BY <1>1, <1>2, <1>3, <1>4 DEF AskersKnown

(* What a request that comes in leaves in its handler.                     *)
LEMMA RequestHeard ==
  ASSUME SystemTypes, RecNumbers, AskersKnown, NEW h \in Handlers, NEW rid \in Nat \ {0},
         NEW aid \in ActionIds, NEW act \in RecActs, NEW ask \in AskRows,
         Receive(h, rid, aid, act, ask), Hear,
         ask = NoScope \/ \E k \in Keys : recs[k].id = rid /\ k[2] = Show
  PROVE  OthersRest(h) /\ HeardOf(h)' /\ UpdateAsked(h)' /\ AskersKnown'
<1>1. /\ Takes(h, call'[h])
      /\ \/ call'[h].pc = "error" /\ call'[h].act = ""
         \/ /\ call'[h].pc = IF act = "request" THEN "told" ELSE "record"
            /\ call'[h].rid = rid /\ call'[h].act = act /\ call'[h].ask = ask
            /\ call'[h].k \in Keys /\ recs[call'[h].k].id = rid
  BY ReceiveTakes
<1>2. OthersRest(h) /\ call[h].pc = "idle"
  BY <1>1, CallTakes DEF Takes
<1>3. call'[h].pc \in {"error", "told", "record"}
  BY <1>1
<1>4. UpdateAsked(h)'
  BY <1>3 DEF UpdateAsked
<1>5. call'[h].pc = "told" =>
        /\ call'[h].k \in Keys
        /\ call'[h].ask # NoScope => call'[h].k[2] = Show
  BY <1>1 DEF RecNumbers
<1>6. AskersKnown' /\ (call'[h].pc = "told" /\ call'[h].k[2] = Show => Heard(call'[h]) \in asked')
  BY <1>2, <1>5, Hearing
<1>7. HeardOf(h)'
  <2>1. OnItsWay(h)' => call'[h].pc = "told"
    BY <1>3 DEF OnItsWay
  <2>2. Heard(call[h])' = Heard(call'[h])
    BY DEF Heard
  <2>3. QED
    BY <1>5, <1>6, <2>1, <2>2 DEF HeardOf
<1>8. QED
  BY <1>2, <1>4, <1>6, <1>7

(* How handlers come by what they do, and what becomes of what was asked.  *)
Comes(h) == UNCHANGED tables /\ OthersRest(h) /\ HeardOf(h)' /\ UpdateAsked(h)'

LEMMA Arrivals ==
  ASSUME SystemTypes, TrialInv, AskInv, [Next]_vars
  PROVE  /\ AskersKnown'
         /\ \/ UNCHANGED call
            \/ \E h \in Handlers : Handle(h) \/ Comes(h)
<1> USE DEF tables, recVars, subjectVars, requestVars, syncVars, systemVars
<1>0. RecNumbers /\ AskersKnown /\ ModeAsked(series.mode)
  BY DEF AskInv, TablesAsked, SeriesAsked
<1>a. ASSUME UNCHANGED asked PROVE AskersKnown'
  BY <1>0, <1>a DEF AskersKnown
<1>b. ASSUME NEW h \in Handlers, NEW a \in ActionRows, Send(h, a), Hear
      PROVE  OthersRest(h) /\ HeardOf(h)' /\ UpdateAsked(h)' /\ AskersKnown'
  <2> DEFINE rid == a.rid
             aid == a.aid
             act == a.act
  <2>1. /\ rid \in Nat \ {0} /\ aid \in ActionIds /\ act \in RecActs
        /\ Receive(h, rid, aid, act, NoScope)
    BY <1>b, ActionsAreTyped DEF Send
  <2> HIDE DEF rid, aid, act
  <2>2. QED
    BY <1>0, <1>b, <2>1, IdleIsTyped, RequestHeard
<1>c. ASSUME NEW h \in Handlers, Return(h)
      PROVE  OthersRest(h) /\ HeardOf(h)' /\ UpdateAsked(h)'
  <2>1. OthersRest(h) /\ call'[h].pc = "idle"
    BY <1>c, ReturnIdles, IdleIsTyped
  <2>2. QED
    BY <2>1 DEF HeardOf, OnItsWay, UpdateAsked
<1>1. ASSUME NEW h \in Handlers, NEW k \in Keys, UserRetries(h, k) PROVE AskersKnown' /\ Comes(h)
  <2>1. UNCHANGED <<tables, asked>> /\ ReceiveRetry(h, k)
    BY <1>1 DEF UserRetries, ReceiveRetry
  <2>2. OthersRest(h) /\ call'[h].pc \in {"error", "force"}
    BY <2>1, RetryTakes, CallTakes
  <2>3. QED
    BY <1>a, <2>1, <2>2 DEF Comes, HeardOf, OnItsWay, UpdateAsked
<1>2. ASSUME NEW h \in Handlers, NEW k \in Keys, NEW act \in scenario.acts,
             NEW ask \in scenario.asks, UserActs(h, k, act, ask)
      PROVE  AskersKnown' /\ Comes(h)
  <2> DEFINE rid == recs[k].id
             aid == <<100 + budget["post"], act>>
  <2>1. /\ act \in RecActs /\ ask \in AskRows /\ rid \in Nat \ {0} /\ aid \in ActionIds
        /\ Receive(h, rid, aid, act, ask)
    BY <1>2, UserTakes
  <2>2. UNCHANGED tables /\ Hear /\ (k[2] = Show \/ ask = NoScope)
    BY <1>2 DEF UserActs
  <2>3. ask = NoScope \/ \E j \in Keys : recs[j].id = rid /\ j[2] = Show
    BY <2>2
  <2> HIDE DEF rid, aid
  <2>4. OthersRest(h) /\ HeardOf(h)' /\ UpdateAsked(h)' /\ AskersKnown'
    BY <1>0, <2>1, <2>2, <2>3, RequestHeard
  <2>5. QED
    BY <2>2, <2>4 DEF Comes
<1>3. ASSUME NEW h \in Handlers, NEW patch \in Patches, OperatorPatches(h, patch)
      PROVE  AskersKnown' /\ Comes(h)
  <2> DEFINE saved == [user |-> CHOOSE u \in Users : TRUE, mode |-> patch.mode,
                       seasons |-> {}, trial |-> ""]
  <2>1. /\ UNCHANGED tables /\ ReceivePatch(h, patch)
        /\ asked' = IF patch.mode = "" THEN asked ELSE asked \cup {saved}
    BY <1>3 DEF OperatorPatches, ReceivePatch
  <2>2. saved.mode = patch.mode /\ saved.trial = ""
    OBVIOUS
  <2> HIDE DEF saved
  <2>3. AskersKnown'
    BY <1>0, <2>1, <2>2 DEF AskersKnown
  <2>4. /\ OthersRest(h) /\ call'[h].act = "patch" /\ call'[h].pc = "update"
        /\ call'[h].row = Patched(series, patch)
    BY <2>1, PatchTakes, CallTakes
  <2>5. Patched(series, patch).mode = IF patch.mode = "" THEN series.mode ELSE patch.mode
    BY DEF Patched
  <2>6. ModeAsked(call[h].row.mode)'
    BY <1>0, <2>1, <2>2, <2>4, <2>5 DEF ModeAsked
  <2>7. QED
    BY <2>1, <2>3, <2>4, <2>6 DEF Comes, HeardOf, OnItsWay, UpdateAsked
<1>4. ASSUME NEW h \in Handlers, Handle(h) PROVE AskersKnown'
  BY <1>4, <1>a DEF Handle
<1>5. ASSUME NEW h \in Handlers, HandlerFails(h) PROVE AskersKnown' /\ Comes(h)
  <2>1. UNCHANGED <<tables, asked>> /\ Step(h, "error")
    BY <1>5 DEF HandlerFails, Fail, Answer
  <2>2. OthersRest(h) /\ call'[h].pc = "error"
    BY <2>1, StepServes DEF SystemTypes, CallTypes, Serves
  <2>3. QED
    BY <1>a, <2>1, <2>2 DEF Comes, HeardOf, OnItsWay, UpdateAsked
<1>6. ASSUME NEW h \in Handlers, ForgetCall(h) PROVE AskersKnown' /\ Comes(h)
  BY <1>6, <1>a, <1>c DEF ForgetCall, Forget, Comes
<1>7. CASE \/ \E k \in Keys : UserCancels(k)
           \/ \E u \in Users, e \in Episodes : UserWatches(u, e)
           \/ \E p \in Passes : RunPass(p) \/ PassAborts(p) \/ \E e \in Episodes : PassSkips(p, e)
           \/ \E e \in Episodes : ProviderAnnounces(e) \/ EpisodeAirs(e)
           \/ \E s \in Movies \cup Episodes : Acquire(s)
  <2>1. UNCHANGED <<call, asked>>
    BY <1>7 DEF UserCancels, CancelRequest, UserWatches, Playback, RunPass, PassAborts, PassSkips,
                ProviderAnnounces, EpisodeAirs, Acquire
  <2>2. QED
    BY <1>a, <2>1
<1>8. ASSUME NEW u \in Users, NEW decision \in {"continue", "stop"}, UserVotes(u, decision)
      PROVE  UNCHANGED call /\ AskersKnown'
  <2> DEFINE all == [user |-> u, mode |-> "all", seasons |-> {}, trial |-> ""]
  <2>1. UNCHANGED call /\ (UNCHANGED asked \/ asked' = asked \cup {all})
    BY <1>8 DEF UserVotes, Vote
  <2>2. all.trial = ""
    OBVIOUS
  <2> HIDE DEF all
  <2>3. QED
    BY <1>0, <2>1, <2>2 DEF AskersKnown
<1>9. CASE SyncStep \/ SyncFault \/ Notify \/ NotifyFault \/ Generate \/ PluginFault
  <2>1. UNCHANGED <<call, asked>>
    BY <1>9 DEF SyncStep, SyncFault, Notify, NotifyFault, Generate, GenerateRead, GenerateFail,
                GenerateReplace, Prune, PluginFault, LoseAnswer, Mark
  <2>2. QED
    BY <1>a, <2>1
<1>10. CASE Monitor
  <2>1. UNCHANGED tables /\ Hear /\ MonitorStep(scenario.users)
    BY <1>10 DEF Monitor, MonitorStep, BeginCheck, Answered, RefreshVirtual, SendQueued, SendMark,
                 ListActive
  <2>2. CASE UNCHANGED call
    <3>1. UNCHANGED asked
      BY <2>1, <2>2 DEF Hear
    <3>2. QED
      BY <1>a, <2>2, <3>1
  <2>3. CASE \E h \in Handlers, a \in ActionRows : Send(h, a)
    BY <1>b, <2>1, <2>3 DEF Comes
  <2>4. CASE Answered
    <3>1. monitor.h \in Handlers /\ Return(monitor.h)
      BY <2>4 DEF Answered, SystemTypes, PluginTypes, CheckRows
    <3>2. PICK h \in Handlers : Return(h)
      BY <3>1
    <3>3. OthersRest(h) /\ call'[h].pc = "idle"
      BY <3>2, ReturnIdles, IdleIsTyped
    <3>4. UNCHANGED asked
      BY <2>1, <3>3 DEF Hear, OthersRest
    <3>5. QED
      BY <1>a, <1>c, <2>1, <3>2, <3>4 DEF Comes
  <2>5. QED
    BY <2>1, <2>2, <2>3, <2>4, MonitorCalls
<1>11. CASE UNCHANGED vars
  BY <1>11, <1>a DEF vars
<1>12. QED
  BY <1>1, <1>2, <1>3, <1>4, <1>5, <1>6, <1>7, <1>8, <1>9, <1>10, <1>11 DEF Next


(* What a handler asks of the series' monitor is the mode that was heard.  *)
LEMMA HeardMode ==
  ASSUME NEW c \in CallRows, c.k[2] = Show, SeriesMode(c) # ""
  PROVE  SeriesMode(c) = "none" \/ SeriesMode(c) = Heard(c).mode
<1>1. Heard(c).mode = IF ~Scoped(c.ask) /\ c.ask.mode = "" THEN "future_only" ELSE c.ask.mode
  BY DEF Heard
<1>2. ~c.told
  BY DEF SeriesMode, CallRows
<1>3. CASE Scoped(c.ask)
  BY <1>2, <1>3 DEF SeriesMode
<1>4. CASE ~Scoped(c.ask)
  <2>1. SeriesMode(c) = RequestedMode(c)
    BY <1>2, <1>4 DEF SeriesMode
  <2>2. RequestedMode(c) = IF c.ask.mode = "" THEN "future_only" ELSE c.ask.mode
    BY <1>2, <1>4 DEF RequestedMode
  <2>3. QED
    BY <1>1, <1>4, <2>1, <2>2
<1>5. QED
  BY <1>3, <1>4

(* A handler on its way stays one that was heard, whatever it does to the  *)
(* tables; the copy of the series' row it makes was asked for.             *)
LEMMA HandlerStaysHeard ==
  ASSUME SystemTypes, AskInv, NEW h \in Handlers, HandlerStep(h), UNCHANGED asked
  PROVE  OthersRest(h) /\ HeardOf(h)' /\ UpdateAsked(h)'
<1>0. /\ call \in [Handlers -> CallRows] /\ CallFits(h) /\ HeardOf(h)
      /\ ModeAsked(series.mode) /\ call[h] \in CallRows
  BY DEF SystemTypes, CallTypes, AskInv, HandlersAsked, TablesAsked, SeriesAsked
<1>a. Serves(h)
  BY HandlerServes
<1>b. ASSUME OnItsWay(h)' => OnItsWay(h), UpdateAsked(h)'
      PROVE  OthersRest(h) /\ HeardOf(h)' /\ UpdateAsked(h)'
  <2>1. Heard(call[h])' = Heard(call[h])
    BY <1>a DEF Serves, Heard
  <2>2. call'[h].k = call[h].k /\ call'[h].ask = call[h].ask /\ OthersRest(h)
    BY <1>a DEF Serves
  <2>3. QED
    BY <1>0, <1>b, <2>1, <2>2 DEF HeardOf
<1>c. ASSUME call[h].pc \in {"told", "rules", "subject", "update", "track", "scope"},
             call'[h].pc # "update"
      PROVE  OthersRest(h) /\ HeardOf(h)' /\ UpdateAsked(h)'
  <2>1. OnItsWay(h)' => OnItsWay(h)
    BY <1>a, <1>c DEF OnItsWay, Serves
  <2>2. QED
    BY <1>b, <1>c, <2>1 DEF UpdateAsked
<1>d. ASSUME call'[h].pc \in {"record", "force", "ok", "error"}
      PROVE  OthersRest(h) /\ HeardOf(h)' /\ UpdateAsked(h)'
  BY <1>b, <1>d DEF OnItsWay, UpdateAsked
<1> USE DEF Answer
<1>1. CASE ReadRecorded(h)
  BY <1>1, <1>c, ReadRecordedServes
<1>2. CASE ReadSeries(h)
  <2>1. /\ call[h].pc = "subject" /\ call[h].k[2] = Show
        /\ \/ call'[h].pc = "track"
           \/ call'[h].pc = "update" /\ call'[h].row = [series EXCEPT !.mode = SeriesMode(call[h])]
              /\ SeriesMode(call[h]) \in MonitorMode \ {"none"}
    BY <1>2, ReadSeriesServes DEF ReadSeries
  <2>2. CASE call'[h].pc = "track"
    BY <1>c, <2>1, <2>2
  <2>3. CASE /\ call'[h].pc = "update" /\ call'[h].row = [series EXCEPT !.mode = SeriesMode(call[h])]
             /\ SeriesMode(call[h]) \in MonitorMode \ {"none"}
    <3>1. call'[h].row.mode = SeriesMode(call[h])
      BY <2>3 DEF SystemTypes, TableTypes, SeriesRows
    <3>2. SeriesMode(call[h]) # ""
      BY <2>3 DEF MonitorMode
    <3>3. OnItsWay(h) /\ Heard(call[h]) \in asked
      BY <1>0, <2>1 DEF CallFits, OnItsWay, HeardOf
    <3>4. SeriesMode(call[h]) = "none" \/ SeriesMode(call[h]) = Heard(call[h]).mode
      <4> DEFINE c == call[h]
      <4> HIDE DEF c
      <4>1. c \in CallRows /\ c.k[2] = Show /\ SeriesMode(c) # ""
        BY <1>0, <2>1, <3>2 DEF c
      <4>2. SeriesMode(c) = "none" \/ SeriesMode(c) = Heard(c).mode
        BY <4>1, HeardMode
      <4>3. QED
        BY <4>2 DEF c
    <3>5. \E a \in asked' : a.mode = call'[h].row.mode
      BY <2>3, <3>1, <3>3, <3>4
    <3>6. UpdateAsked(h)'
      BY <3>5 DEF UpdateAsked, ModeAsked
    <3>7. QED
      BY <1>b, <3>3, <3>6
  <2>4. QED
    BY <2>1, <2>2, <2>3
<1>3. CASE CheckRules(h)
  BY <1>0, <1>3, <1>c, StepServes DEF CheckRules
<1>4. CASE RequestMovie(h) \/ CreateSeries(h)
  BY <1>0, <1>4, <1>c, StepServes DEF RequestMovie, CreateSeries
<1>5. CASE UpdateSeries(h)
  BY <1>0, <1>5, <1>c, StepServes DEF UpdateSeries
<1>6. CASE TrackRequest(h)
  BY <1>0, <1>6, <1>c, StepServes DEF TrackRequest
<1>7. CASE SelectSeasons(h) \/ BeginTrial(h)
  BY <1>0, <1>7, <1>d, StepServes DEF SelectSeasons, BeginTrial
<1>8. CASE Record(h)
  <2>1. Step(h, "ok") \/ Step(h, "error")
    BY <1>0, <1>8 DEF Record, RecActs, CallFits
  <2>2. QED
    BY <1>0, <1>d, <2>1, StepServes
<1>9. CASE Reopen(h)
  BY <1>0, <1>9, <1>d, StepServes DEF Reopen
<1>10. ASSUME NEW s \in call[h].todo, ForceSearch(h, s)
       PROVE  OthersRest(h) /\ HeardOf(h)' /\ UpdateAsked(h)'
  BY <1>10, <1>d, ForceSearchServes
<1>11. QED
  BY <1>1, <1>2, <1>3, <1>4, <1>5, <1>6, <1>7, <1>8, <1>9, <1>10 DEF HandlerStep

LEMMA HandlersAskedStep ==
  ASSUME SystemTypes, TrialInv, AskInv, [Next]_vars PROVE HandlersAsked'
<1>0. HandlersAsked /\ (\A mode : ModeAsked(mode) => ModeAsked(mode)') /\ asked \subseteq asked'
  BY StillAsked, AsksStay DEF AskInv
<1>a. ASSUME NEW h \in Handlers, call'[h] = call[h] PROVE HeardOf(h)' /\ UpdateAsked(h)'
  <2>1. HeardOf(h)'
    <3>1. Heard(call[h])' = Heard(call[h]) /\ (OnItsWay(h)' <=> OnItsWay(h))
      BY <1>a DEF Heard, OnItsWay
    <3>2. QED
      BY <1>0, <1>a, <3>1 DEF HandlersAsked, HeardOf
  <2>2. UpdateAsked(h)'
    BY <1>0, <1>a DEF HandlersAsked, UpdateAsked
  <2>3. QED
    BY <2>1, <2>2
<1>1. CASE UNCHANGED call
  BY <1>1, <1>a DEF HandlersAsked
<1>2. ASSUME NEW h \in Handlers, Handle(h) PROVE HandlersAsked'
  <2>1. HandlerStep(h) /\ UNCHANGED asked
    BY <1>2 DEF Handle, systemVars
  <2>2. OthersRest(h) /\ HeardOf(h)' /\ UpdateAsked(h)'
    BY <2>1, HandlerStaysHeard
  <2>3. QED
    BY <1>a, <2>2 DEF HandlersAsked, OthersRest
<1>3. ASSUME NEW h \in Handlers, Comes(h) PROVE HandlersAsked'
  BY <1>3, <1>a DEF Comes, OthersRest, HandlersAsked
<1>4. QED
  BY <1>1, <1>2, <1>3, Arrivals


(* What the rows hold stays asked for while nobody writes them.            *)
LEMMA RowsStayAsked ==
  ASSUME TrialInv, AskInv, [Next]_vars
  PROVE  /\ UNCHANGED <<series, selected>> => SeriesAsked'
         /\ UNCHANGED trial => TrialsAsked'
         /\ UNCHANGED episode => EpisodesAsked'
<1>1. /\ \A mode : ModeAsked(mode) => ModeAsked(mode)'
      /\ \A n : SeasonAsked(n) => SeasonAsked(n)'
      /\ \A u : TrialAsked(u) => TrialAsked(u)'
      /\ \A e : AskedFor(e) => AskedFor(e)'
  BY StillAsked DEF AskInv
<1>2. SeriesAsked /\ TrialsAsked /\ EpisodesAsked
  BY DEF AskInv, TablesAsked
<1>3. QED
  BY <1>1, <1>2 DEF SeriesAsked, TrialsAsked, EpisodesAsked

(* An episode may become wanted if it is asked for.                        *)
LEMMA EpisodeMoves ==
  ASSUME TrialInv, AskInv, [Next]_vars, NEW e, NEW phase,
         phase \in {"missing", "unmonitored"} \/ AskedFor(e),
         episode' = [episode EXCEPT ![e] = phase]
  PROVE  EpisodesAsked'
<1>1. /\ \A f : AskedFor(f) => AskedFor(f)'
      /\ episode \in [Episodes -> Phase] /\ EpisodesAsked
  BY StillAsked DEF AskInv, TrialInv, TrialTypes, TablesAsked
<1>2. ASSUME NEW f \in Episodes
      PROVE  episode'[f] \in {"missing", "unmonitored"} \/ AskedFor(f)'
  <2>1. CASE f = e
    BY <1>1, <2>1
  <2>2. CASE f # e
    BY <1>1, <2>2 DEF EpisodesAsked
  <2>3. QED
    BY <2>1, <2>2
<1>3. QED
  BY <1>2 DEF EpisodesAsked

(* What a handler writes was asked for when it came.                       *)
LEMMA HandlerTablesAsked ==
  ASSUME SystemTypes, TrialInv, AskInv, NEW h \in Handlers, Handle(h)
  PROVE  TablesAsked'
<1> USE DEF tables, recVars, subjectVars, requestVars, syncVars, systemVars
<1>n. [Next]_vars /\ HandlerStep(h) /\ UNCHANGED asked
  BY DEF Next, Handle
<1>0. /\ call[h] \in CallRows /\ CallFits(h) /\ HeardOf(h) /\ UpdateAsked(h)
      /\ SeriesAsked /\ TrialsAsked /\ EpisodesAsked
      /\ \A mode : ModeAsked(mode) => ModeAsked(mode)'
      /\ \A n : SeasonAsked(n) => SeasonAsked(n)'
      /\ \A u : TrialAsked(u) => TrialAsked(u)'
      /\ UNCHANGED <<series, selected>> => SeriesAsked'
      /\ UNCHANGED trial => TrialsAsked'
      /\ UNCHANGED episode => EpisodesAsked'
  BY <1>n, StillAsked, RowsStayAsked DEF SystemTypes, CallTypes, AskInv, HandlersAsked, TablesAsked
<1>a. ASSUME UNCHANGED <<series, selected, trial, episode>> PROVE TablesAsked'
  BY <1>0, <1>a DEF TablesAsked
<1>1. CASE ReadRecorded(h) \/ CheckRules(h) \/ ReadSeries(h) \/ RequestMovie(h) \/ TrackRequest(h)
           \/ Record(h) \/ Reopen(h)
  <2>1. UNCHANGED <<series, selected, trial, episode>>
    BY <1>1 DEF ReadRecorded, CheckRules, ReadSeries, RequestMovie, TrackRequest, Record, Reopen
  <2>2. QED
    BY <1>a, <2>1
<1>2. CASE CreateSeries(h)
  <2>1. UNCHANGED <<selected, trial, episode>> /\ call[h].pc = "subject" /\ call[h].k[2] = Show
    BY <1>2 DEF CreateSeries
  <2>2. SeriesAsked'
    <3>1. CASE call[h].told
      BY <1>0, <1>2, <2>1, <3>1 DEF CreateSeries
    <3>2. CASE ~call[h].told
      <4> DEFINE c == call[h]
      <4>1. /\ series' = [mode |-> SeriesMode(c), status |-> "following"]
            /\ c \in CallRows /\ c.k[2] = Show /\ ~c.told
        BY <1>0, <1>2, <3>2 DEF CreateSeries
      <4>2. Heard(c) \in asked
        BY <1>0, <2>1 DEF HeardOf, OnItsWay, CallFits
      <4> HIDE DEF c
      <4>3. SeriesMode(c) # ""
        BY <4>1, ModesAreTyped DEF MonitorMode, CallRows
      <4>4. SeriesMode(c) = "none" \/ SeriesMode(c) = Heard(c).mode
        BY <4>1, <4>3, HeardMode
      <4>5. PICK mode : mode = SeriesMode(c) /\ ModeAsked(mode)
        BY <4>2, <4>4 DEF ModeAsked
      <4>6. ModeAsked(mode)' /\ series'.mode = mode
        BY <1>n, <4>1, <4>5 DEF ModeAsked
      <4>7. QED
        BY <1>0, <1>n, <2>1, <4>6 DEF SeriesAsked, SeasonAsked, ModeAsked
    <3>3. QED
      BY <3>1, <3>2
  <2>3. QED
    BY <1>0, <2>1, <2>2 DEF TablesAsked
<1>3. CASE UpdateSeries(h)
  <2>1. UNCHANGED <<selected, trial, episode>> /\ call[h].pc = "update" /\ series' = call[h].row
    BY <1>3 DEF UpdateSeries
  <2>2. ModeAsked(call[h].row.mode)
    BY <1>0, <2>1 DEF UpdateAsked
  <2>3. SeriesAsked'
    BY <1>0, <1>n, <2>1, <2>2 DEF SeriesAsked, SeasonAsked, ModeAsked
  <2>4. QED
    BY <1>0, <2>1, <2>3 DEF TablesAsked
<1>4. CASE SelectSeasons(h)
  <2>1. /\ UNCHANGED <<series, trial, episode>> /\ call[h].pc = "scope"
        /\ call[h].ask.seasons # {} /\ selected' = selected \cup call[h].ask.seasons
    BY <1>4 DEF SelectSeasons, AddSeasons
  <2>2. Heard(call[h]) \in asked
    <3>1. OnItsWay(h)
      BY <1>0, <2>1 DEF OnItsWay, CallFits
    <3>2. NoScope.seasons = {} /\ NoScope.trial = ""
      BY DEF NoScope
    <3>3. call[h].ask # NoScope
      BY <2>1, <3>2
    <3>4. QED
      BY <1>0, <3>1, <3>3 DEF HeardOf
  <2>3. Heard(call[h]).seasons = call[h].ask.seasons
    BY DEF Heard
  <2>4. SeriesAsked'
    BY <1>0, <1>n, <2>1, <2>2, <2>3 DEF SeriesAsked, SeasonAsked, ModeAsked
  <2>5. QED
    BY <1>0, <2>1, <2>4 DEF TablesAsked
<1>5. CASE BeginTrial(h)
  <2>1. /\ UNCHANGED <<series, selected, episode>> /\ call[h].pc = "scope" /\ call[h].ask.trial # ""
        /\ UNCHANGED trial \/ StartTrial(call[h].k[1], call[h].ask.trial)
    BY <1>5 DEF BeginTrial
  <2>2. Heard(call[h]) \in asked /\ call[h].k \in Keys
    <3>1. OnItsWay(h)
      BY <1>0, <2>1 DEF OnItsWay, CallFits
    <3>2. NoScope.seasons = {} /\ NoScope.trial = ""
      BY DEF NoScope
    <3>3. call[h].ask # NoScope
      BY <2>1, <3>2
    <3>4. QED
      BY <1>0, <3>1, <3>3 DEF HeardOf
  <2>3. Heard(call[h]).trial = call[h].ask.trial /\ Heard(call[h]).user = call[h].k[1]
    BY DEF Heard
  <2>4. TrialAsked(call[h].k[1])
    BY <2>1, <2>2, <2>3 DEF TrialAsked
  <2>5. ASSUME NEW u \in Users PROVE trial'[u].scope = trial[u].scope \/ u = call[h].k[1]
    BY <2>1 DEF StartTrial, TrialInv, TrialTypes
  <2>6. TrialsAsked'
    BY <1>0, <2>4, <2>5 DEF TrialsAsked
  <2>7. QED
    BY <1>0, <2>1, <2>6 DEF TablesAsked
<1>6. ASSUME NEW s \in call[h].todo, ForceSearch(h, s) PROVE TablesAsked'
  <2>1. /\ UNCHANGED <<series, selected, trial>>
        /\ \/ UNCHANGED episode
           \/ s \notin Movies /\ episode[s] \in Retryable /\ episode' = [episode EXCEPT ![s] = "wanted"]
    BY <1>6 DEF ForceSearch
  <2>2. CASE UNCHANGED episode
    BY <1>a, <2>1, <2>2
  <2>3. CASE s \notin Movies /\ episode[s] \in Retryable /\ episode' = [episode EXCEPT ![s] = "wanted"]
    <3>1. s \in Episodes
      BY <1>0, <1>6, <2>3 DEF CallRows
    <3>2. AskedFor(s)
      BY <1>0, <2>3, <3>1 DEF EpisodesAsked, Retryable
    <3>3. EpisodesAsked'
      BY <1>n, <2>3, <3>2, EpisodeMoves
    <3>4. QED
      BY <1>0, <2>1, <3>3 DEF TablesAsked
  <2>4. QED
    BY <2>1, <2>2, <2>3
<1>7. QED
  BY <1>n, <1>1, <1>2, <1>3, <1>4, <1>5, <1>6 DEF HandlerStep


(* A pass makes wanted what the row, the seasons or the trials it has read *)
(* ask for.                                                                *)
LEMMA PassWants ==
  ASSUME SystemTypes, NEW p \in Passes, PassAsked(p), NEW e \in Episodes,
         Wants(pass[p], e) \/ e \in pass[p].ids
  PROVE  AskedFor(e)
<1>1. CASE e \in pass[p].ids
  BY <1>1 DEF PassAsked, TrialAsked, AskedFor
<1>2. CASE Monitors(pass[p], e)
  <2>1. \/ pass[p].row.mode \in {"all", "latest_season"}
        \/ pass[p].row.mode = "future_only" /\ e \notin Old
    BY <1>2 DEF Monitors
  <2>2. \E a \in asked : a.mode = pass[p].row.mode
    BY <2>1 DEF PassAsked, ModeAsked
  <2>3. QED
    BY <2>1, <2>2 DEF AskedFor
<1>3. CASE Season[e] \in pass[p].sel
  BY <1>3 DEF PassAsked, SeasonAsked, AskedFor
<1>4. QED
  BY <1>1, <1>2, <1>3 DEF Wants

LEMMA PassTablesAsked ==
  ASSUME SystemTypes, TrialInv, AskInv, NEW p \in Passes, RunPass(p)
  PROVE  TablesAsked'
<1> USE DEF tables, recVars, subjectVars, requestVars, syncVars, systemVars
<1>n. [Next]_vars
  BY DEF Next
<1>0. /\ PassAsked(p) /\ TrialsAsked /\ EpisodesAsked
      /\ \A u : TrialAsked(u) => TrialAsked(u)'
      /\ \A e : AskedFor(e) => AskedFor(e)'
      /\ UNCHANGED <<series, selected>> => SeriesAsked'
      /\ UNCHANGED trial => TrialsAsked'
      /\ UNCHANGED episode => EpisodesAsked'
  BY <1>n, StillAsked, RowsStayAsked DEF AskInv, TablesAsked, PassesAsked
<1>1. CASE \/ ListSeries(p) \/ ReadSeasons(p) \/ ReadLimits(p) \/ FetchEpisodes(p)
           \/ ReadSelected(p) \/ FinishPass(p)
  <2>1. UNCHANGED <<series, selected, trial, episode>>
    BY <1>1 DEF ListSeries, ReadSeasons, ReadLimits, FetchEpisodes, ReadSelected, FinishPass
  <2>2. QED
    BY <1>0, <2>1 DEF TablesAsked
<1>2. ASSUME NEW e \in pass[p].todo, StoreAnnounced(p, e) PROVE TablesAsked'
  <2>1. /\ UNCHANGED <<series, selected, trial>>
        /\ \A f \in Episodes : episode'[f] = "unmonitored" \/ episode'[f] = episode[f]
    BY <1>2 DEF StoreAnnounced, SystemTypes, TrialInv, TrialTypes
  <2>2. EpisodesAsked'
    BY <1>0, <2>1 DEF EpisodesAsked
  <2>3. QED
    BY <1>0, <2>1, <2>2 DEF TablesAsked
<1>3. CASE SelectEpisodes(p)
  <2>1. UNCHANGED <<series, selected, episode, watched>> /\ PrepareTrials
    BY <1>3 DEF SelectEpisodes
  <2>2. \A u \in Users : trial'[u].scope = trial[u].scope
    BY <2>1, PreparedTrials
  <2>3. TrialsAsked'
    BY <1>0, <2>2 DEF TrialsAsked
  <2>4. QED
    BY <1>0, <2>1, <2>3 DEF TablesAsked
<1>4. ASSUME NEW e \in pass[p].todo, StoreEpisode(p, e) PROVE TablesAsked'
  <2> DEFINE phase ==
        CASE episode[e] = "missing" -> IF Wants(pass[p], e) THEN "wanted" ELSE "unmonitored"
          [] episode[e] = "unmonitored"
             /\ (Wants(pass[p], e) \/ e \in pass[p].ids \cap pass[p].aired) -> "wanted"
          [] OTHER -> episode[e]
  <2>1. e \in Episodes /\ episode \in [Episodes -> Phase]
    BY DEF SystemTypes, PassRows, TrialInv, TrialTypes
  <2>2. UNCHANGED <<series, selected, trial>> /\ episode' = [episode EXCEPT ![e] = phase]
    BY <1>4, <2>1 DEF StoreEpisode
  <2>3. \/ phase = episode[e]
        \/ phase = "unmonitored"
        \/ phase = "wanted" /\ (Wants(pass[p], e) \/ e \in pass[p].ids)
    OBVIOUS
  <2> HIDE DEF phase
  <2>4. phase \in {"missing", "unmonitored"} \/ AskedFor(e)
    BY <1>0, <2>1, <2>3, PassWants DEF EpisodesAsked
  <2>5. EpisodesAsked'
    BY <1>n, <2>2, <2>4, EpisodeMoves
  <2>6. QED
    BY <1>0, <2>2, <2>5 DEF TablesAsked
<1>5. QED
  BY <1>1, <1>2, <1>3, <1>4 DEF RunPass, PassStep

LEMMA TablesAskedStep ==
  ASSUME SystemTypes, TrialInv, AskInv, [Next]_vars PROVE TablesAsked'
<1> USE DEF tables, recVars, subjectVars, requestVars, syncVars, systemVars
<1>0. /\ SeriesAsked /\ TrialsAsked /\ EpisodesAsked
      /\ \A n : SeasonAsked(n) => SeasonAsked(n)'
      /\ \A u : TrialAsked(u) => TrialAsked(u)'
      /\ \A e : AskedFor(e) => AskedFor(e)'
      /\ UNCHANGED <<series, selected>> => SeriesAsked'
      /\ UNCHANGED trial => TrialsAsked'
      /\ UNCHANGED episode => EpisodesAsked'
  BY StillAsked, RowsStayAsked DEF AskInv, TablesAsked
<1>a. ASSUME UNCHANGED <<series, selected, trial, episode>> PROVE TablesAsked'
  BY <1>0, <1>a DEF TablesAsked
<1>1. ASSUME NEW h \in Handlers, Handle(h) PROVE TablesAsked'
  BY <1>1, HandlerTablesAsked
<1>2. ASSUME NEW h \in Handlers,
             \/ HandlerFails(h) \/ ForgetCall(h)
             \/ \E k \in Keys : UserRetries(h, k)
             \/ \E k \in Keys, act \in scenario.acts, ask \in scenario.asks :
                  UserActs(h, k, act, ask)
             \/ \E patch \in Patches : OperatorPatches(h, patch)
      PROVE  TablesAsked'
  <2>1. UNCHANGED <<series, selected, trial, episode>>
    BY <1>2 DEF HandlerFails, Fail, ForgetCall, Forget, UserRetries, ReceiveRetry, UserActs,
                OperatorPatches, ReceivePatch
  <2>2. QED
    BY <1>a, <2>1
<1>3. CASE \/ \E k \in Keys : UserCancels(k)
           \/ \E u \in Users, e \in Episodes : UserWatches(u, e)
           \/ \E e \in Episodes : ProviderAnnounces(e) \/ EpisodeAirs(e)
           \/ \E p \in Passes : PassAborts(p) \/ \E e \in Episodes : PassSkips(p, e)
  <2>1. UNCHANGED <<series, selected, trial, episode>>
    BY <1>3 DEF UserCancels, CancelRequest, UserWatches, Playback, ProviderAnnounces, Announce,
                EpisodeAirs, Air, PassAborts, AbortPass, PassSkips, SkipEpisode
  <2>2. QED
    BY <1>a, <2>1
<1>4. ASSUME NEW u \in Users, NEW decision \in {"continue", "stop"}, UserVotes(u, decision)
      PROVE  TablesAsked'
  <2> DEFINE all == [user |-> u, mode |-> "all", seasons |-> {}, trial |-> ""]
  <2>1. /\ UNCHANGED <<selected, episode>> /\ trial' = [trial EXCEPT ![u].decision = decision]
        /\ \/ UNCHANGED series
           \/ series' = [mode |-> "all", status |-> "following"] /\ asked' = asked \cup {all}
    BY <1>4 DEF UserVotes, Vote, VoteTrial
  <2>2. TrialsAsked'
    <3> DEFINE row == [trial[u] EXCEPT !.decision = decision]
    <3>1. trial \in [Users -> TrialRows] /\ trial' = [trial EXCEPT ![u] = row]
      BY <2>1 DEF TrialInv, TrialTypes
    <3>2. row.scope = trial[u].scope
      BY <3>1 DEF TrialRows
    <3> HIDE DEF row
    <3>3. \A v \in Users : trial'[v].scope = trial[v].scope
      BY <3>1, <3>2
    <3>4. QED
      BY <1>0, <3>3 DEF TrialsAsked
  <2>3. SeriesAsked'
    <3>1. CASE UNCHANGED series
      BY <1>0, <2>1, <3>1
    <3>2. CASE series' = [mode |-> "all", status |-> "following"] /\ asked' = asked \cup {all}
      <4>1. all \in asked' /\ all.mode = "all" /\ series'.mode = "all"
        BY <3>2
      <4> HIDE DEF all
      <4>2. ModeAsked(series.mode)'
        BY <4>1 DEF ModeAsked
      <4>3. QED
        BY <1>0, <2>1, <4>2 DEF SeriesAsked
    <3>3. QED
      BY <2>1, <3>1, <3>2
  <2>4. QED
    BY <1>0, <2>1, <2>2, <2>3 DEF TablesAsked
<1>5. ASSUME NEW p \in Passes, RunPass(p) PROVE TablesAsked'
  BY <1>5, PassTablesAsked
<1>6. ASSUME NEW s \in Movies \cup Episodes, Acquire(s) PROVE TablesAsked'
  <2>1. /\ UNCHANGED <<series, selected, trial>>
        /\ \/ UNCHANGED episode
           \/ s \notin Movies /\ episode[s] \in {"wanted", "active"}
              /\ \E phase \in {"active", "imported", "failed"} : episode' = [episode EXCEPT ![s] = phase]
    BY <1>6 DEF Acquire
  <2>2. ASSUME s \notin Movies, episode[s] \in {"wanted", "active"},
               NEW phase \in {"active", "imported", "failed"}, episode' = [episode EXCEPT ![s] = phase]
        PROVE  EpisodesAsked'
    <3>1. AskedFor(s)
      BY <1>0, <1>6, <2>2 DEF EpisodesAsked
    <3>2. QED
      BY <2>2, <3>1, EpisodeMoves
  <2>3. EpisodesAsked'
    BY <1>0, <2>1, <2>2
  <2>4. QED
    BY <1>0, <2>1, <2>3 DEF TablesAsked
<1>7. CASE SyncStep \/ SyncFault
  <2>1. UNCHANGED <<series, selected, trial, episode>>
    BY <1>7 DEF SyncStep, AvailStep, BeginSync, SendBatch, SendComplete, HandleBatch,
                HandleComplete, SyncFault, LoseMessage, GiveUp, ChangeLibrary
  <2>2. QED
    BY <1>a, <2>1
<1>8. CASE Notify \/ NotifyFault
  <2>1. UNCHANGED <<series, selected, trial, episode>>
    BY <1>8 DEF Notify, WorkerStep, Claim, Finish, Post, ComeDue, NotifyFault, Abandon
  <2>2. QED
    BY <1>a, <2>1
<1>9. CASE Generate
  <2>1. UNCHANGED <<series, selected, trial, episode>>
    BY <1>9 DEF Generate, GenerateRead, GenerateFail, GenerateReplace, Prune
  <2>2. QED
    BY <1>a, <2>1
<1>10. CASE Monitor \/ PluginFault
  <2>1. UNCHANGED <<series, selected, trial, episode>>
    BY <1>10 DEF Monitor, MonitorStep, BeginCheck, Answered, RefreshVirtual, SendQueued,
                 SendMark, ListActive, PluginFault, LoseAnswer, Mark
  <2>2. QED
    BY <1>a, <2>1
<1>11. CASE UNCHANGED vars
  BY <1>11, <1>a DEF vars
<1>12. QED
  BY <1>1, <1>2, <1>3, <1>4, <1>5, <1>6, <1>7, <1>8, <1>9, <1>10, <1>11 DEF Next

LEMMA AskStep ==
  SystemTypes /\ TrialInv /\ AskInv /\ [Next]_vars => AskInv'
<1> SUFFICES ASSUME SystemTypes, TrialInv, AskInv, [Next]_vars PROVE AskInv'
  OBVIOUS
<1>1. RecNumbers
  BY DEF AskInv
<1>2. RecNumbers'
  BY <1>1, NumbersStep
<1>3. AskersKnown'
  BY Arrivals
<1>4. QED
  BY <1>2, <1>3, HandlersAskedStep, PassesStep, TablesAskedStep DEF AskInv

(* Whatever is in the tables was asked for by somebody.                    *)
THEOREM AskedBefore == Spec => []AskInv
  BY AskStart, AskStep, TypesInvariant, PTL DEF Spec

(* Reelay looks for an episode only because a request, an operator or a    *)
(* vote asked for it, however handlers, passes, votes and cancelled        *)
(* requests interleave (api/recommendations.go, engine/metadata_loop.go).  *)
THEOREM NothingUnrequestedIsSought == Spec => []NothingUnrequested
<1>1. AskInv => NothingUnrequested
  BY DEF AskInv, TablesAsked, EpisodesAsked, AskedFor, NothingUnrequested
<1>2. QED
  BY <1>1, AskedBefore, PTL


-------------------------------------------------------------------------------
(* The plugin's outbox.  An action leaves it only on the handler's "ok",   *)
(* and a handler of the plugin says "ok" only once the tables have it.     *)

(* The handler the plugin waits for.                                       *)
SentFits(h) ==
  /\ call[h].pc # "idle" /\ call[h].aid = Head(monitor.queue).aid
  /\ call[h].pc # "error" => call[h].act \in MarkActs /\ call[h].pc # "force"
  /\ call[h].pc = "ok" => call[h].aid \in recorded
SentInv == \A h \in Handlers : monitor.pc = "sent" /\ monitor.h = h => SentFits(h)

LEMMA HandlerDelivers ==
  ASSUME SystemTypes, NEW h \in Handlers, Handle(h),
         call[h].pc # "error" => call[h].act \in MarkActs /\ call[h].pc # "force"
  PROVE  /\ Serves(h) /\ call'[h].pc \notin {"idle", "force"} /\ call[h].act \in MarkActs
         /\ call'[h].pc = "ok" => call[h].aid \in recorded'
<1>0. /\ HandlerStep(h) /\ Remember /\ call \in [Handlers -> CallRows] /\ Serves(h)
      /\ call[h].pc # "idle" /\ CallFits(h)
  BY HandlerServes DEF Handle, SystemTypes, CallTypes
<1>a. ASSUME NEW pc \in {"rules", "subject", "update", "track", "scope", "record", "error"},
             call[h].pc # "error", call'[h].pc = pc
      PROVE  /\ Serves(h) /\ call'[h].pc \notin {"idle", "force"} /\ call[h].act \in MarkActs
             /\ call'[h].pc = "ok" => call[h].aid \in recorded'
  BY <1>0, <1>a
<1> USE DEF Answer
<1>1. CASE ReadRecorded(h)
  BY <1>0, <1>1, <1>a, ReadRecordedServes DEF ReadRecorded
<1>2. CASE ReadSeries(h)
  BY <1>0, <1>2, <1>a, ReadSeriesServes DEF ReadSeries
<1>3. CASE CheckRules(h)
  BY <1>0, <1>3, <1>a, StepServes DEF CheckRules
<1>4. CASE RequestMovie(h) \/ CreateSeries(h)
  BY <1>0, <1>4, <1>a, StepServes DEF RequestMovie, CreateSeries
<1>5. CASE UpdateSeries(h)
  <2>1. call[h].pc = "update" /\ call[h].act # "patch" /\ Step(h, "track")
    BY <1>0, <1>5 DEF UpdateSeries, MarkActs
  <2>2. QED
    BY <1>0, <1>a, <2>1, StepServes
<1>6. CASE TrackRequest(h) \/ SelectSeasons(h) \/ BeginTrial(h)
  BY <1>0, <1>6, <1>a, StepServes DEF TrackRequest, SelectSeasons, BeginTrial
<1>7. CASE Record(h)
  <2>1. call[h].pc = "record" /\ call[h].act \in MarkActs
    BY <1>7 DEF Record
  <2>2. CASE Step(h, "error")
    BY <1>0, <1>a, <2>1, <2>2, StepServes
  <2>3. CASE Recorded(h) /\ Step(h, "ok")
    <3>1. call'[h].pc = "ok"
      BY <1>0, <2>3, StepServes
    <3>2. CASE call[h].act = "rate"
      <4>1. RecordRating(RecOf(call[h].rid))
        BY <2>3, <3>2 DEF Recorded
      <4>2. RecOf(call[h].rid) \in rated'
        BY <4>1 DEF RecordRating
      <4>3. QED
        BY <1>0, <2>1, <3>1, <3>2, <4>2 DEF Remember
    <3>3. CASE call[h].act \in {"request", "dismiss"}
      <4> DEFINE k == RecOf(call[h].rid)
      <4>1. RecordAction(k, call[h].aid, call[h].act)
        BY <2>3, <3>3 DEF Recorded
      <4> HIDE DEF k
      <4>2. \E f \in feedback' : f.aid = call[h].aid
        <5> DEFINE new == [aid |-> call[h].aid, act |-> call[h].act, key |-> k]
        <5>1. \/ \E f \in feedback : f.aid = call[h].aid /\ feedback' = feedback
              \/ feedback' = feedback \cup {new}
          BY <4>1 DEF RecordAction
        <5>2. new.aid = call[h].aid
          OBVIOUS
        <5> HIDE DEF new
        <5>3. QED
          BY <5>1, <5>2
      <4>3. QED
        BY <1>0, <2>1, <3>1, <4>2 DEF Remember
    <3>4. QED
      BY <2>1, <3>2, <3>3 DEF MarkActs
  <2>4. QED
    BY <1>7, <2>2, <2>3, RecordRecords
<1>8. CASE Reopen(h)
  BY <1>0, <1>8 DEF Reopen
<1>9. ASSUME NEW s \in call[h].todo, ForceSearch(h, s) PROVE FALSE
  BY <1>0, <1>9 DEF ForceSearch
<1>10. QED
  BY <1>0, <1>1, <1>2, <1>3, <1>4, <1>5, <1>6, <1>7, <1>8, <1>9 DEF HandlerStep


(* The steps by what they do to the plugin and to the handlers.            *)
Serving ==
  /\ UNCHANGED <<monitor, outbox>> /\ recorded \subseteq recorded'
  /\ \/ UNCHANGED call
     \/ \E h \in Handlers : \/ Handle(h) \/ HandlerFails(h) \/ Forget(h)
                            \/ OthersRest(h) /\ call[h].pc = "idle"
Resumes == monitor'.pc # "sent" /\ UNCHANGED <<outbox, recorded>>
Delivers(h, a) ==
  /\ monitor.pc \in {"flush", "scan"} /\ Send(h, a) /\ UNCHANGED recorded
  /\ \/ monitor.pc = "flush" /\ a = Head(monitor.queue) /\ UNCHANGED outbox
     \/ monitor.pc = "scan" /\ (UNCHANGED outbox \/ outbox' = Append(outbox, a))

LEMMA PluginSteps ==
  ASSUME SystemTypes, [Next]_vars
  PROVE  \/ Serving \/ Resumes \/ Answered
         \/ \E h \in Handlers, a \in ActionRows : Delivers(h, a)
<1> USE DEF pluginVars, discoverVars
<1>1. ASSUME NEW h \in Handlers,
             \/ \E k \in Keys : UserRetries(h, k)
             \/ \E k \in Keys, act \in scenario.acts, ask \in scenario.asks :
                  UserActs(h, k, act, ask)
             \/ \E patch \in Patches : OperatorPatches(h, patch)
      PROVE  Serving
  <2>1. UNCHANGED <<monitor, outbox, recorded>>
    BY <1>1 DEF UserRetries, UserActs, OperatorPatches
  <2>2. \A g \in Handlers : call[g].pc = "idle" /\ OthersRest(g) => Serving
    BY <2>1 DEF Serving
  <2>3. ASSUME NEW k \in Keys, UserRetries(h, k) PROVE call[h].pc = "idle" /\ OthersRest(h)
    BY <2>3, RetryTakes, CallTakes DEF UserRetries, Takes
  <2>4. ASSUME NEW k \in Keys, NEW act \in scenario.acts, NEW ask \in scenario.asks,
               UserActs(h, k, act, ask)
        PROVE  call[h].pc = "idle" /\ OthersRest(h)
    <3> DEFINE rid == recs[k].id
               aid == <<100 + budget["post"], act>>
    <3>1. /\ act \in RecActs /\ ask \in AskRows /\ rid \in Nat \ {0} /\ aid \in ActionIds
          /\ Receive(h, rid, aid, act, ask)
      BY <2>4, UserTakes
    <3> HIDE DEF rid, aid
    <3>2. Takes(h, call'[h])
      BY <3>1, ReceiveTakes
    <3>3. QED
      BY <3>2, CallTakes DEF Takes
  <2>5. ASSUME NEW patch \in Patches, OperatorPatches(h, patch)
        PROVE  call[h].pc = "idle" /\ OthersRest(h)
    BY <2>5, PatchTakes, CallTakes DEF OperatorPatches, Takes
  <2>6. QED
    BY <1>1, <2>2, <2>3, <2>4, <2>5
<1>2. ASSUME NEW h \in Handlers, Handle(h) \/ HandlerFails(h) \/ ForgetCall(h) PROVE Serving
  <2>1. UNCHANGED <<monitor, outbox>> /\ recorded \subseteq recorded'
    BY <1>2 DEF Handle, Remember, HandlerFails, ForgetCall, Forget
  <2>2. QED
    BY <1>2, <2>1 DEF Serving, ForgetCall
<1>a. ASSUME UNCHANGED <<call, monitor, outbox, recorded>> PROVE Serving
  BY <1>a DEF Serving
<1>3. CASE \/ \E k \in Keys : UserCancels(k)
           \/ \E u \in Users, decision \in {"continue", "stop"} : UserVotes(u, decision)
           \/ \E u \in Users, e \in Episodes : UserWatches(u, e)
           \/ \E s \in Movies \cup Episodes : Acquire(s)
           \/ \E e \in Episodes : ProviderAnnounces(e) \/ EpisodeAirs(e)
           \/ \E p \in Passes : \/ RunPass(p) \/ PassAborts(p)
                                \/ \E e \in Episodes : PassSkips(p, e)
  <2>1. UNCHANGED <<call, monitor, outbox, recorded>>
    BY <1>3 DEF UserCancels, CancelRequest, UserVotes, Vote, UserWatches, Playback, Acquire,
                ProviderAnnounces, EpisodeAirs, RunPass, PassAborts, PassSkips
  <2>2. QED
    BY <1>a, <2>1
<1>4. CASE SyncStep \/ SyncFault \/ Notify \/ NotifyFault
  <2>1. UNCHANGED <<call, monitor, outbox, recorded>>
    BY <1>4 DEF SyncStep, SyncFault, Notify, NotifyFault
  <2>2. QED
    BY <1>a, <2>1
<1>5. CASE Generate
  <2>1. UNCHANGED <<call, monitor, outbox, recorded>>
    BY <1>5 DEF Generate, GenerateRead, GenerateReplace, GenerateFail, Prune
  <2>2. QED
    BY <1>a, <2>1
<1>6. CASE UNCHANGED vars
  BY <1>6, <1>a DEF vars
<1>7. CASE PluginFault
  <2>1. CASE LoseAnswer
    BY <2>1, NoCheckIsTyped DEF LoseAnswer, Resumes
  <2>2. ASSUME NEW k \in Keys, NEW act \in MarkActs, Mark(k, act) PROVE Serving
    BY <1>a, <2>2 DEF Mark
  <2>3. QED
    BY <1>7, <2>1, <2>2 DEF PluginFault
<1>8. ASSUME NEW h \in Handlers, SendQueued(h) PROVE \E a \in ActionRows : Delivers(h, a)
  BY <1>8, ActionsAreTyped DEF SendQueued, Delivers
<1>9. ASSUME NEW h \in Handlers, NEW r \in monitor.todo, SendMark(h, r)
      PROVE  \E a \in ActionRows : Delivers(h, a)
  <2> DEFINE a == MarkAction(r)
  <2>1. a \in ActionRows
    BY ActionsAreTyped
  <2>2. /\ Send(h, a) /\ monitor.pc = "scan" /\ UNCHANGED recorded
        /\ outbox' = outbox \/ outbox' = Append(outbox, a)
    BY <1>9 DEF SendMark, MarkAction
  <2> HIDE DEF a
  <2>3. QED
    BY <2>1, <2>2 DEF Delivers
<1>10. CASE BeginCheck(scenario.users)
  <2> DEFINE row == [NoCheck EXCEPT !.pc = "flush", !.queue = outbox, !.users = scenario.users]
  <2>1. row.pc = "flush"
    BY NoCheckIsTyped DEF CheckRows
  <2>2. monitor' = row /\ UNCHANGED <<outbox, recorded>>
    BY <1>10 DEF BeginCheck
  <2> HIDE DEF row
  <2>3. QED
    BY <2>1, <2>2 DEF Resumes
<1>11. CASE RefreshVirtual
  <2> DEFINE row == [monitor EXCEPT !.pc = "flush", !.listed = {}]
  <2>1. row.pc = "flush"
    BY DEF SystemTypes, PluginTypes, CheckRows
  <2>2. monitor' \in {NoCheck, row} /\ UNCHANGED <<outbox, recorded>>
    BY <1>11 DEF RefreshVirtual
  <2> HIDE DEF row
  <2>3. QED
    BY <2>1, <2>2, NoCheckIsTyped DEF Resumes
<1>12. ASSUME NEW u \in Users, NEW media \in {"movie", "series"}, ListActive(u, media)
       PROVE  Resumes
  <2> DEFINE listed == {[key |-> k, id |-> recs[k].id] : k \in Active(u, media)}
             todo == {r \in listed : r.key \in shown /\ mark[r.key] # ""}
             users == monitor.users \ {u}
             row == [monitor EXCEPT !.pc = "scan", !.users = users, !.user = u,
                         !.media = media, !.listed = listed, !.acted = FALSE, !.todo = todo]
  <2>1. monitor' = row /\ UNCHANGED <<outbox, recorded>>
    BY <1>12 DEF ListActive
  <2> HIDE DEF listed, todo, users
  <2>2. row.pc = "scan"
    BY DEF SystemTypes, PluginTypes, CheckRows
  <2> HIDE DEF row
  <2>3. QED
    BY <2>1, <2>2 DEF Resumes
<1>13. CASE Monitor
  BY <1>8, <1>9, <1>10, <1>11, <1>12, <1>13 DEF Monitor, MonitorStep
<1>14. QED
  BY <1>1, <1>2, <1>3, <1>4, <1>5, <1>6, <1>7, <1>13 DEF Next

LEMMA SentStarts == Init => SentInv
  BY NoCheckIsTyped DEF Init, SentInv

LEMMA SentStep == SystemTypes /\ SentInv /\ [Next]_vars => SentInv'
<1> SUFFICES ASSUME SystemTypes, SentInv, [Next]_vars PROVE SentInv'
  OBVIOUS
<1>0. call \in [Handlers -> CallRows] /\ monitor.queue \in Seq(ActionRows) /\ monitor \in CheckRows
  BY DEF SystemTypes, CallTypes, PluginTypes, CheckRows
<1>1. CASE Serving
  <2> SUFFICES ASSUME NEW m \in Handlers, monitor.pc = "sent", monitor.h = m PROVE SentFits(m)'
    BY <1>1 DEF SentInv, Serving
  <2>1. SentFits(m) /\ UNCHANGED monitor /\ recorded \subseteq recorded'
    BY <1>1 DEF SentInv, Serving
  <2>2. CASE call'[m] = call[m]
    BY <2>1, <2>2 DEF SentFits
  <2>3. CASE Handle(m)
    <3>1. /\ Serves(m) /\ call'[m].pc \notin {"idle", "force"} /\ call[m].act \in MarkActs
          /\ call'[m].pc = "ok" => call[m].aid \in recorded'
      BY <2>1, <2>3, HandlerDelivers DEF SentFits
    <3>2. QED
      BY <2>1, <3>1 DEF SentFits, Serves
  <2>4. CASE HandlerFails(m)
    <3>1. Serves(m) /\ call'[m].pc = "error"
      BY <1>0, <2>4, StepServes DEF HandlerFails, Fail, Answer
    <3>2. QED
      BY <2>1, <3>1 DEF SentFits, Serves
  <2>5. ASSUME NEW h \in Handlers, h # m,
               Handle(h) \/ HandlerFails(h) \/ Forget(h) \/ OthersRest(h)
        PROVE  call'[m] = call[m]
    <3>1. OthersRest(h)
      BY <2>5, HandlerServes, ReturnIdles DEF Handle, HandlerFails, Forget, Serves
    <3>2. QED
      BY <2>5, <3>1 DEF OthersRest
  <2>6. ~Forget(m)
    BY DEF Forget
  <2>7. QED
    BY <1>1, <2>1, <2>2, <2>3, <2>4, <2>5, <2>6 DEF Serving, SentFits
<1>2. CASE Resumes
  BY <1>2 DEF Resumes, SentInv
<1>3. CASE Answered
  <2> DEFINE queue == Tail(monitor.queue)
             row == [monitor EXCEPT !.queue = queue, !.pc = monitor.back]
  <2>1. monitor' = NoCheck \/ monitor' = row
    BY <1>3 DEF Answered
  <2> HIDE DEF queue
  <2>2. row.pc # "sent"
    BY <1>0 DEF CheckRows
  <2> HIDE DEF row
  <2>3. monitor'.pc # "sent"
    BY <2>1, <2>2, NoCheckIsTyped
  <2>4. QED
    BY <2>3 DEF SentInv
<1>4. ASSUME NEW h \in Handlers, NEW a \in ActionRows, Delivers(h, a) PROVE SentInv'
  <2>1. /\ monitor'.pc = "sent" /\ monitor'.h = h
        /\ monitor'.queue = (IF monitor.pc = "scan" THEN <<a>> ELSE monitor.queue)
    BY <1>4, Sends DEF Delivers
  <2>2. Head(<<a>>) = a
    OBVIOUS
  <2>3. Head(monitor'.queue) = a
    BY <1>4, <2>1, <2>2 DEF Delivers
  <2> SUFFICES SentFits(h)'
    BY <2>1 DEF SentInv
  <2>4. Send(h, a)
    BY <1>4 DEF Delivers
  <2>5. /\ call'[h].aid = a.aid
        /\ \/ call'[h].pc = "error"
           \/ call'[h].pc = (IF a.act = "request" THEN "told" ELSE "record") /\ call'[h].act = a.act
    BY <2>4, SendTakes
  <2>6. QED
    BY <2>3, <2>5, ActionsAreTyped DEF SentFits
<1>5. QED
  BY <1>1, <1>2, <1>3, <1>4, PluginSteps

(* What is in the outbox, and how that changes.                            *)
Pending == {outbox[i].aid : i \in DOMAIN outbox}

LEMMA DeliveryStep ==
  SystemTypes /\ SentInv /\ [Next]_vars => [Delivery!Next]_<<Pending, recorded>>
<1> SUFFICES ASSUME SystemTypes, SentInv, [Next]_vars
             PROVE  Delivery!Next \/ UNCHANGED <<Pending, recorded>>
  OBVIOUS
<1>0. outbox \in Seq(ActionRows)
  BY DEF SystemTypes, PluginTypes
<1>1. CASE Serving
  <2>1. Pending' = Pending /\ recorded \subseteq recorded'
    BY <1>1 DEF Serving, Pending
  <2>2. QED
    BY <2>1 DEF Delivery!Next, Delivery!Record, Pending
<1>2. CASE Resumes
  BY <1>2 DEF Resumes, Pending
<1>3. CASE Answered
  <2>1. CASE UNCHANGED outbox
    BY <1>3, <2>1 DEF Answered, Pending
  <2>2. CASE outbox' # outbox
    <3>1. PICK m \in Handlers : m = monitor.h
      BY DEF SystemTypes, PluginTypes, CheckRows
    <3>2. PICK aid : aid = Head(monitor.queue).aid
      OBVIOUS
    <3>3. outbox' = RemoveAll(outbox, aid) /\ call[m].pc = "ok" /\ monitor.pc = "sent"
          /\ UNCHANGED recorded
      BY <1>3, <2>2, <3>1, <3>2 DEF Answered, Without
    <3>4. aid \in recorded
      BY <3>1, <3>2, <3>3 DEF SentInv, SentFits
    <3>5. \A x : (\E i \in DOMAIN outbox' : outbox'[i] = x)
                 <=> (\E i \in DOMAIN outbox : outbox[i].aid # aid /\ outbox[i] = x)
      <4>1. /\ RemoveAll(outbox, aid) \in Seq(ActionRows)
            /\ \A x : (\E i \in DOMAIN RemoveAll(outbox, aid) : RemoveAll(outbox, aid)[i] = x)
                     <=> (\E i \in DOMAIN outbox : outbox[i].aid # aid /\ outbox[i] = x)
        BY <1>0, KeptEntries
      <4>2. QED
        BY <3>3, <4>1
    <3>6. Pending' = Pending \ {aid}
      BY <3>5 DEF Pending
    <3>7. QED
      BY <3>3, <3>4, <3>6 DEF Delivery!Next, Delivery!Complete, Pending
  <2>3. QED
    BY <2>1, <2>2
<1>4. ASSUME NEW h \in Handlers, NEW a \in ActionRows, Delivers(h, a)
      PROVE  Delivery!Next \/ UNCHANGED <<Pending, recorded>>
  <2>1. CASE UNCHANGED outbox
    BY <1>4, <2>1 DEF Delivers, Pending
  <2>2. CASE outbox' = Append(outbox, a)
    <3>1. {outbox'[i] : i \in DOMAIN outbox'} = {outbox[i] : i \in DOMAIN outbox} \cup {a}
      BY <1>0, <2>2, AppendedEntries
    <3>2. Pending \subseteq Pending' /\ UNCHANGED recorded
      BY <1>4, <3>1 DEF Pending, Delivers
    <3>3. QED
      BY <3>2 DEF Delivery!Next, Delivery!Enqueue, Pending
  <2>3. QED
    BY <1>4, <2>1, <2>2 DEF Delivers
<1>5. QED
  BY <1>1, <1>2, <1>3, <1>4, PluginSteps

LEMMA DeliveryStarts == Init => Delivery!Init
<1> SUFFICES ASSUME Init PROVE Delivery!Init
  OBVIOUS
<1>1. outbox = <<>> /\ recorded = {}
  BY DEF Init
<1>2. DOMAIN <<>> = {}
  OBVIOUS
<1>3. QED
  BY <1>1, <1>2 DEF Delivery!Init

(* An action stays in the plugin's outbox until Reelay has recorded it,    *)
(* whatever answers are lost and whatever else the handlers serve          *)
(* (Services/ActionMonitor.cs, Services/ActionOutbox.cs).          *)
THEOREM OutboxLosesNothing == Spec => OutboxKeepsActions
<1>1. SystemTypes /\ SentInv /\ [Next]_vars => [Delivery!Next]_<<Pending, recorded>>
  BY DeliveryStep
<1>2. QED
  BY <1>1, DeliveryStarts, SentStarts, SentStep, TypesInvariant, PTL
     DEF Spec, OutboxKeepsActions, Delivery!Spec, Pending
===============================================================================
