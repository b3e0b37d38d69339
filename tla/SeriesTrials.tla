----------------------------- MODULE SeriesTrials -----------------------------
(***************************************************************************)
(* The metadata pass that stores a series' episodes and decides which of   *)
(* them are wanted (engine/metadata_loop.go).  The engine's loop runs it,  *)
(* and so does a handler that changed what is monitored, so passes         *)
(* overlap: each works on the rows and the episode list it read at first.  *)
(***************************************************************************)
EXTENDS ActionApi

CONSTANTS
  Passes,     (* metadata passes that may overlap                         *)
  Old         (* episodes that aired before the series was added          *)

ASSUME OldAssumption == Old \subseteq Episodes

VARIABLES
  pass,       (* [Passes -> [pc, row, sel, limit, eps, begun, aired, ids, *)
              (* todo]]                                                   *)
  provider    (* [Episodes -> {"unknown", "announced", "begun", "aired"}]:*)
              (* begun is on air, aired is the configured grace later     *)

passVars == <<pass, provider>>

NoPass == [pc |-> "idle", row |-> NoRow, sel |-> {}, limit |-> 0,
           eps |-> {}, begun |-> {}, aired |-> {}, ids |-> {}, todo |-> {}]

(* The newest season with an episode on air; with none, the newest season. *)
LatestSeason(eps, begun) ==
  LET Newest(es) == Largest({Season[e] : e \in es}) IN
  IF Newest(begun) = 0 THEN Newest(eps) ELSE Newest(begun)

(* Whether the series' monitor wants an episode, past its air date.        *)
Monitors(p, e) ==
  /\ e \in p.aired
  /\ \/ p.row.mode = "all"
     \/ p.row.mode = "future_only" /\ e \notin Old
     \/ p.row.mode = "latest_season" /\ Season[e] = LatestSeason(p.eps, p.begun)

Wants(p, e) == Monitors(p, e) \/ (e \in p.aired /\ Season[e] \in p.sel)

(* A pass reads the followed series, then the seasons selected in requests *)
(* and then the limits of trials, each in a query of its own.              *)
ListSeries(p) ==
  /\ pass[p].pc = "idle" /\ series.status = "following"
  /\ pass' = [pass EXCEPT ![p] = [NoPass EXCEPT !.pc = "seasons", !.row = series]]
  /\ UNCHANGED <<tables, provider>>

ReadSeasons(p) ==
  /\ pass[p].pc = "seasons"
  /\ pass' = [pass EXCEPT ![p].pc = "limits", ![p].sel = selected]
  /\ UNCHANGED <<tables, provider>>

(* With nothing to look for the series is passed over.                     *)
ReadLimits(p) ==
  LET row == [pass[p] EXCEPT !.pc = "fetch", !.limit = TrialEpisodeLimit] IN
  /\ pass[p].pc = "limits"
  /\ pass' = [pass EXCEPT ![p] =
       IF row.row.mode = "none" /\ row.sel = {} /\ row.limit = 0 THEN NoPass ELSE row]
  /\ UNCHANGED <<tables, provider>>

FetchEpisodes(p) ==
  LET eps == {e \in Episodes : provider[e] # "unknown"} IN
  /\ pass[p].pc = "fetch"
  /\ pass' = [pass EXCEPT ![p].pc = IF pass[p].limit > 0 THEN "prepare" ELSE "store",
                ![p].eps = eps, ![p].todo = eps,
                ![p].begun = {e \in eps : provider[e] \in {"begun", "aired"}},
                ![p].aired = {e \in eps : provider[e] = "aired"}]
  /\ UNCHANGED <<tables, provider>>

(* For a trial every announced episode is stored first, one by one, so     *)
(* that the selection sees the whole series.                               *)
StoreAnnounced(p, e) ==
  /\ pass[p].pc = "prepare" /\ e \in pass[p].todo
  /\ episode' = [episode EXCEPT ![e] = IF @ = "missing" THEN "unmonitored" ELSE @]
  /\ pass' = [pass EXCEPT ![p].todo = @ \ {e}]
  /\ UNCHANGED <<recVars, movie, series, selected, requestVars, syncVars, provider>>

SelectEpisodes(p) ==
  /\ pass[p].pc = "prepare" /\ pass[p].todo = {}
  /\ PrepareTrials
  /\ pass' = [pass EXCEPT ![p].pc = "ids"]
  /\ UNCHANGED <<recVars, subjectVars, request, watched, syncVars, provider>>

ReadSelected(p) ==
  /\ pass[p].pc = "ids"
  /\ pass' = [pass EXCEPT ![p].pc = "store", ![p].ids = TrialEpisodeIDs,
                               ![p].todo = pass[p].eps]
  /\ UNCHANGED <<tables, provider>>

(* Mutant: every announced episode of a trial series is wanted. *)
StoreEpisode_All(p, e) ==
  /\ pass[p].pc = "store" /\ e \in pass[p].todo
  /\ episode' = [episode EXCEPT ![e] =
       IF @ \in {"missing", "unmonitored"} /\ (Wants(pass[p], e) \/ pass[p].limit > 0)
       THEN "wanted" ELSE @]
  /\ pass' = [pass EXCEPT ![p].todo = @ \ {e}]
  /\ UNCHANGED <<recVars, movie, series, selected, requestVars, syncVars, provider>>

(* Mutant: an episode that was stored before stays as it is. *)
StoreEpisode_New(p, e) ==
  /\ pass[p].pc = "store" /\ e \in pass[p].todo
  /\ episode' = [episode EXCEPT ![e] =
       IF @ # "missing" THEN @ ELSE IF Wants(pass[p], e) THEN "wanted" ELSE "unmonitored"]
  /\ pass' = [pass EXCEPT ![p].todo = @ \ {e}]
  /\ UNCHANGED <<recVars, movie, series, selected, requestVars, syncVars, provider>>

(* An episode is stored as wanted or unmonitored, and one that was stored  *)
(* unmonitored before becomes wanted once it has a reason to.              *)
StoreEpisode(p, e) ==
  LET c == pass[p] IN
  /\ c.pc = "store" /\ e \in c.todo
  /\ episode' = [episode EXCEPT ![e] =
       CASE @ = "missing" -> IF Wants(c, e) THEN "wanted" ELSE "unmonitored"
         [] @ = "unmonitored" /\ (Wants(c, e) \/ e \in c.ids \cap c.aired) -> "wanted"
         [] OTHER -> @]
  /\ pass' = [pass EXCEPT ![p].todo = @ \ {e}]
  /\ UNCHANGED <<recVars, movie, series, selected, requestVars, syncVars, provider>>

(* An episode that cannot be stored, or is leased, is left for later.      *)
SkipEpisode(p, e) ==
  /\ pass[p].pc = "store" /\ e \in pass[p].todo
  /\ pass' = [pass EXCEPT ![p].todo = @ \ {e}]
  /\ UNCHANGED <<tables, provider>>

FinishPass(p) ==
  /\ pass[p].pc = "store" /\ pass[p].todo = {}
  /\ pass' = [pass EXCEPT ![p] = NoPass]
  /\ UNCHANGED <<tables, provider>>

(* The provider or the database fails, or the process restarts.            *)
AbortPass(p) ==
  /\ pass[p].pc # "idle"
  /\ pass' = [pass EXCEPT ![p] = NoPass]
  /\ UNCHANGED <<tables, provider>>

Announce(e) ==
  /\ provider[e] = "unknown"
  /\ provider' = [provider EXCEPT ![e] = IF e \in Old THEN "aired" ELSE "announced"]
  /\ UNCHANGED <<tables, pass>>

Air(e) ==
  /\ provider[e] \in {"announced", "begun"}
  /\ provider' = [provider EXCEPT ![e] = IF @ = "announced" THEN "begun" ELSE "aired"]
  /\ UNCHANGED <<tables, pass>>

PassStep(p) ==
  \/ ListSeries(p) \/ ReadSeasons(p) \/ ReadLimits(p) \/ FetchEpisodes(p)
  \/ SelectEpisodes(p) \/ ReadSelected(p) \/ FinishPass(p)
  \/ \E e \in pass[p].todo : StoreAnnounced(p, e) \/ StoreEpisode(p, e)
===============================================================================
