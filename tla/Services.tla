-------------------------------- MODULE Services --------------------------------
(***************************************************************************)
(* The services around the pipeline that share no state with each other:   *)
(* one is chosen at the start, the others keep still.  Their properties    *)
(* and the fairness they rest on are stated here.                          *)
(***************************************************************************)
EXTENDS Indexers, ClientSession, DownloadControl, Landing, CollectionDelete,
        EngineLoops, Migrations, Backups, Scoring, ItemLocks

CONSTANT Chosen     (* the services a run looks at                         *)

VARIABLE service

vars == <<service, indexerVars, sessionVars, controlVars, landingVars, deleteVars,
          loopsVars, migrationsVars, backupsVars, scoringVars, locksVars>>

-------------------------------------------------------------------------------
(* A service that was not chosen stays in one of its initial states.       *)
Off(name, one) == service # name => one

Init ==
  /\ service \in Chosen
  /\ IndexerInit /\ Off("indexers", kind = CHOOSE k \in Kinds : TRUE)
  /\ LandingInit /\ Off("landing", layout = CHOOSE l \in Layouts : TRUE)
  /\ DeleteInit /\ Off("delete", video = {} /\ Rows = Episodes)
  /\ MigrationsInit /\ Off("migrations", applied = {})
  /\ ScoringInit
  /\ Off("scoring", want = (CHOOSE w \in Wants : TRUE) /\ profile = CHOOSE p \in Profiles : TRUE)
  /\ SessionInit /\ ControlInit /\ LoopsInit /\ BackupsInit /\ LocksInit

(* The others keep still.                                                  *)
Only(name) ==
  /\ service = name /\ UNCHANGED service
  /\ IF name = "indexers" THEN TRUE ELSE UNCHANGED indexerVars
  /\ IF name = "session" THEN TRUE ELSE UNCHANGED sessionVars
  /\ IF name = "control" THEN TRUE ELSE UNCHANGED controlVars
  /\ IF name = "landing" THEN TRUE ELSE UNCHANGED landingVars
  /\ IF name = "delete" THEN TRUE ELSE UNCHANGED deleteVars
  /\ IF name = "loops" THEN TRUE ELSE UNCHANGED loopsVars
  /\ IF name = "migrations" THEN TRUE ELSE UNCHANGED migrationsVars
  /\ IF name = "backups" THEN TRUE ELSE UNCHANGED backupsVars
  /\ IF name = "scoring" THEN TRUE ELSE UNCHANGED scoringVars
  /\ IF name = "locks" THEN TRUE ELSE UNCHANGED locksVars

Next ==
  \/ Only("indexers") /\ IndexerNext
  \/ Only("session") /\ SessionNext
  \/ Only("control") /\ ControlNext
  \/ Only("landing") /\ LandingNext
  \/ Only("delete") /\ DeleteNext
  \/ Only("loops") /\ LoopsNext
  \/ Only("migrations") /\ MigrationsNext
  \/ Only("backups") /\ BackupsNext
  \/ Only("scoring") /\ ScoringNext
  \/ Only("locks") /\ LocksNext

(* The search and the recent pass call the indexer again and again, calls  *)
(* end and time passes; a change of the downloads goes on and finished     *)
(* downloads are polled; imports go on; the engine's loop runs.      *)
Fairness ==
  /\ \A c \in {"search", "recent"} : WF_vars(Only("indexers") /\ Begin(c, "search"))
  /\ \A c \in Callers : WF_vars(Only("indexers") /\ Finish(c))
  /\ WF_vars(Only("indexers") /\ Tick)
  /\ WF_vars(Only("control") /\ ChangeStep)
  /\ \A t \in Torrents : WF_vars(Only("control") /\ PollImports(t))
  /\ WF_vars(Only("landing") /\ ImportStep)
  /\ WF_vars(Only("loops") /\ LoopStep)

Spec == Init /\ [][Next]_vars /\ Fairness

-------------------------------------------------------------------------------
(* Properties.  Most safety properties are those of the modules.           *)

(* Every variable of a service stays in its domain: a failure count in its *)
(* threshold, what is filed among the active items of an import.           *)
ServicesTypeOK ==
  /\ service \in Chosen
  /\ IndexerTypeOK /\ SessionTypeOK /\ ControlTypeOK /\ LandingTypeOK /\ DeleteTypeOK
  /\ LoopsTypeOK /\ MigrationsTypeOK /\ BackupsTypeOK /\ ScoringTypeOK /\ LocksTypeOK

(* An indexer that answers for good is used again and its failures are     *)
(* forgotten, however often the breaker opened and whoever hung up.        *)
IndexerRecovers ==
  <>[](service = "indexers" /\ answers) => []<>(service = "indexers" /\ Recovered)

(* Every download that completes is recorded as imported or failed in the  *)
(* end: neither a pause nor the rows a resume writes back keep it active   *)
(* for good, but for a row that a resume brings back after the import has  *)
(* failed.                                                                 *)
FinishedIsRecorded == <>[]FinishedRecorded

(* An import ends, however often the process dies over it, and completes   *)
(* if nothing but that went wrong and its files were not moved away.       *)
ImportCompletes == <>[](service = "landing" => ImportSettled)

(* Work that was stored and triggered is done without the timer's help,    *)
(* though triggers merge and browsers may not read, unless the engine      *)
(* stops.                                                                  *)
TriggeredWorkIsSeen == \A w \in Works : Due(w) ~> DoneOrStopped(w)

(* A file is replaced by a better one only.                                *)
UpgradesClimb == [][ImprovesOnImport]_scoringVars
===============================================================================
