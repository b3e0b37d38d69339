----------------------------- MODULE PipelineTypes -----------------------------
(***************************************************************************)
(* Type correctness of the pipeline, for any set of items, releases and    *)
(* workers and any bound.  One lemma per group of steps; every step of a   *)
(* group is a leaf of its own.                                             *)
(***************************************************************************)
EXTENDS Pipeline, TLAPS

LEMMA AnyItemType == AnyItem \in Items
  BY StoreAssumption DEF AnyItem

LEMMA UnusedRowType == UnusedRow \in GrabRow
<1>1. AnyRelease \in Releases
  BY StoreAssumption DEF AnyRelease
<1>2. QED
  BY <1>1, AnyItemType DEF UnusedRow, GrabRow, GrabState

LEMMA OneIsGrabId == 1 \in GrabIds
  BY StoreAssumption DEF GrabIds

LEMMA WorkerKinds ==
  /\ \A p \in Loops : p \in Workers
  /\ \A p \in Callers : p \in Workers
  /\ Status \in Workers
  BY WorkersAssumption

(* The fields of a row copy and of a written row.                          *)
LEMMA RowType ==
  ASSUME NEW r \in GrabRow, NEW st \in GrabState
  PROVE  /\ [r EXCEPT !.st = st] \in GrabRow
         /\ r.subject \in Items
         /\ r.release \in Releases
  BY DEF GrabRow

(* A transition to a state of the lifecycle.                               *)
LEMMA TransitionType ==
  ASSUME state \in [Items -> ItemState], NEW i \in Items, NEW to \in ItemState,
         Transition(i, to)
  PROVE  state' \in [Items -> ItemState]
  BY DEF Transition

LEMMA PackEpisodesType ==
  ASSUME NEW i \in Items, NEW r \in Releases
  PROVE  PackEpisodes(i, r) \in SUBSET Episodes
  BY DEF PackEpisodes

(* Leases after a release: each is as it was, or nobody's.                 *)
LEMMA ReleasedType ==
  ASSUME StoreTypeOK, NEW p \in Workers, Released(p)
  PROVE  lease' \in [Items -> Workers \cup {Free, Dead}]
<1>1. PICK gone \in SUBSET {i \in held[p] : Deletes(p, i) \/ lease[i] = Dead} :
        lease' = [i \in Items |-> IF i \in gone THEN Free
                                 ELSE IF i \in held[p] /\ lease[i] = p THEN Dead ELSE lease[i]]
  BY Zenon DEF Released
<1>2. QED
  BY <1>1 DEF StoreTypeOK

LEMMA FinishType ==
  ASSUME StoreTypeOK, AcquisitionTypeOK, NEW p \in Workers, Finish(p)
  PROVE  lease' \in [Items -> Workers \cup {Free, Dead}] /\ AcquisitionTypeOK'
<1>1. lease' \in [Items -> Workers \cup {Free, Dead}]
  BY ReleasedType DEF Finish
<1>2. AcquisitionTypeOK'
  BY AnyItemType DEF AcquisitionTypeOK, Finish, PC
<1>3. QED
  BY <1>1, <1>2

LEMMA RescheduleType ==
  ASSUME StoreTypeOK, AcquisitionTypeOK, NEW p \in Workers, Reschedule(p)
  PROVE  /\ state' \in [Items -> ItemState]
         /\ lease' \in [Items -> Workers \cup {Free, Dead}]
         /\ AcquisitionTypeOK'
<1>1. lease' \in [Items -> Workers \cup {Free, Dead}] /\ AcquisitionTypeOK'
  BY FinishType DEF Reschedule
<1>2. CASE UNCHANGED state
  BY <1>1, <1>2 DEF StoreTypeOK
<1>3. CASE \E terminal \in GivesUp(p) :
             state' = [state EXCEPT ![target[p]] = RescheduleTo(target[p], terminal)]
  <2>1. PICK terminal \in GivesUp(p) :
          state' = [state EXCEPT ![target[p]] = RescheduleTo(target[p], terminal)]
    BY <1>3
  <2>2. RescheduleTo(target[p], terminal) \in ItemState
    BY DEF RescheduleTo, ItemState
  <2>3. QED
    BY <1>1, <2>1, <2>2 DEF StoreTypeOK
<1>4. QED
  BY <1>2, <1>3 DEF Reschedule

(* The steps of the search loops (engine/search.go).                       *)
LEMMA LoopType ==
  ASSUME StoreTypeOK, AcquisitionTypeOK, NEW p \in Workers, LoopNext(p)
  PROVE  StoreTypeOK' /\ AcquisitionTypeOK'
<1> USE DEF storeVars, itemVars, grabVars, candVars, Goto
<1>1. CASE SearchBegin(p)
  BY <1>1 DEF SearchBegin, StoreTypeOK, AcquisitionTypeOK
<1>2. ASSUME NEW i \in Items, SearchBusy(p, i) PROVE StoreTypeOK' /\ AcquisitionTypeOK'
  BY <1>2 DEF SearchBusy, StoreTypeOK, AcquisitionTypeOK
<1>3. ASSUME NEW i \in Items, SearchLease(p, i) PROVE StoreTypeOK' /\ AcquisitionTypeOK'
  BY <1>3 DEF SearchLease, StoreTypeOK, AcquisitionTypeOK, PC
<1>10. CASE SearchCheck(p)
  BY <1>10 DEF SearchCheck, StoreTypeOK, AcquisitionTypeOK, PC
<1>11. CASE SearchSkip(p)
  BY <1>11, FinishType DEF SearchSkip, StoreTypeOK
<1>4. CASE SearchStart(p)
  <2>1. state' \in [Items -> ItemState]
    BY <1>4 DEF SearchStart, Transition, StoreTypeOK, AcquisitionTypeOK, ItemState
  <2>2. QED
    BY <1>4, <2>1 DEF SearchStart, StoreTypeOK, AcquisitionTypeOK, PC
<1>5. CASE SearchNotStarted(p)
  BY <1>5, FinishType DEF SearchNotStarted, StoreTypeOK
<1>6. CASE SearchEvaluate(p)
  <2> DEFINE i == target[p]
  <2>1. i \in Items
    BY DEF AcquisitionTypeOK
  <2>2. PICK r \in Releases :
          /\ pick' = [pick EXCEPT ![p] = r]
          /\ todo' = [todo EXCEPT ![p] = PackEpisodes(i, r) \cap known[p]]
    BY <1>6 DEF SearchEvaluate, Matching
  <2>3. /\ PackEpisodes(i, r) \cap known[p] \in SUBSET Episodes
        /\ Matching(i) \in SUBSET Releases
    BY <2>1, PackEpisodesType DEF Matching
  <2> HIDE DEF i
  <2>4. AcquisitionTypeOK'
    BY <1>6, <2>2, <2>3 DEF SearchEvaluate, AcquisitionTypeOK, PC
  <2>5. StoreTypeOK'
    BY <1>6, <2>3 DEF SearchEvaluate, StoreTypeOK, i
  <2>6. QED
    BY <2>4, <2>5
<1>7. CASE SearchNoRelease(p)
  BY <1>7, RescheduleType DEF SearchNoRelease, Reschedule, StoreTypeOK, AcquisitionTypeOK
<1>8. CASE SearchStoreError(p)
  BY <1>8, RescheduleType DEF SearchStoreError, Reschedule, StoreTypeOK
<1>9. QED
  BY <1>1, <1>2, <1>3, <1>4, <1>5, <1>6, <1>7, <1>8, <1>10, <1>11 DEF LoopNext

(* The steps of the stored-release grab (engine/manual.go).                *)
LEMMA GrabType ==
  ASSUME StoreTypeOK, AcquisitionTypeOK, NEW p \in Workers,
         \/ GrabNext(p)
         \/ \E i \in Items, r \in Releases : GrabCheck(p, i, r)
  PROVE  StoreTypeOK' /\ AcquisitionTypeOK'
<1> USE DEF storeVars, itemVars, grabVars, candVars, Goto
<1>1. ASSUME NEW i \in Items, NEW r \in Releases, GrabCheck(p, i, r)
      PROVE  StoreTypeOK' /\ AcquisitionTypeOK'
  BY <1>1 DEF GrabCheck, StoreTypeOK, AcquisitionTypeOK, PC
<1>2. CASE GrabRequest(p)
  <2>1. state' \in [Items -> ItemState]
    BY <1>2 DEF GrabRequest, Transition, StoreTypeOK, AcquisitionTypeOK, ItemState
  <2>2. QED
    BY <1>2, <2>1 DEF GrabRequest, StoreTypeOK, AcquisitionTypeOK, PC
<1>3. CASE GrabStart(p)
  <2>1. target[p] \in Items /\ pick[p] \in Releases
    BY <1>3 DEF AcquisitionTypeOK, GrabStart
  <2>2. state' \in [Items -> ItemState]
    BY <1>3, <2>1 DEF GrabStart, Transition, StoreTypeOK, ItemState
  <2>3. PackEpisodes(target[p], pick[p]) \in SUBSET Episodes
    BY <2>1, PackEpisodesType
  <2>4. AcquisitionTypeOK'
    BY <1>3, <2>1, <2>3 DEF GrabStart, AcquisitionTypeOK, PC
  <2>5. StoreTypeOK'
    BY <1>3, <2>1, <2>2 DEF GrabStart, StoreTypeOK
  <2>6. QED
    BY <2>4, <2>5
<1>4. CASE GrabRefused(p)
  BY <1>4, FinishType DEF GrabRefused, StoreTypeOK
<1>5. QED
  BY <1>1, <1>2, <1>3, <1>4 DEF GrabNext

LEMMA ClientTakesType ==
  ASSUME StoreTypeOK, NEW r, ClientTakes(r)
  PROVE  torrent' \in [Releases -> TorrentState]
  BY DEF ClientTakes, StoreTypeOK, TorrentState

LEMMA RemoveTorrentType ==
  ASSUME StoreTypeOK, NEW r, RemoveTorrent(r)
  PROVE  torrent' \in [Releases -> TorrentState]
  BY DEF RemoveTorrent, StoreTypeOK, TorrentState

(* From the pack leases to the row (CreateGrabbedFor).                     *)
LEMMA HandOffType ==
  ASSUME StoreTypeOK, AcquisitionTypeOK, NEW p \in Workers, HandOff(p)
  PROVE  StoreTypeOK' /\ AcquisitionTypeOK'
<1> USE DEF storeVars, itemVars, grabVars, candVars, Goto
<1>1. ASSUME NEW e \in Episodes, PackLock(p, e) PROVE StoreTypeOK' /\ AcquisitionTypeOK'
  <2>1. e \in Items /\ pick[p] \in Releases
    BY <1>1 DEF PackLock, Leasing, AcquisitionTypeOK, Items
  <2>2. AcquisitionTypeOK'
    BY <1>1, <2>1 DEF PackLock, AcquisitionTypeOK, PC
  <2>3. StoreTypeOK'
    BY <1>1, <2>1 DEF PackLock, StoreTypeOK
  <2>4. QED
    BY <2>2, <2>3
<1>2. ASSUME NEW e \in Episodes, PackBusy(p, e) PROVE StoreTypeOK' /\ AcquisitionTypeOK'
  BY <1>2, RescheduleType DEF PackBusy, Reschedule, StoreTypeOK
<1>3. CASE AddDownload(p)
  BY <1>3, ClientTakesType DEF AddDownload, StoreTypeOK, AcquisitionTypeOK, PC
<1>4. CASE AddRefused(p)
  <2>1. torrent' \in [Releases -> TorrentState]
    BY <1>4, ClientTakesType DEF AddRefused, StoreTypeOK
  <2>2. QED
    BY <1>4, <2>1, RescheduleType DEF AddRefused, Reschedule, StoreTypeOK
<1>5. CASE SearchAbandoned(p)
  <2>1. torrent' \in [Releases -> TorrentState]
    BY <1>5, ClientTakesType DEF SearchAbandoned, StoreTypeOK
  <2>2. QED
    BY <1>5, <2>1, FinishType DEF SearchAbandoned, StoreTypeOK
<1>6. CASE Record(p)
  <2>1. target[p] \in Items /\ pick[p] \in Releases
    BY <1>6 DEF AcquisitionTypeOK, Record
  <2>2. [st |-> "pending", subject |-> target[p], release |-> pick[p]] \in GrabRow
    BY <2>1 DEF GrabRow, GrabState
  <2>3. grabs \in Nat /\ grabs + 1 \in 0 .. MaxGrabs
    BY <1>6, StoreAssumption DEF Record, StoreTypeOK
  <2>4. /\ grab' \in [GrabIds -> GrabRow] /\ grabs' \in 0 .. MaxGrabs
        /\ state' \in [Items -> ItemState]
        /\ chosen' \in [Items -> Releases \cup {NoRelease}]
    BY <1>6, <2>1, <2>2, <2>3 DEF Record, CreateGrabbed, StoreTypeOK, ItemState
  <2>5. QED
    BY <1>6, <2>4, FinishType DEF Record, StoreTypeOK
<1>7. CASE RecordFails(p)
  <2>1. torrent' \in [Releases -> TorrentState]
    BY <1>7, RemoveTorrentType DEF RecordFails, StoreTypeOK
  <2>2. QED
    BY <1>7, <2>1, FinishType DEF RecordFails, StoreTypeOK
<1>8. ASSUME NEW e \in Episodes, PackRead(p, e) PROVE StoreTypeOK' /\ AcquisitionTypeOK'
  <2>1. todo' \in [Workers -> SUBSET Episodes]
    BY <1>8 DEF PackRead, AcquisitionTypeOK
  <2>2. pc' \in [Workers -> PC] /\ pick[p] \in Releases
    BY <1>8 DEF PackRead, AcquisitionTypeOK, PC
  <2>3. AcquisitionTypeOK'
    BY <1>8, <2>1, <2>2 DEF PackRead, AcquisitionTypeOK
  <2>4. StoreTypeOK'
    BY <1>8 DEF PackRead, StoreTypeOK
  <2>5. QED
    BY <2>3, <2>4
<1>9. QED
  BY <1>1, <1>2, <1>3, <1>4, <1>5, <1>6, <1>7, <1>8 DEF HandOff

-------------------------------------------------------------------------------
(* The status loop.                                                        *)

LEMMA CoveredNowType ==
  ASSUME NEW w \in GrabRow PROVE CoveredNow(w) \in SUBSET Items
  BY DEF CoveredNow, ActiveByRelease, GrabRow, Items

LEMMA RowCopyType == ASSUME StatusTypeOK PROVE row \in GrabRow /\ cur \in GrabIds
  BY DEF StatusTypeOK, row

(* A row written whole, and the loop going on to the next row.             *)
LEMMA UpdateGrabType ==
  ASSUME StoreTypeOK, NEW g, NEW w \in GrabRow, NEW st \in GrabState,
         UpdateGrab(g, [w EXCEPT !.st = st])
  PROVE  grab' \in [GrabIds -> GrabRow]
  BY RowType DEF UpdateGrab, StoreTypeOK

LEMMA NextGrabType ==
  ASSUME NextGrab
  PROVE  /\ spc' \in SPC /\ cur' \in GrabIds
         /\ items' \in SUBSET Items /\ fresh' \in SUBSET Items /\ left' \in SUBSET Items
  BY OneIsGrabId DEF NextGrab, SPC

(* Copies of rows, answers and items (StatusOnce).                         *)
LEMMA PollType ==
  ASSUME TypeOK, UNCHANGED <<deleteVars, envVars>>,
         StatusRead \/ StatusPoll \/ PollFails \/ StatusDone
  PROVE  TypeOK'
<1> USE DEF TypeOK, envVars, storeVars, jobVars, deleteVars, StoreTypeOK, AcquisitionTypeOK,
            QueueTypeOK
<1>1. CASE StatusRead
  <2>1. ActiveGrabs \in SUBSET GrabIds
    BY StoreAssumption DEF ActiveGrabs, GrabIds
  <2>2. rows' \in [GrabIds -> GrabRow]
    BY <1>1, UnusedRowType DEF StatusRead
  <2>3. QED
    BY <1>1, <2>1, <2>2 DEF StatusRead, StatusTypeOK, SPC, SGoto
<1>2. CASE StatusPoll
  BY <1>2 DEF StatusPoll, StatusTypeOK, SPC, SGoto
<1>3. CASE PollFails
  BY <1>3 DEF PollFails, StatusTypeOK, SPC, SGoto
<1>4. CASE StatusDone
  BY <1>4, UnusedRowType DEF StatusDone, StatusTypeOK, SPC, SGoto, TorrentState
<1>5. QED
  BY <1>1, <1>2, <1>3, <1>4

(* One row is looked at (updateGrabStatus, handleMissingTorrent).          *)
LEMMA VisitType ==
  ASSUME TypeOK, UNCHANGED <<deleteVars, envVars>>, NEW g \in GrabIds, VisitGrab(g)
  PROVE  TypeOK'
<1> USE DEF TypeOK, envVars, storeVars, itemVars, candVars, jobVars, deleteVars, StoreTypeOK,
            AcquisitionTypeOK, QueueTypeOK, Visit, SGoto
<1>1. rows[g] \in GrabRow /\ snap \ {g} \in SUBSET GrabIds
  BY DEF StatusTypeOK
<1>2. "downloading" \in GrabState /\ rows[g].subject \in Items
  BY <1>1, RowType DEF GrabState
<1>3. CoveredNow(rows[g]) \in SUBSET Items
  BY <1>1, CoveredNowType
<1>4. CASE WaitForMissing(g)
  BY <1>4, <1>1 DEF WaitForMissing, StatusTypeOK
<1>5. CASE NoteQueued(g)
  <2>1. grab' \in [GrabIds -> GrabRow]
    BY <1>5, <1>1, <1>2, UpdateGrabType DEF NoteQueued
  <2>2. QED
    BY <1>5, <1>1, <2>1 DEF NoteQueued, StatusTypeOK
<1>6. CASE NoteDownloading(g)
  <2>1. grab' \in [GrabIds -> GrabRow]
    BY <1>6, <1>1, <1>2, UpdateGrabType DEF NoteDownloading
  <2>2. left' \in SUBSET Items
    BY <1>6, <1>1, RowType DEF NoteDownloading, Items
  <2>3. QED
    BY <1>6, <1>1, <2>1, <2>2 DEF NoteDownloading, StatusTypeOK, SPC
<1>7. CASE NoteRefused(g)
  BY <1>7, <1>1 DEF NoteRefused, StatusTypeOK
<1>8. CASE BeginComplete(g)
  BY <1>8, <1>1, <1>3 DEF BeginComplete, StatusTypeOK, SPC
<1>9. CASE BeginFail(g)
  <2>1. torrent' \in [Releases -> TorrentState]
    BY <1>9, RemoveTorrentType DEF BeginFail
  <2>2. QED
    BY <1>9, <1>1, <1>2, <2>1 DEF BeginFail, StatusTypeOK, SPC
<1>10. CASE RemoveFails(g)
  BY <1>10, <1>1 DEF RemoveFails, StatusTypeOK
<1>11. CASE NotePaused(g)
  <2>1. grab' \in [GrabIds -> GrabRow]
    BY <1>11, <1>1 DEF NotePaused, UpdateGrab
  <2>2. QED
    BY <1>11, <1>1, <2>1 DEF NotePaused, StatusTypeOK
<1>12. QED
  BY <1>4, <1>5, <1>6, <1>7, <1>8, <1>9, <1>10, <1>11 DEF VisitGrab

LEMMA MovieReleasedType ==
  ASSUME StoreTypeOK, MovieReleased
  PROVE  lease' \in [Items -> Workers \cup {Free, Dead}]
  BY DEF MovieReleased, StoreTypeOK

LEMMA StillLeftType == ASSUME StatusTypeOK, NEW i PROVE left \ {i} \in SUBSET Items
  BY DEF StatusTypeOK

(* One item of a grab moves on (advanceGrabItems, completeGrab, failGrab). *)
LEMMA WorkItemType ==
  ASSUME TypeOK, UNCHANGED <<deleteVars, envVars>>, NEW i \in Items, WorkItem(i)
  PROVE  TypeOK'
<1> USE DEF TypeOK, envVars, storeVars, itemVars, candVars, grabVars, jobVars, deleteVars, StoreTypeOK,
            AcquisitionTypeOK, QueueTypeOK, StatusTypeOK
<1>1. left \ {i} \in SUBSET Items
  BY StillLeftType
<1>2. {"downloading", "importing", "imported", "import_failed", "wanted"} \subseteq ItemState
  BY DEF ItemState
<1>3. row.release \in Releases
  BY RowCopyType, RowType DEF GrabState
<1>4. CASE AdvanceItem(i)
  <2>1. state' \in [Items -> ItemState]
    BY <1>4, <1>2, TransitionType DEF AdvanceItem
  <2>2. QED
    BY <1>4, <1>1, <2>1 DEF AdvanceItem
<1>5. CASE CompleteItem(i)
  <2>1. state' \in [Items -> ItemState]
    BY <1>5, <1>2, TransitionType DEF CompleteItem, NextStage
  <2>2. left' \in SUBSET Items /\ fresh' \in SUBSET Items
    BY <1>5, <1>1 DEF CompleteItem
  <2>3. QED
    BY <1>5, <2>1, <2>2 DEF CompleteItem
<1>6. CASE ImportItem(i)
  <2>1. lease' \in [Items -> Workers \cup {Free, Dead}]
    BY <1>6, MovieReleasedType DEF ImportItem
  <2>2. QED
    BY <1>6, <1>1, <1>2, <2>1 DEF ImportItem, MarkImported
<1>7. CASE RejectItem(i)
  <2>1. state' \in [Items -> ItemState]
    BY <1>7, <1>2, TransitionType DEF RejectItem
  <2>2. QED
    BY <1>7, <1>1, <2>1 DEF RejectItem
<1>8. CASE FailItem(i)
  <2>1. state' \in [Items -> ItemState]
    BY <1>8, <1>2, TransitionType DEF FailItem
  <2>2. banned' \in [Items -> SUBSET Releases]
    BY <1>8, <1>3 DEF FailItem, Blacklist
  <2>3. QED
    BY <1>8, <1>1, <2>1, <2>2 DEF FailItem
<1>9. CASE FailItemAborts(i)
  <2>1. banned' \in [Items -> SUBSET Releases]
    BY <1>9, <1>3, SMTT(30) DEF FailItemAborts, Blacklist
  <2>2. QED
    BY <1>9, <2>1, NextGrabType DEF FailItemAborts
<1>10. QED
  BY <1>4, <1>5, <1>6, <1>7, <1>8, <1>9 DEF WorkItem

(* The status loop done with a pass over the items of a grab.              *)
LEMMA WorkGrabType ==
  ASSUME TypeOK, UNCHANGED <<deleteVars, envVars>>, WorkGrab
  PROVE  TypeOK'
<1> USE DEF TypeOK, envVars, storeVars, itemVars, candVars, grabVars, jobVars, deleteVars, StoreTypeOK,
            AcquisitionTypeOK, QueueTypeOK, SGoto
<1>1. row \in GrabRow /\ cur \in GrabIds
  BY RowCopyType
<1>2. CoveredNow(row) \in SUBSET Items /\ row.subject \in Items
  BY <1>1, CoveredNowType, RowType DEF GrabState
<1>3. {"importing", "imported", "failed", "stalled"} \subseteq GrabState
  BY DEF GrabState
<1>4. CASE AdvanceEnds
  BY <1>4, NextGrabType DEF AdvanceEnds, StatusTypeOK
<1>5. CASE CompleteAborts
  BY <1>5, NextGrabType DEF CompleteAborts, StatusTypeOK
<1>6. CASE CompleteAlready
  <2>1. grab' \in [GrabIds -> GrabRow]
    BY <1>6, <1>1, <1>3, UpdateGrabType DEF CompleteAlready, WriteRow
  <2>2. QED
    BY <1>6, <2>1, NextGrabType DEF CompleteAlready, StatusTypeOK
<1>7. CASE CompleteRow
  <2>1. grab' \in [GrabIds -> GrabRow]
    BY <1>7, <1>1, <1>3, UpdateGrabType DEF CompleteRow, WriteRow
  <2>2. QED
    BY <1>7, <2>1 DEF CompleteRow, StatusTypeOK, SPC
<1>8. CASE CompleteRowRefused
  BY <1>8, NextGrabType DEF CompleteRowRefused, StatusTypeOK
<1>9. CASE ImportBegin
  <2>1. lease' \in [Items -> Workers \cup {Free, Dead}]
    BY <1>9, WorkerKinds DEF ImportBegin
  <2>2. QED
    BY <1>9, <1>2, <2>1 DEF ImportBegin, StatusTypeOK, SPC
<1>10. CASE ImportFails
  <2>1. grab' \in [GrabIds -> GrabRow]
    BY <1>10, <1>1, <1>3, UpdateGrabType DEF ImportFails
  <2>2. lease' \in [Items -> Workers \cup {Free, Dead}]
    BY <1>10, MovieReleasedType DEF ImportFails
  <2>3. left' \in SUBSET Items
    BY <1>10 DEF ImportFails, StatusTypeOK
  <2>4. QED
    BY <1>10, <2>1, <2>2, <2>3 DEF ImportFails, StatusTypeOK, SPC
<1>11. CASE ImportDone
  <2>1. grab' \in [GrabIds -> GrabRow]
    BY <1>11, <1>1, <1>3, UpdateGrabType DEF ImportDone, WriteRow
  <2>2. QED
    BY <1>11, <2>1, NextGrabType DEF ImportDone, StatusTypeOK
<1>12. CASE RejectDone
  BY <1>12, NextGrabType DEF RejectDone, StatusTypeOK
<1>13. CASE MarkStalled
  <2>1. grab' \in [GrabIds -> GrabRow]
    BY <1>13, <1>1, <1>3, UpdateGrabType DEF MarkStalled
  <2>2. QED
    BY <1>13, <1>2, <2>1 DEF MarkStalled, StatusTypeOK
<1>14. CASE MarkStalledFails
  BY <1>14, NextGrabType DEF MarkStalledFails, StatusTypeOK
<1>15. CASE FailDone
  BY <1>15 DEF FailDone, StatusTypeOK, SPC
<1>16. CASE FallbackNone
  BY <1>16, NextGrabType DEF FallbackNone, StatusTypeOK
<1>17. CASE FallbackDone
  BY <1>17, NextGrabType DEF FallbackDone, StatusTypeOK
<1>18. QED
  BY <1>4, <1>5, <1>6, <1>7, <1>8, <1>9, <1>10, <1>11, <1>12, <1>13, <1>14, <1>15,
     <1>16, <1>17 DEF WorkGrab

LEMMA FallbackStartType ==
  ASSUME TypeOK, UNCHANGED <<deleteVars, envVars>>, NEW r \in Releases, FallbackStart(r)
  PROVE  TypeOK'
<1>1. Status \in Workers /\ row.subject \in Items
  BY WorkerKinds, RowCopyType, RowType DEF TypeOK, GrabState
<1>2. StoreTypeOK' /\ AcquisitionTypeOK'
  BY <1>1, GrabType DEF FallbackStart, TypeOK
<1>3. StatusTypeOK' /\ QueueTypeOK' /\ UNCHANGED envVars
  BY DEF FallbackStart, TypeOK, StatusTypeOK, QueueTypeOK, SGoto, SPC, deleteVars
<1>4. QED
  BY <1>2, <1>3 DEF TypeOK, envVars

(* The status loop (engine/status.go).                                     *)
LEMMA StatusType ==
  ASSUME TypeOK, StatusStep
  PROVE  TypeOK'
BY PollType, VisitType, WorkItemType, WorkGrabType, FallbackStartType DEF StatusStep, StatusNext

-------------------------------------------------------------------------------
(* The API, the client, the process.                                       *)

LEMMA QueueType ==
  ASSUME TypeOK, ApiStep
  PROVE  TypeOK'
<1> USE DEF TypeOK, envVars, storeVars, itemVars, candVars, grabVars, jobVars, statusVars, StoreTypeOK,
            AcquisitionTypeOK, QueueTypeOK, ApiStep
<1>1. StatusTypeOK' /\ UNCHANGED envVars
  BY DEF QueueNext, DeleteRead, DeleteRemove, DeleteMark, DeleteRetry, DeleteDone, DeleteFails,
         Unmonitor, RequestSearch, ManualGrab, StatusTypeOK
<1>2. ASSUME NEW g \in GrabIds, DeleteRead(g) PROVE TypeOK'
  <2>1. grab[g] \in GrabRow
    OBVIOUS
  <2>2. QED
    BY <1>1, <1>2, <2>1, CoveredNowType DEF DeleteRead, DPC
<1>3. CASE DeleteRemove
  <2>1. torrent' \in [Releases -> TorrentState]
    BY <1>3, RemoveTorrentType DEF DeleteRemove
  <2>2. QED
    BY <1>1, <1>3, <2>1 DEF DeleteRemove, DPC
<1>4. CASE DeleteMark
  <2>1. "removed" \in GrabState /\ drow.release \in Releases
    BY RowType DEF GrabState
  <2>2. grab' \in [GrabIds -> GrabRow]
    BY <1>4, <2>1, UpdateGrabType DEF DeleteMark
  <2>3. banned' \in [Items -> SUBSET Releases]
    BY <1>4, <2>1 DEF DeleteMark
  <2>4. QED
    BY <1>1, <1>4, <2>2, <2>3 DEF DeleteMark, DPC
<1>5. CASE DeleteDone
  BY <1>1, <1>5, OneIsGrabId, UnusedRowType DEF DeleteDone, Respond, DPC
<1>6. CASE DeleteFails
  BY <1>1, <1>6, OneIsGrabId, UnusedRowType DEF DeleteFails, Respond, DPC
<1>7. ASSUME NEW i \in Items, DeleteRetry(i) PROVE TypeOK'
  <2>1. state' \in [Items -> ItemState]
    BY <1>7, TransitionType DEF DeleteRetry, ItemState
  <2>2. QED
    BY <1>1, <1>7, <2>1 DEF DeleteRetry
<1>8. ASSUME NEW i \in Items, RequestSearch(i) PROVE TypeOK'
  <2>1. state' \in [Items -> ItemState]
    BY <1>8, TransitionType DEF RequestSearch, ItemState
  <2>2. QED
    BY <1>1, <1>8, <2>1 DEF RequestSearch, deleteVars
<1>9. ASSUME NEW e \in Episodes, Unmonitor(e) PROVE TypeOK'
  <2>1. state' \in [Items -> ItemState]
    BY <1>9, TransitionType DEF Unmonitor, ItemState, Items
  <2>2. QED
    BY <1>1, <1>9, <2>1 DEF Unmonitor, deleteVars
<1>10. ASSUME NEW p \in Callers, NEW i \in Items, NEW r \in Releases, ManualGrab(p, i, r)
       PROVE  TypeOK'
  <2>1. StoreTypeOK' /\ AcquisitionTypeOK'
    BY <1>10, GrabType, WorkerKinds DEF ManualGrab
  <2>2. QED
    BY <1>1, <1>10, <2>1 DEF ManualGrab, deleteVars
<1>11. QED
  BY <1>2, <1>3, <1>4, <1>5, <1>6, <1>7, <1>8, <1>9, <1>10 DEF QueueNext

LEMMA EnvironmentType ==
  ASSUME TypeOK,
         \/ \E r \in Releases : TorrentMove(r)
         \/ Crash
         \/ \E i \in Items : LeaseExpires(i) \/ RowStays(i)
  PROVE  TypeOK'
<1> USE DEF TypeOK, envVars, storeVars, itemVars, candVars, grabVars, jobVars, statusVars, deleteVars,
            StoreTypeOK, AcquisitionTypeOK, StatusTypeOK, QueueTypeOK
<1>1. ASSUME NEW r \in Releases, TorrentMove(r) PROVE TypeOK'
  BY <1>1, PipelineAssumption DEF TorrentMove, TransferStep
<1>2. CASE Crash
  <2>1. StoreTypeOK' /\ crashes' \in 0 .. MaxCrashes /\ overrun' \in SUBSET Items
    BY <1>2, PipelineAssumption DEF Crash
  <2>2. AcquisitionTypeOK'
    BY <1>2, AnyItemType DEF Crash, PC
  <2>3. StatusTypeOK'
    BY <1>2, OneIsGrabId, UnusedRowType DEF Crash, SPC, TorrentState
  <2>4. QueueTypeOK'
    BY <1>2, OneIsGrabId, UnusedRowType DEF Crash, DPC
  <2>5. QED
    BY <2>1, <2>2, <2>3, <2>4
<1>3. ASSUME NEW i \in Items, LeaseExpires(i) PROVE TypeOK'
  BY <1>3 DEF LeaseExpires
<1>4. ASSUME NEW i \in Items, RowStays(i) PROVE TypeOK'
  BY <1>4 DEF RowStays
<1>5. QED
  BY <1>1, <1>2, <1>3, <1>4

-------------------------------------------------------------------------------
LEMMA InitType == Init => TypeOK
<1> USE DEF Init, TypeOK
<1>1. Init => StoreTypeOK
  <2> SUFFICES ASSUME StoreInit PROVE StoreTypeOK
    OBVIOUS
  <2>1. state \in [Items -> ItemState]
    BY StoreAssumption DEF StoreInit, ItemState
  <2>2. filed \in [Items -> BOOLEAN]
    BY DEF StoreInit
  <2>3. 0 \in 0 .. MaxGrabs
    BY StoreAssumption
  <2>4. QED
    BY <2>1, <2>2, <2>3, UnusedRowType DEF StoreInit, StoreTypeOK, TorrentState
<1>2. Init => AcquisitionTypeOK
  BY AnyItemType DEF AcquisitionInit, AcquisitionTypeOK, PC
<1>3. Init => StatusTypeOK
  BY UnusedRowType, OneIsGrabId DEF StatusInit, StatusTypeOK, SPC, TorrentState
<1>4. Init => QueueTypeOK
  BY UnusedRowType, OneIsGrabId DEF QueueInit, QueueTypeOK, DPC
<1>5. QED
  BY <1>1, <1>2, <1>3, <1>4, PipelineAssumption

LEMMA NextType == TypeOK /\ [Next]_vars => TypeOK'
<1> SUFFICES ASSUME TypeOK, [Next]_vars PROVE TypeOK'
  OBVIOUS
<1>1. ASSUME NEW p \in Loops, LoopStep(p) PROVE TypeOK'
  <2>1. StoreTypeOK' /\ AcquisitionTypeOK'
    BY <1>1, WorkerKinds, LoopType, HandOffType DEF LoopStep, TypeOK
  <2>2. QED
    BY <1>1, <2>1 DEF LoopStep, TypeOK, StatusTypeOK, QueueTypeOK, statusVars, deleteVars, envVars
<1>2. ASSUME NEW p \in Callers, CallerStep(p) PROVE TypeOK'
  <2>1. StoreTypeOK' /\ AcquisitionTypeOK'
    BY <1>2, WorkerKinds, GrabType, HandOffType DEF CallerStep, TypeOK
  <2>2. QED
    BY <1>2, <2>1 DEF CallerStep, TypeOK, StatusTypeOK, QueueTypeOK, statusVars, deleteVars, envVars
<1>3. CASE UNCHANGED vars
  BY <1>3 DEF vars, storeVars, jobVars, statusVars, deleteVars, envVars, TypeOK, StoreTypeOK,
              AcquisitionTypeOK, StatusTypeOK, QueueTypeOK
<1>4. QED
  BY <1>1, <1>2, <1>3, StatusType, QueueType, EnvironmentType DEF Next

(* Whatever the workers, the API, the client and the failures do in any    *)
(* order, every table and every goroutine holds a value of its type: no    *)
(* step writes an edge, a row state or an id the model has no place for.   *)
THEOREM TypeCorrect == Spec => []TypeOK
<1>1. Init => TypeOK
  BY InitType
<1>2. TypeOK /\ [Next]_vars => TypeOK'
  BY NextType
<1>3. QED
  BY <1>1, <1>2, PTL DEF Spec
===============================================================================
