---------------------------- MODULE PipelineProofs ----------------------------
(***************************************************************************)
(* Invariants of the pipeline, for any set of items, releases and workers  *)
(* and any bound: nobody moves an item while a worker searches for it      *)
(* under a lease that lasts, no lease and no torrent is forgotten, a       *)
(* search result does not lead to more failed grabs than allowed, and an   *)
(* item keeps the grab it waits for unless the status loop leaves it.      *)
(*                                                                         *)
(* Most steps disturb the lease invariant in one of a few ways, so each    *)
(* way is a lemma; a step is then a matter of showing which way is its.    *)
(***************************************************************************)
EXTENDS PipelineTypes, FiniteSetTheorems

-------------------------------------------------------------------------------
(* The ways a step touches leases.                                         *)

LEMMA LeaseFacts ==
  ASSUME TypeOK
  PROVE  /\ lease \in [Items -> Workers \cup {Free, Dead}]
         /\ held \in [Workers -> SUBSET Items]
         /\ target \in [Workers -> Items]
         /\ pc \in [Workers -> PC]
         /\ todo \in [Workers -> SUBSET Episodes]
         /\ state \in [Items -> ItemState]
         /\ Free \notin Workers /\ Dead \notin Workers /\ Free # Dead
         /\ \A p \in Workers : \A i \in held[p] : i \in Items
  BY StoreAssumption DEF TypeOK, StoreTypeOK, AcquisitionTypeOK

(* Letting go of everything touches the rows of items that were held, and  *)
(* no row of anybody else unless a lease on that item had run out.         *)
LEMMA ReleasedLeases ==
  ASSUME TypeOK, HeldIsLeased, NEW p \in Workers, Released(p)
  PROVE  \A i \in Items :
           /\ i \notin held[p] => lease'[i] = lease[i]
           /\ lease'[i] \in {lease[i], Free, Dead}
           /\ i \in held[p] => lease'[i] # p
           /\ lease'[i] # lease[i] => lease[i] = p \/ i \in overrun
           /\ lease'[i] = Dead => lease[i] = Dead \/ "store" \in Faults
<1>1. PICK gone \in SUBSET {i \in held[p] : Deletes(p, i) \/ lease[i] = Dead} :
        /\ "store" \in Faults \/ \A i \in held[p] : Deletes(p, i) => i \in gone
        /\ lease' = [i \in Items |-> IF i \in gone THEN Free
                        ELSE IF i \in held[p] /\ lease[i] = p THEN Dead ELSE lease[i]]
  BY Zenon DEF Released
<1> SUFFICES ASSUME NEW i \in Items
             PROVE  /\ i \notin held[p] => lease'[i] = lease[i]
                    /\ lease'[i] \in {lease[i], Free, Dead}
                    /\ i \in held[p] => lease'[i] # p
                    /\ lease'[i] # lease[i] => lease[i] = p \/ i \in overrun
                    /\ lease'[i] = Dead => lease[i] = Dead \/ "store" \in Faults
  OBVIOUS
<1>2. lease'[i] = IF i \in gone THEN Free
                  ELSE IF i \in held[p] /\ lease[i] = p THEN Dead ELSE lease[i]
  BY <1>1
<1>3. gone \subseteq held[p] /\ (i \in held[p] => lease[i] = p \/ i \in overrun)
  BY <1>1 DEF HeldIsLeased
<1>4. i \in held[p] /\ lease[i] = p => i \in gone \/ "store" \in Faults
  BY <1>1 DEF Deletes
<1>5. QED
  BY <1>2, <1>3, <1>4, LeaseFacts

(* A worker lets go of everything: only items it held have moved.          *)
LEMMA FinishKeeps ==
  ASSUME TypeOK, LeaseInv, NEW p \in Workers, Finish(p), pc[p] # "idle",
         UNCHANGED <<statusVars, envVars>>,
         \A i \in Items : i \notin held[p] => state'[i] = state[i]
  PROVE  LeaseInv'
<1>1. /\ \A q \in Workers : q # p => /\ held'[q] = held[q] /\ pc'[q] = pc[q]
                                     /\ target'[q] = target[q]
      /\ held'[p] = {} /\ pc'[p] = "idle"
  BY LeaseFacts DEF Finish
<1>2. overrun' = overrun /\ crashes' = crashes
  BY DEF envVars
<1>3. \A i \in Items :
        /\ i \notin held[p] => lease'[i] = lease[i]
        /\ lease'[i] \in {lease[i], Free, Dead}
        /\ i \in held[p] => lease'[i] # p
        /\ lease'[i] # lease[i] => lease[i] = p \/ i \in overrun
        /\ lease'[i] = Dead => lease[i] = Dead \/ "store" \in Faults
  BY ReleasedLeases DEF Finish, LeaseInv
<1>4. HeldIsLeased'
  BY <1>1, <1>2, <1>3, LeaseFacts DEF LeaseInv, HeldIsLeased
<1>5. BusyHoldsTarget'
  <2> SUFFICES ASSUME NEW q \in Workers, q # p
               PROVE  /\ pc[q] \in {"leased", "checked", "searching", "pack", "lease", "record"} =>
                           target[q] \in held[q]
                      /\ pc[q] \in {"searching", "pack", "lease", "record"}
                           /\ target[q] \notin overrun => state'[target[q]] = "searching"
                      /\ pc[q] \in {"idle", "request", "acquire"} => held[q] = {}
    BY <1>1, <1>2 DEF BusyHoldsTarget
  <2>1. target[q] \in held[q] /\ target[q] \notin overrun => target[q] \notin held[p]
    BY DEF LeaseInv, HeldIsLeased
  <2>2. QED
    BY <2>1, LeaseFacts DEF LeaseInv, BusyHoldsTarget
<1>6. ImportLease' /\ LeaseNamesHolder' /\ RowsOfNobody'
  <2>1. Status \in Workers /\ row \in GrabRow /\ row.subject \in Items
    BY WorkerKinds, RowCopyType, RowType DEF TypeOK, GrabState
  <2>2. spc = "filing" => held[Status] = {} /\ (p # Status)
    BY <2>1 DEF LeaseInv, ImportLease, BusyHoldsTarget
  <2>3. ImportLease'
    BY <1>1, <1>2, <1>3, <2>1, <2>2, LeaseFacts
    DEF LeaseInv, ImportLease, MovieImport, row, statusVars
  <2>4. LeaseNamesHolder'
    BY <1>1, <1>3, <2>1, <2>2, LeaseFacts
    DEF LeaseInv, LeaseNamesHolder, MovieImport, row, statusVars
  <2>5. RowsOfNobody'
    BY <1>2, <1>3 DEF LeaseInv, RowsOfNobody
  <2>6. QED
    BY <2>3, <2>4, <2>5
<1>7. QED
  BY <1>4, <1>5, <1>6 DEF LeaseInv

(* A worker that is neither done nor starting over takes a free lease,     *)
(* moves on, or moves an item it holds.                                    *)
LEMMA WorkKeeps ==
  ASSUME TypeOK, LeaseInv, NEW p \in Workers, NEW taken \in SUBSET Items,
         UNCHANGED <<statusVars, envVars>>, p = Status => spc = "grabbing",
         \A i \in taken : lease[i] = Free,
         lease' = [i \in Items |-> IF i \in taken THEN p ELSE lease[i]],
         held' = [held EXCEPT ![p] = @ \cup taken],
         \A q \in Workers : q # p => pc'[q] = pc[q] /\ target'[q] = target[q],
         \A i \in Items : state'[i] # state[i] => lease[i] = Free \/ i \in held[p],
         pc'[p] \in {"leased", "checked", "searching", "pack", "lease", "record"} =>
           target'[p] \in held'[p],
         pc'[p] \in {"searching", "pack", "lease", "record"} /\ target'[p] \notin overrun =>
           state'[target'[p]] = "searching",
         pc'[p] \in {"idle", "request", "acquire"} => held'[p] = {}
  PROVE  LeaseInv'
<1>1. /\ \A q \in Workers : q # p => held'[q] = held[q]
      /\ held'[p] = held[p] \cup taken
      /\ overrun' = overrun /\ crashes' = crashes
  BY LeaseFacts DEF envVars
<1>2. HeldIsLeased'
  BY <1>1, LeaseFacts DEF LeaseInv, HeldIsLeased
<1>3. BusyHoldsTarget'
  <2>1. \A q \in Workers, i \in Items :
          q # p /\ i \in held[q] /\ i \notin overrun => state'[i] = state[i]
    BY LeaseFacts DEF LeaseInv, HeldIsLeased
  <2>2. QED
    BY <1>1, <2>1, LeaseFacts DEF LeaseInv, BusyHoldsTarget
<1>4. Status \in Workers /\ row.subject \in Items
  BY WorkerKinds, RowCopyType, RowType DEF TypeOK, GrabState
<1>5. ImportLease'
  BY <1>1, <1>4, LeaseFacts DEF LeaseInv, ImportLease, MovieImport, row, statusVars
<1>6. LeaseNamesHolder' /\ RowsOfNobody'
  BY <1>1, <1>4, LeaseFacts
  DEF LeaseInv, LeaseNamesHolder, RowsOfNobody, MovieImport, row, statusVars
<1>7. QED
  BY <1>2, <1>3, <1>5, <1>6 DEF LeaseInv

LEMMA MoveOnKeeps ==
  ASSUME TypeOK, LeaseInv, NEW p \in Workers, UNCHANGED <<statusVars, envVars, lease, held>>,
         p = Status => spc = "grabbing",
         \A q \in Workers : q # p => pc'[q] = pc[q] /\ target'[q] = target[q],
         \A i \in Items : state'[i] # state[i] => lease[i] = Free \/ i \in held[p],
         pc'[p] \in {"leased", "checked", "searching", "pack", "lease", "record"} =>
           target'[p] \in held[p],
         pc'[p] \in {"searching", "pack", "lease", "record"} /\ target'[p] \notin overrun =>
           state'[target'[p]] = "searching",
         pc'[p] \in {"idle", "request", "acquire"} => held[p] = {}
  PROVE  LeaseInv'
<1> DEFINE none == {}
<1>1. held' = [held EXCEPT ![p] = @ \cup none]
  <2>1. held[p] \cup {} = held[p]
    OBVIOUS
  <2>2. held = [held EXCEPT ![p] = held[p]]
    BY LeaseFacts
  <2>3. QED
    BY <2>1, <2>2
<1>2. lease' = [i \in Items |-> IF i \in none THEN p ELSE lease[i]]
  BY LeaseFacts
<1>3. none \in SUBSET Items /\ (\A i \in none : lease[i] = Free) /\ held' = held
  OBVIOUS
<1> HIDE DEF none
<1>4. QED
  BY <1>1, <1>2, <1>3, WorkKeeps

(* Nobody's lease changes, and only free items move.                       *)
LEMMA BystanderKeeps ==
  ASSUME TypeOK, LeaseInv, UNCHANGED <<jobVars, lease, envVars>>,
         \A i \in Items : state'[i] # state[i] => lease[i] = Free,
         \/ UNCHANGED statusVars
         \/ /\ spc # "filing" /\ spc' # "filing"
            /\ spc' # "grabbing" => pc[Status] = "idle"
  PROVE  LeaseInv'
<1>1. HeldIsLeased' /\ BusyHoldsTarget' /\ RowsOfNobody'
  BY LeaseFacts DEF LeaseInv, HeldIsLeased, BusyHoldsTarget, RowsOfNobody, jobVars, envVars
<1>2. ImportLease'
  BY DEF LeaseInv, ImportLease, MovieImport, row, statusVars, jobVars, envVars
<1>3. LeaseNamesHolder'
  BY DEF LeaseInv, LeaseNamesHolder, MovieImport, row, statusVars, jobVars
<1>4. QED
  BY <1>1, <1>2, <1>3 DEF LeaseInv

-------------------------------------------------------------------------------
(* The lease invariant, step by step.                                      *)

(* No step but the importer's and a search's own moves a leased item.      *)
LEMMA TransitionMoves ==
  ASSUME TypeOK, NEW i \in Items, NEW to, Transition(i, to)
  PROVE  /\ \A j \in Items : j # i => state'[j] = state[j]
         /\ state'[i] = to
  BY LeaseFacts DEF Transition

(* Rescheduling writes the target alone, and only from searching.          *)
LEMMA RescheduleMoves ==
  ASSUME TypeOK, NEW p \in Workers, Reschedule(p)
  PROVE  \A i \in Items :
           state'[i] # state[i] =>
             /\ i = target[p] /\ state[i] = "searching"
             /\ state'[i] \in {"wanted", "imported", "failed"}
             /\ state'[i] = "imported" => filed[i]
             /\ state'[i] # "imported" => ~filed[i]
<1>1. target[p] \in Items
  BY LeaseFacts
<1>2. CASE state' = state
  BY <1>2
<1>3. ASSUME state[target[p]] = "searching",
             NEW terminal \in GivesUp(p),
             state' = [state EXCEPT ![target[p]] = RescheduleTo(target[p], terminal)]
      PROVE  \A i \in Items :
           state'[i] # state[i] =>
             /\ i = target[p] /\ state[i] = "searching"
             /\ state'[i] \in {"wanted", "imported", "failed"}
             /\ state'[i] = "imported" => filed[i]
             /\ state'[i] # "imported" => ~filed[i]
  BY <1>1, <1>3, LeaseFacts DEF RescheduleTo
<1>4. QED
  BY <1>2, <1>3 DEF Reschedule

LEMMA RescheduleKeeps ==
  ASSUME TypeOK, LeaseInv, NEW p \in Workers, Reschedule(p), pc[p] \in {"searching", "pack", "lease"},
         UNCHANGED <<statusVars, envVars>>
  PROVE  LeaseInv'
<1>1. target[p] \in held[p]
  BY DEF LeaseInv, BusyHoldsTarget
<1>2. \A i \in Items : i \notin held[p] => state'[i] = state[i]
  BY <1>1, RescheduleMoves
<1>3. QED
  BY <1>2, FinishKeeps DEF Reschedule

LEMMA LoopLeases ==
  ASSUME TypeOK, LeaseInv, NEW p \in Loops, LoopNext(p), UNCHANGED <<statusVars, envVars>>
  PROVE  LeaseInv'
<1> USE DEF storeVars, itemVars, Goto
<1>1. p \in Workers /\ p # Status
  BY WorkersAssumption
<1>2. CASE SearchBegin(p) \/ \E i \in Items : SearchBusy(p, i)
  <2>1. UNCHANGED <<state, lease, held, pc, target>>
    BY <1>2 DEF SearchBegin, SearchBusy
  <2>2. QED
    BY <2>1 DEF LeaseInv, HeldIsLeased, BusyHoldsTarget, ImportLease, LeaseNamesHolder,
                RowsOfNobody, MovieImport, row, statusVars, envVars
<1>3. ASSUME NEW i \in Items, SearchLease(p, i) PROVE LeaseInv'
  <2> DEFINE taken == {i}
  <2>1. held[p] = {} /\ lease[i] = Free
    BY <1>1, <1>3 DEF SearchLease, LeaseInv, BusyHoldsTarget
  <2>2. /\ lease' = [j \in Items |-> IF j \in taken THEN p ELSE lease[j]]
        /\ held' = [held EXCEPT ![p] = @ \cup taken]
        /\ \A q \in Workers : q # p => pc'[q] = pc[q] /\ target'[q] = target[q]
        /\ pc'[p] = "leased" /\ target'[p] \in held'[p]
        /\ state' = state
    BY <1>1, <1>3, <2>1, LeaseFacts DEF SearchLease
  <2>3. QED
    BY <1>1, <2>1, <2>2, WorkKeeps
<1>9. CASE SearchCheck(p)
  <2>1. target[p] \in held[p] /\ target[p] \in Items
    BY <1>1, <1>9, LeaseFacts DEF SearchCheck, LeaseInv, BusyHoldsTarget
  <2>2. /\ lease' = lease /\ held' = held /\ state' = state
        /\ \A q \in Workers : q # p => pc'[q] = pc[q] /\ target'[q] = target[q]
        /\ pc'[p] = "checked" /\ target'[p] = target[p]
    BY <1>1, <1>9, LeaseFacts DEF SearchCheck
  <2>3. QED
    BY <1>1, <2>1, <2>2, MoveOnKeeps
<1>10. CASE SearchSkip(p)
  BY <1>1, <1>10, FinishKeeps DEF SearchSkip
<1>4. CASE SearchStart(p)
  <2>1. target[p] \in held[p] /\ target[p] \in Items
    BY <1>1, <1>4, LeaseFacts DEF SearchStart, LeaseInv, BusyHoldsTarget
  <2>2. \A i \in Items : state'[i] # state[i] => i \in held[p]
    BY <1>4, <2>1, TransitionMoves DEF SearchStart
  <2>3. /\ lease' = lease /\ held' = held
        /\ \A q \in Workers : q # p => pc'[q] = pc[q] /\ target'[q] = target[q]
        /\ pc'[p] = "searching" /\ target'[p] = target[p]
        /\ state'[target[p]] = "searching"
    BY <1>1, <1>4, <2>1, LeaseFacts, TransitionMoves DEF SearchStart
  <2>4. QED
    BY <1>1, <2>1, <2>2, <2>3, MoveOnKeeps
<1>5. CASE SearchNotStarted(p)
  BY <1>1, <1>5, FinishKeeps DEF SearchNotStarted
<1>6. CASE SearchEvaluate(p)
  <2>1. /\ target[p] \in held[p]
        /\ target[p] \notin overrun => state[target[p]] = "searching"
    BY <1>1, <1>6 DEF SearchEvaluate, LeaseInv, BusyHoldsTarget
  <2>2. /\ lease' = lease /\ held' = held /\ state' = state
        /\ \A q \in Workers : q # p => pc'[q] = pc[q] /\ target'[q] = target[q]
        /\ pc'[p] = "pack" /\ target'[p] = target[p]
    BY <1>1, <1>6, LeaseFacts DEF SearchEvaluate
  <2>3. QED
    BY <1>1, <2>1, <2>2, MoveOnKeeps
<1>7. CASE SearchNoRelease(p) \/ SearchStoreError(p)
  BY <1>1, <1>7, RescheduleKeeps DEF SearchNoRelease, SearchStoreError
<1>8. QED
  BY <1>2, <1>3, <1>4, <1>5, <1>6, <1>7, <1>9, <1>10 DEF LoopNext

(* A caller that may take a step: the status loop only inside a fallback.  *)
LEMMA GrabLeases ==
  ASSUME TypeOK, LeaseInv, NEW p \in Callers, GrabNext(p), UNCHANGED <<statusVars, envVars>>
  PROVE  LeaseInv'
<1> USE DEF storeVars, itemVars, Goto
<1>1. p \in Workers
  BY WorkerKinds
<1>2. pc[p] # "idle" /\ (p = Status => spc = "grabbing")
  BY DEF GrabNext, GrabRequest, GrabStart, GrabRefused, LeaseInv, ImportLease
<1>3. CASE GrabRequest(p)
  <2>1. target[p] \in Items /\ lease[target[p]] = Free /\ held[p] = {}
    BY <1>1, <1>3, LeaseFacts
    DEF GrabRequest, CanRequestSearch, CanTransition, LeaseInv, BusyHoldsTarget
  <2>2. \A i \in Items : state'[i] # state[i] => lease[i] = Free
    BY <1>3, <2>1, TransitionMoves DEF GrabRequest
  <2>3. /\ lease' = lease /\ held' = held
        /\ \A q \in Workers : q # p => pc'[q] = pc[q] /\ target'[q] = target[q]
        /\ pc'[p] = "acquire"
    BY <1>1, <1>3, <2>1, LeaseFacts DEF GrabRequest
  <2>4. QED
    BY <1>1, <1>2, <2>1, <2>2, <2>3, MoveOnKeeps
<1>4. CASE GrabStart(p)
  <2> DEFINE taken == {target[p]}
  <2>1. target[p] \in Items /\ lease[target[p]] = Free /\ held[p] = {}
    BY <1>1, <1>4, LeaseFacts DEF GrabStart, CanTransition, LeaseInv, BusyHoldsTarget
  <2>2. /\ \A i \in Items : state'[i] # state[i] => lease[i] = Free
        /\ state'[target[p]] = "searching"
    BY <1>4, <2>1, TransitionMoves DEF GrabStart
  <2>3. /\ lease' = [j \in Items |-> IF j \in taken THEN p ELSE lease[j]]
        /\ held' = [held EXCEPT ![p] = @ \cup taken]
        /\ \A q \in Workers : q # p => pc'[q] = pc[q] /\ target'[q] = target[q]
        /\ pc'[p] = "pack" /\ target'[p] = target[p] /\ target[p] \in held'[p]
    BY <1>1, <1>4, <2>1, LeaseFacts DEF GrabStart
  <2>4. taken \in SUBSET Items /\ \A i \in taken : lease[i] = Free
    BY <2>1
  <2>5. /\ target'[p] \in held'[p] /\ state'[target'[p]] = "searching"
        /\ pc'[p] \notin {"idle", "request", "acquire"}
    BY <2>2, <2>3
  <2> HIDE DEF taken
  <2>6. QED
    BY <1>1, <1>2, <2>2, <2>3, <2>4, <2>5, WorkKeeps
<1>5. CASE GrabRefused(p)
  BY <1>1, <1>2, <1>5, FinishKeeps DEF GrabRefused
<1>6. QED
  BY <1>3, <1>4, <1>5 DEF GrabNext

LEMMA HandOffLeases ==
  ASSUME TypeOK, LeaseInv, NEW p \in Workers, HandOff(p), UNCHANGED <<statusVars, envVars>>
  PROVE  LeaseInv'
<1> USE DEF storeVars, itemVars, Goto
<1>1. /\ pc[p] \in {"searching", "pack", "lease", "record"}
      /\ p = Status => spc = "grabbing"
      /\ target[p] \in held[p]
      /\ target[p] \notin overrun => state[target[p]] = "searching"
  BY DEF HandOff, PackRead, PackLock, Leasing, PackBusy, AddDownload, AddRefused,
         SearchAbandoned, Record, RecordFails, LeaseInv, ImportLease, BusyHoldsTarget
<1>2. ASSUME NEW e \in Episodes, PackLock(p, e) PROVE LeaseInv'
  <2> DEFINE taken == {e}
  <2>1. e \in Items /\ lease[e] = Free
    BY <1>2 DEF PackLock, Items
  <2>2. /\ lease' = [j \in Items |-> IF j \in taken THEN p ELSE lease[j]]
        /\ held' = [held EXCEPT ![p] = @ \cup taken]
        /\ \A q \in Workers : q # p => pc'[q] = pc[q]
        /\ pc'[p] = "pack" /\ target' = target /\ state' = state
        /\ target[p] \in held'[p]
    BY <1>1, <1>2, <2>1, LeaseFacts DEF PackLock
  <2>3. QED
    BY <1>1, <2>1, <2>2, WorkKeeps
<1>3. ASSUME NEW e \in Episodes, PackBusy(p, e) PROVE LeaseInv'
  BY <1>3, RescheduleKeeps DEF PackBusy
<1>4. CASE AddDownload(p)
  <2>1. /\ lease' = lease /\ held' = held /\ state' = state
        /\ \A q \in Workers : q # p => pc'[q] = pc[q] /\ target'[q] = target[q]
        /\ pc'[p] = "record" /\ target'[p] = target[p]
    BY <1>4, LeaseFacts DEF AddDownload
  <2>2. QED
    BY <1>1, <2>1, MoveOnKeeps
<1>5. CASE AddRefused(p)
  BY <1>5, RescheduleKeeps DEF AddRefused
<1>6. CASE SearchAbandoned(p) \/ RecordFails(p)
  BY <1>1, <1>6, FinishKeeps DEF SearchAbandoned, RecordFails
<1>7. CASE Record(p)
  <2>1. \A i \in Items : i \notin held[p] => state'[i] = state[i]
    BY <1>1, <1>7 DEF Record, CreateGrabbed
  <2>2. QED
    BY <1>1, <1>7, <2>1, FinishKeeps DEF Record
<1>8. ASSUME NEW e \in Episodes, PackRead(p, e) PROVE LeaseInv'
  <2>1. /\ lease' = lease /\ held' = held /\ state' = state
        /\ \A q \in Workers : q # p => pc'[q] = pc[q] /\ target'[q] = target[q]
        /\ pc'[p] \in {"pack", "lease"} /\ target'[p] = target[p]
    BY <1>8, LeaseFacts DEF PackRead
  <2>2. QED
    BY <1>1, <2>1, MoveOnKeeps
<1>9. QED
  BY <1>2, <1>3, <1>4, <1>5, <1>6, <1>7, <1>8 DEF HandOff

(* The status loop starts a fallback: from here it is a caller.            *)
LEMMA FallbackLeases ==
  ASSUME TypeOK, LeaseInv, NEW r \in Releases, FallbackStart(r), UNCHANGED envVars
  PROVE  LeaseInv'
<1> USE DEF storeVars, Goto, SGoto
<1>1. Status \in Workers
  BY WorkerKinds
<1>2. /\ pc[Status] = "idle" /\ spc = "fallback" /\ spc' = "grabbing" /\ held[Status] = {}
      /\ UNCHANGED <<lease, held, state>>
      /\ pc' = [pc EXCEPT ![Status] = "request"]
      /\ \A q \in Workers : q # Status => pc'[q] = pc[q] /\ target'[q] = target[q]
  BY <1>1, LeaseFacts DEF FallbackStart, GrabCheck, LeaseInv, BusyHoldsTarget, itemVars
<1>3. HeldIsLeased' /\ RowsOfNobody'
  BY <1>2 DEF LeaseInv, HeldIsLeased, RowsOfNobody, envVars
<1>4. BusyHoldsTarget'
  BY <1>1, <1>2, LeaseFacts DEF LeaseInv, BusyHoldsTarget, envVars
<1>5. ImportLease' /\ LeaseNamesHolder'
  BY <1>2 DEF LeaseInv, ImportLease, LeaseNamesHolder
<1>6. QED
  BY <1>3, <1>4, <1>5 DEF LeaseInv

(* The importer's lease on a movie: taken, used up, given back.            *)
LEMMA ImportLeases ==
  ASSUME TypeOK, LeaseInv, UNCHANGED envVars,
         \/ ImportBegin \/ ImportFails \/ ImportDone
         \/ \E i \in Items : ImportItem(i)
  PROVE  LeaseInv'
<1> USE DEF storeVars, itemVars, grabVars, candVars, SGoto, MovieImport
<1>1. /\ Status \in Workers /\ row \in GrabRow /\ row.subject \in Items
      /\ left \in SUBSET Items
  BY WorkerKinds, RowCopyType, RowType DEF TypeOK, StatusTypeOK, GrabState
<1>2. UNCHANGED jobVars /\ spc \in {"importing", "filing"} /\ pc[Status] = "idle"
      /\ held[Status] = {} /\ overrun' = overrun /\ crashes' = crashes
  BY <1>1 DEF ImportBegin, ImportFails, ImportDone, ImportItem, LeaseInv, ImportLease,
              BusyHoldsTarget, envVars
<1>3. CASE ImportBegin
  <2>1. /\ spc' = "filing" /\ row' = row /\ state' = state
        /\ \A i \in Items : lease'[i] = IF row.subject \in Movies /\ i = row.subject
                                        THEN Status ELSE lease[i]
        /\ row.subject \in Movies =>
             left' = {row.subject} /\ lease[row.subject] = Free
    BY <1>1, <1>3, LeaseFacts DEF ImportBegin, ImportReady, CoveredNow, row
  <2>2. HeldIsLeased' /\ BusyHoldsTarget' /\ RowsOfNobody'
    BY <1>1, <1>2, <2>1, LeaseFacts
    DEF LeaseInv, HeldIsLeased, BusyHoldsTarget, RowsOfNobody, jobVars
  <2>3. ImportLease'
    BY <1>1, <1>2, <2>1 DEF ImportLease, jobVars
  <2>4. LeaseNamesHolder'
    BY <1>1, <1>2, <1>3, <2>1, LeaseFacts
    DEF LeaseInv, LeaseNamesHolder, jobVars, ImportBegin
  <2>5. QED
    BY <2>2, <2>3, <2>4 DEF LeaseInv
<1>4. ASSUME NEW i \in Items, ImportItem(i) PROVE LeaseInv'
  <2>1. /\ spc = "filing" /\ spc' = "filing" /\ row' = row
        /\ i \in left /\ left' = left \ {i}
        /\ \A j \in Items \ {i} : state'[j] = state[j]
    BY <1>4, LeaseFacts DEF ImportItem, MarkImported, First, row
  <2>2. CASE row.subject \in Movies
    <3>1. i = row.subject /\ (lease[i] = Status \/ i \in overrun)
      BY <2>1, <2>2 DEF LeaseInv, ImportLease
    <3>2. /\ \A j \in Items \ {i} : lease'[j] = lease[j]
          /\ lease'[i] \in {lease[i], Free, Dead} \ {Status}
          /\ lease'[i] # lease[i] => lease[i] = Status
          /\ lease'[i] = Dead => lease[i] = Dead \/ "store" \in Faults
      <4>1. PICK to \in IF lease[i] # Status THEN {lease[i]}
                        ELSE IF "store" \in Faults THEN {Free, Dead} ELSE {Free} :
              lease' = [lease EXCEPT ![i] = to]
        BY <1>4, <2>2, <3>1 DEF ImportItem, MovieReleased
      <4>2. QED
        BY <1>1, <4>1, LeaseFacts
    <3>3. \A q \in Workers : i \in held[q] => i \in overrun
      BY <1>1, <1>2, <3>1 DEF LeaseInv, HeldIsLeased
    <3>4. HeldIsLeased' /\ BusyHoldsTarget' /\ RowsOfNobody'
      BY <1>2, <2>1, <3>2, <3>3, LeaseFacts
      DEF LeaseInv, HeldIsLeased, BusyHoldsTarget, RowsOfNobody, jobVars
    <3>5. ImportLease'
      BY <1>1, <1>2, <2>1, <3>1 DEF LeaseInv, ImportLease, jobVars
    <3>6. LeaseNamesHolder'
      BY <1>1, <1>2, <2>1, <3>1, <3>2, LeaseFacts DEF LeaseInv, LeaseNamesHolder, jobVars
    <3>7. QED
      BY <3>4, <3>5, <3>6 DEF LeaseInv
  <2>3. CASE row.subject \notin Movies
    <3>1. lease' = lease /\ lease[i] = Free
      BY <1>4, <2>3 DEF ImportItem, Markable
    <3>2. \A q \in Workers : i \in held[q] => i \in overrun
      BY <3>1, LeaseFacts DEF LeaseInv, HeldIsLeased
    <3>3. HeldIsLeased' /\ BusyHoldsTarget' /\ RowsOfNobody'
      BY <1>2, <2>1, <3>1, <3>2, LeaseFacts
      DEF LeaseInv, HeldIsLeased, BusyHoldsTarget, RowsOfNobody, jobVars
    <3>4. ImportLease' /\ LeaseNamesHolder'
      BY <1>1, <1>2, <2>1, <2>3, <3>1 DEF LeaseInv, ImportLease, LeaseNamesHolder, jobVars
    <3>5. QED
      BY <3>3, <3>4 DEF LeaseInv
  <2>4. QED
    BY <2>2, <2>3
<1>5. CASE ImportFails \/ ImportDone
  <2> DEFINE lets == spc = "filing" /\ row.subject \in Movies /\ left # {}
  <2>1. /\ spc' # "filing" /\ spc' # "grabbing" /\ state' = state
        /\ lets => ImportFails /\ MovieReleased
        /\ ~lets => lease' = lease
    BY <1>5 DEF ImportFails, ImportDone, NextGrab
  <2>2. /\ \A i \in Items :
             lease'[i] # lease[i] => lets /\ i = row.subject /\ lease[i] = Status
        /\ lets => lease'[row.subject] # Status
        /\ \A i \in Items : lease'[i] \in {lease[i], Free, Dead}
        /\ \A i \in Items : lease'[i] = Dead => lease[i] = Dead \/ "store" \in Faults
    <3>1. CASE lets
      <4>1. PICK to \in IF lease[row.subject] # Status THEN {lease[row.subject]}
                        ELSE IF "store" \in Faults THEN {Free, Dead} ELSE {Free} :
              lease' = [lease EXCEPT ![row.subject] = to]
        BY <2>1, <3>1 DEF MovieReleased
      <4>2. QED
        BY <1>1, <3>1, <4>1, LeaseFacts
    <3>2. QED
      BY <2>1, <3>1
  <2>3. HeldIsLeased' /\ BusyHoldsTarget' /\ RowsOfNobody'
    <3>1. \A q \in Workers : \A i \in held[q] : lease[i] = Status => i \in overrun
      BY <1>2 DEF LeaseInv, HeldIsLeased
    <3>2. QED
      BY <1>2, <2>1, <2>2, <3>1, LeaseFacts
      DEF LeaseInv, HeldIsLeased, BusyHoldsTarget, RowsOfNobody, jobVars
  <2>4. ImportLease'
    BY <1>2, <2>1 DEF ImportLease, jobVars
  <2>5. LeaseNamesHolder'
    BY <1>1, <1>2, <2>1, <2>2, LeaseFacts DEF LeaseInv, LeaseNamesHolder, jobVars
  <2>6. QED
    BY <2>3, <2>4, <2>5 DEF LeaseInv
<1>6. QED
  BY <1>3, <1>4, <1>5

(* The rest of the status loop moves free items only.                      *)
LEMMA StatusLeases ==
  ASSUME TypeOK, LeaseInv, StatusNext, UNCHANGED envVars
  PROVE  LeaseInv'
<1> USE DEF storeVars, itemVars, grabVars, candVars, SGoto, NextGrab, Visit
<1>1. CASE StatusRead \/ StatusPoll \/ PollFails \/ StatusDone
  <2>1. UNCHANGED <<jobVars, lease, state>> /\ spc \notin {"filing", "grabbing"} /\ spc' # "filing"
    BY <1>1 DEF StatusRead, StatusPoll, PollFails, StatusDone
  <2>2. QED
    BY <2>1, BystanderKeeps DEF LeaseInv, ImportLease
<1>2. ASSUME NEW g \in GrabIds, VisitGrab(g) PROVE LeaseInv'
  <2>1. UNCHANGED <<jobVars, lease, state>> /\ spc = "visiting" /\ spc' # "filing"
    BY <1>2 DEF VisitGrab, WaitForMissing, NotePaused, NoteQueued, NoteDownloading, NoteRefused,
                BeginComplete, BeginFail, RemoveFails
  <2>2. QED
    BY <2>1, BystanderKeeps DEF LeaseInv, ImportLease
<1>3. ASSUME NEW i \in Items, WorkItem(i), ~ImportItem(i) PROVE LeaseInv'
  <2>1. UNCHANGED <<jobVars, lease>> /\ spc \notin {"filing", "grabbing"} /\ spc' # "filing"
    BY <1>3 DEF WorkItem, AdvanceItem, CompleteItem, RejectItem, FailItem, FailItemAborts
  <2>2. \/ state' = state
        \/ lease[i] = Free /\ \E to : Transition(i, to)
    BY <1>3 DEF WorkItem, AdvanceItem, CompleteItem, RejectItem, FailItem, FailItemAborts,
                CanTransition
  <2>3. \A j \in Items : state'[j] # state[j] => lease[j] = Free
    BY <2>2, TransitionMoves
  <2>4. QED
    BY <2>1, <2>3, BystanderKeeps DEF LeaseInv, ImportLease
<1>4. CASE WorkGrab /\ ~(ImportBegin \/ ImportFails \/ ImportDone)
  <2>1. /\ UNCHANGED <<jobVars, lease, state>> /\ spc # "filing" /\ spc' # "filing"
        /\ spc = "grabbing" => pc[Status] = "idle"
    BY <1>4 DEF WorkGrab, AdvanceEnds, CompleteAborts, CompleteAlready, CompleteRow,
                CompleteRowRefused, RejectDone, MarkStalled, MarkStalledFails, FailDone,
                FallbackNone, FallbackDone
  <2>2. QED
    BY <2>1, BystanderKeeps DEF LeaseInv, ImportLease
<1>5. QED
  BY <1>1, <1>2, <1>3, <1>4, ImportLeases, FallbackLeases DEF StatusNext, WorkItem

LEMMA QueueLeases ==
  ASSUME TypeOK, LeaseInv, QueueNext, UNCHANGED envVars
  PROVE  LeaseInv'
<1> USE DEF storeVars, itemVars, grabVars, candVars, Goto
<1>1. CASE \/ DeleteRemove \/ DeleteMark \/ DeleteDone \/ DeleteFails
           \/ \E g \in GrabIds : DeleteRead(g)
  <2>1. UNCHANGED <<jobVars, statusVars, lease, state>>
    BY <1>1 DEF DeleteRead, DeleteRemove, DeleteMark, DeleteDone, DeleteFails
  <2>2. QED
    BY <2>1, BystanderKeeps
<1>2. ASSUME NEW i \in Items,
             DeleteRetry(i) \/ RequestSearch(i) \/ (i \in Episodes /\ Unmonitor(i))
      PROVE  LeaseInv'
  <2>1. UNCHANGED <<jobVars, statusVars, lease>> /\ lease[i] = Free /\ \E to : Transition(i, to)
    BY <1>2 DEF DeleteRetry, RequestSearch, Unmonitor, CanRetryNow, CanRequestSearch,
                CanTransition
  <2>2. \A j \in Items : state'[j] # state[j] => lease[j] = Free
    BY <2>1, TransitionMoves
  <2>3. QED
    BY <2>1, <2>2, BystanderKeeps
<1>3. ASSUME NEW p \in Callers, NEW i \in Items, NEW r \in Releases, ManualGrab(p, i, r)
      PROVE  LeaseInv'
  <2>1. p \in Workers /\ p # Status /\ held[p] = {}
    BY <1>3, WorkerKinds DEF ManualGrab, GrabCheck, LeaseInv, BusyHoldsTarget
  <2>2. /\ UNCHANGED <<statusVars, lease, held, state>>
        /\ pc'[p] = "request"
        /\ \A q \in Workers : q # p => pc'[q] = pc[q] /\ target'[q] = target[q]
    BY <1>3, <2>1, LeaseFacts DEF ManualGrab, GrabCheck
  <2>3. QED
    BY <2>1, <2>2, MoveOnKeeps
<1>4. QED
  BY <1>1, <1>2, <1>3 DEF QueueNext, Items

LEMMA EnvironmentLeases ==
  ASSUME TypeOK, LeaseInv,
         \/ \E r \in Releases : TorrentMove(r)
         \/ Crash
         \/ \E i \in Items : LeaseExpires(i) \/ RowStays(i)
  PROVE  LeaseInv'
<1> USE DEF storeVars, itemVars, LeaseInv, HeldIsLeased, BusyHoldsTarget, ImportLease,
            LeaseNamesHolder, RowsOfNobody, MovieImport, row, jobVars, statusVars, envVars
<1>1. ASSUME NEW r \in Releases, TorrentMove(r) PROVE LeaseInv'
  BY <1>1 DEF TorrentMove
<1>2. CASE Crash
  <2>1. crashes' > 0
    BY <1>2 DEF Crash, TypeOK
  <2>2. QED
    BY <1>2, <2>1, LeaseFacts, WorkerKinds DEF Crash
<1>3. ASSUME NEW i \in Items, LeaseExpires(i) \/ RowStays(i) PROVE LeaseInv'
  <2>1. Status \in Workers /\ row.subject \in Items
    BY WorkerKinds, RowCopyType, RowType DEF TypeOK, GrabState
  <2>2. /\ UNCHANGED <<state, jobVars, statusVars, crashes>>
        /\ \A j \in Items : j # i => lease'[j] = lease[j]
        /\ overrun \subseteq overrun'
        /\ lease'[i] = Free \/ (lease'[i] = Dead /\ "store" \in Faults)
        /\ lease[i] \in Workers => i \in overrun'
    BY <1>3, LeaseFacts DEF LeaseExpires, RowStays
  <2>3. QED
    BY <2>1, <2>2, LeaseFacts
<1>4. QED
  BY <1>1, <1>2, <1>3

LEMMA InitLeases == Init => LeaseInv
  BY WorkerKinds, StoreAssumption
  DEF Init, StoreInit, AcquisitionInit, StatusInit, LeaseInv, HeldIsLeased, BusyHoldsTarget,
      ImportLease, LeaseNamesHolder, RowsOfNobody

LEMMA NextLeases == TypeOK /\ LeaseInv /\ [Next]_vars => LeaseInv'
<1> SUFFICES ASSUME TypeOK, LeaseInv, [Next]_vars PROVE LeaseInv'
  OBVIOUS
<1>1. ASSUME NEW p \in Loops, LoopStep(p) PROVE LeaseInv'
  BY <1>1, WorkerKinds, LoopLeases, HandOffLeases DEF LoopStep
<1>2. ASSUME NEW p \in Callers, CallerStep(p) PROVE LeaseInv'
  BY <1>2, WorkerKinds, GrabLeases, HandOffLeases DEF CallerStep
<1>3. CASE StatusStep
  BY <1>3, StatusLeases DEF StatusStep
<1>4. CASE ApiStep
  BY <1>4, QueueLeases DEF ApiStep
<1>5. CASE UNCHANGED vars
  BY <1>5 DEF vars, storeVars, jobVars, statusVars, envVars, LeaseInv, HeldIsLeased,
              BusyHoldsTarget, ImportLease, LeaseNamesHolder, RowsOfNobody, MovieImport, row
<1>6. QED
  BY <1>1, <1>2, <1>3, <1>4, <1>5, EnvironmentLeases DEF Next

(* Who holds which lease, in every reachable state: the strengthening the  *)
(* next two theorems rest on.                                              *)
THEOREM LeasesInvariant == Spec => []LeaseInv
<1>1. Init => LeaseInv
  BY InitLeases
<1>2. TypeOK /\ LeaseInv /\ [Next]_vars => LeaseInv'
  BY NextLeases
<1>3. QED
  BY <1>1, <1>2, TypeCorrect, PTL DEF Spec

(* However many loops, manual grabs, imports, removals and crashes meet,   *)
(* and whatever rows others fail to delete or delete under a shared owner, *)
(* an item a worker searches for, hands over or records stays leased by    *)
(* that worker and in searching (processSearchTarget, grabStoredRelease),  *)
(* as long as nobody who held a lease on that item has outlasted it.       *)
THEOREM SearchKeepsItem == Spec => []SearchOwnsItem
<1>1. TypeOK /\ LeaseInv => SearchOwnsItem
  BY DEF LeaseInv, HeldIsLeased, BusyHoldsTarget, SearchOwnsItem
<1>2. QED
  BY <1>1, TypeCorrect, LeasesInvariant, PTL

(* No early return of any worker forgets a lease: whoever the lease table  *)
(* names still holds it.  A row nobody will release takes a DELETE that    *)
(* failed or a process that died.                                          *)
THEOREM NoLeaseForgotten == Spec => []LeasesAccounted
<1>1. LeaseInv => LeasesAccounted
  BY DEF LeaseInv, LeaseNamesHolder, RowsOfNobody, LeasesAccounted
<1>2. QED
  BY <1>1, LeasesInvariant, PTL

-------------------------------------------------------------------------------
(* One live grab per item, as the index has it: what the bound on          *)
(* fallbacks counts on.                                                    *)

LEMMA WriteKeepsOne ==
  ASSUME TypeOK, OneActiveGrabPerSubject, NEW g \in GrabIds, NEW w \in GrabRow,
         NEW st \in GrabState, UpdateGrab(g, [w EXCEPT !.st = st]), grabs' = grabs,
         st \notin ActiveGrab \/ IndexAllows(g, [w EXCEPT !.st = st])
  PROVE  OneActiveGrabPerSubject'
<1>1. grab \in [GrabIds -> GrabRow] /\ grabs \in 0 .. MaxGrabs
  BY DEF TypeOK, StoreTypeOK
<1>2. [w EXCEPT !.st = st].st = st /\ [w EXCEPT !.st = st].subject = w.subject
  BY DEF GrabRow
<1>3. \A h \in 1 .. grabs : h \in GrabIds
  BY <1>1, StoreAssumption DEF GrabIds
<1>4. \A h \in 1 .. grabs : grab'[h] = IF h = g THEN [w EXCEPT !.st = st] ELSE grab[h]
  BY <1>1, <1>3 DEF UpdateGrab
<1>5. \A h \in ActiveGrabs' : h \in ActiveGrabs \/ h = g
  BY <1>4 DEF ActiveGrabs
<1>6. g \in ActiveGrabs' =>
        \A h \in ActiveGrabs \ {g} : grab[h].subject # w.subject
  BY <1>2, <1>4 DEF ActiveGrabs, IndexAllows
<1>7. \A h \in ActiveGrabs' : grab'[h].subject = IF h = g THEN w.subject ELSE grab[h].subject
  BY <1>2, <1>4 DEF ActiveGrabs
<1>8. QED
  BY <1>5, <1>6, <1>7 DEF OneActiveGrabPerSubject

(* A copy that is written back as it is.                                    *)
LEMMA CopyBack ==
  ASSUME NEW w \in GrabRow
  PROVE  [w EXCEPT !.st = w.st] = w /\ w.st \in GrabState
  BY DEF GrabRow

LEMMA SameRowsKeepOne ==
  ASSUME OneActiveGrabPerSubject, UNCHANGED <<grab, grabs>>
  PROVE  OneActiveGrabPerSubject'
  BY DEF OneActiveGrabPerSubject, ActiveGrabs

LEMMA RecordKeepsOne ==
  ASSUME TypeOK, OneActiveGrabPerSubject, NEW p \in Workers, Record(p)
  PROVE  OneActiveGrabPerSubject'
<1> DEFINE new == [st |-> "pending", subject |-> target[p], release |-> pick[p]]
<1>1. grab \in [GrabIds -> GrabRow] /\ grabs \in 0 .. MaxGrabs /\ grabs < MaxGrabs
  BY DEF TypeOK, StoreTypeOK, Record
<1>2. /\ grabs' = grabs + 1 /\ grab' = [grab EXCEPT ![grabs + 1] = new]
      /\ \A g \in ActiveGrabs : grab[g].subject # target[p]
  BY DEF Record, CreateGrabbed, CanCreateGrabbed, HasActiveGrab
<1>3. \A h \in 1 .. grabs + 1 : h \in GrabIds /\ (h # grabs + 1 => h \in 1 .. grabs)
  BY <1>1, StoreAssumption DEF GrabIds
<1> HIDE DEF new
<1>4. \A h \in 1 .. grabs + 1 : grab'[h] = IF h = grabs + 1 THEN new ELSE grab[h]
  BY <1>1, <1>2, <1>3
<1>5. /\ \A h \in ActiveGrabs' : h \in ActiveGrabs \/ h = grabs + 1
      /\ \A h \in ActiveGrabs' :
           grab'[h].subject = IF h = grabs + 1 THEN target[p] ELSE grab[h].subject
  BY <1>2, <1>3, <1>4 DEF ActiveGrabs, new
<1>6. \A h \in ActiveGrabs : h # grabs + 1
  BY <1>1, StoreAssumption DEF ActiveGrabs
<1>7. QED
  BY <1>2, <1>5, <1>6 DEF OneActiveGrabPerSubject

LEMMA StatusKeepsOne ==
  ASSUME TypeOK, OneActiveGrabPerSubject, StatusNext
  PROVE  OneActiveGrabPerSubject'
<1> USE DEF storeVars, grabVars, WriteRow, CanUpdateGrab
<1>1. /\ row \in GrabRow /\ cur \in GrabIds
      /\ \A g \in GrabIds : rows[g] \in GrabRow
      /\ {"downloading", "importing", "imported", "failed", "stalled"} \subseteq GrabState
      /\ {"imported", "failed", "stalled"} \cap ActiveGrab = {}
  BY RowCopyType DEF TypeOK, StatusTypeOK, GrabState, ActiveGrab
<1>2. ASSUME NEW g \in GrabIds, VisitGrab(g) PROVE OneActiveGrabPerSubject'
  <2>1. CASE UNCHANGED <<grab, grabs>>
    BY <2>1, SameRowsKeepOne
  <2>2. CASE ~UNCHANGED <<grab, grabs>>
    <3>1. PICK st \in {"downloading", rows[g].st} :
            /\ UpdateGrab(g, [rows[g] EXCEPT !.st = st]) /\ grabs' = grabs
            /\ IndexAllows(g, [rows[g] EXCEPT !.st = st])
      <4>1. [rows[g] EXCEPT !.st = rows[g].st] = rows[g]
        BY <1>1, CopyBack
      <4>2. QED
        BY <1>2, <2>2, <4>1
        DEF VisitGrab, WaitForMissing, NotePaused, NoteQueued, NoteDownloading, NoteRefused,
            BeginComplete, BeginFail, RemoveFails
    <3>2. st \in GrabState
      BY <1>1, CopyBack
    <3>3. QED
      BY <1>1, <3>1, <3>2, WriteKeepsOne
  <2>3. QED
    BY <2>1, <2>2
<1>3. CASE WorkGrab
  <2>1. CASE UNCHANGED <<grab, grabs>>
    BY <2>1, SameRowsKeepOne
  <2>2. CASE ~UNCHANGED <<grab, grabs>>
    <3>1. PICK st \in {"importing", "imported", "failed", "stalled"} :
            /\ UpdateGrab(cur, [row EXCEPT !.st = st]) /\ grabs' = grabs
            /\ st = "importing" => IndexAllows(cur, [row EXCEPT !.st = st])
      BY <1>3, <2>2 DEF WorkGrab, AdvanceEnds, CompleteAborts, CompleteAlready, CompleteRow,
           CompleteRowRefused, ImportBegin, ImportFails, ImportDone, RejectDone, MarkStalled,
           MarkStalledFails, FailDone, FallbackNone, FallbackDone
    <3>2. QED
      BY <1>1, <3>1, WriteKeepsOne
  <2>3. QED
    BY <2>1, <2>2
<1>4. CASE \/ StatusRead \/ StatusPoll \/ PollFails \/ StatusDone
           \/ \E i \in Items : WorkItem(i)
           \/ \E r \in Releases : FallbackStart(r)
  BY <1>4, SameRowsKeepOne
  DEF StatusRead, StatusPoll, PollFails, StatusDone, WorkItem, AdvanceItem, CompleteItem,
      ImportItem, RejectItem, FailItem, FailItemAborts, FallbackStart, GrabCheck
<1>5. QED
  BY <1>2, <1>3, <1>4 DEF StatusNext

LEMMA QueueKeepsOne ==
  ASSUME TypeOK, OneActiveGrabPerSubject, QueueNext
  PROVE  OneActiveGrabPerSubject'
<1> USE DEF storeVars, grabVars
<1>1. CASE DeleteMark
  <2>1. /\ drow \in GrabRow /\ dgrab \in GrabIds
        /\ "removed" \in GrabState /\ "removed" \notin ActiveGrab
    BY DEF TypeOK, QueueTypeOK, GrabState, ActiveGrab
  <2>2. UpdateGrab(dgrab, [drow EXCEPT !.st = "removed"]) /\ grabs' = grabs
    BY <1>1 DEF DeleteMark
  <2>3. QED
    BY <2>1, <2>2, WriteKeepsOne
<1>2. CASE ~DeleteMark
  BY <1>2, SameRowsKeepOne
  DEF QueueNext, DeleteRead, DeleteRemove, DeleteDone, DeleteFails, DeleteRetry, Unmonitor,
      RequestSearch, ManualGrab, GrabCheck
<1>3. QED
  BY <1>1, <1>2

(* The unique index of migration 0003 and the check of CreateGrabbedFor.   *)
LEMMA OneLiveGrab == Spec => []OneActiveGrabPerSubject
<1>1. Init => OneActiveGrabPerSubject
  BY DEF Init, StoreInit, OneActiveGrabPerSubject, ActiveGrabs
<1>2. TypeOK /\ OneActiveGrabPerSubject /\ [Next]_vars => OneActiveGrabPerSubject'
  <2> SUFFICES ASSUME TypeOK, OneActiveGrabPerSubject, [Next]_vars
               PROVE  OneActiveGrabPerSubject'
    OBVIOUS
  <2> USE DEF storeVars, grabVars
  <2>1. ASSUME NEW p \in Loops, LoopNext(p) PROVE OneActiveGrabPerSubject'
    BY <2>1, SameRowsKeepOne
    DEF LoopNext, SearchBegin, SearchBusy, SearchLease, SearchCheck, SearchSkip, SearchStart,
        SearchNotStarted, SearchEvaluate, SearchNoRelease, SearchStoreError, Reschedule
  <2>2. ASSUME NEW p \in Callers, GrabNext(p) PROVE OneActiveGrabPerSubject'
    BY <2>2, SameRowsKeepOne DEF GrabNext, GrabRequest, GrabStart, GrabRefused
  <2>3. ASSUME NEW p \in Workers, HandOff(p) PROVE OneActiveGrabPerSubject'
    BY <2>3, SameRowsKeepOne, RecordKeepsOne
    DEF HandOff, PackRead, PackLock, PackBusy, AddDownload, AddRefused, SearchAbandoned,
        RecordFails, Reschedule
  <2>4. CASE \/ \E r \in Releases : TorrentMove(r)
             \/ Crash
             \/ \E i \in Items : LeaseExpires(i) \/ RowStays(i)
             \/ UNCHANGED vars
    BY <2>4, SameRowsKeepOne DEF TorrentMove, Crash, LeaseExpires, RowStays, vars
  <2>5. QED
    BY <2>1, <2>2, <2>3, <2>4, StatusKeepsOne, QueueKeepsOne, WorkerKinds
    DEF Next, LoopStep, CallerStep, StatusStep, ApiStep
<1>3. QED
  BY <1>1, <1>2, TypeCorrect, PTL DEF Spec

-------------------------------------------------------------------------------
(* The torrents Reelay owns.                                               *)

LEMMA RowFacts ==
  ASSUME TypeOK
  PROVE  /\ grab \in [GrabIds -> GrabRow] /\ grabs \in 0 .. MaxGrabs
         /\ \A g \in 1 .. grabs : g \in GrabIds
         /\ torrent \in [Releases -> TorrentState]
         /\ row \in GrabRow /\ drow \in GrabRow /\ cur \in GrabIds /\ dgrab \in GrabIds
         /\ \A g \in GrabIds : rows[g] \in GrabRow
         /\ \A w \in GrabRow : w.release \in Releases
<1>1. /\ grab \in [GrabIds -> GrabRow] /\ grabs \in 0 .. MaxGrabs
      /\ torrent \in [Releases -> TorrentState]
      /\ row \in GrabRow /\ drow \in GrabRow /\ cur \in GrabIds /\ dgrab \in GrabIds
      /\ \A g \in GrabIds : rows[g] \in GrabRow
  BY RowCopyType DEF TypeOK, StoreTypeOK, StatusTypeOK, QueueTypeOK
<1>2. \A g \in 1 .. grabs : g \in GrabIds
  BY <1>1, StoreAssumption DEF GrabIds
<1>3. \A w \in GrabRow : w.release \in Releases
  BY DEF GrabRow
<1>4. QED
  BY <1>1, <1>2, <1>3

(* A row is written from a copy that names its torrent.                    *)
SameGrab(g) == grab'[g].release = grab[g].release /\ grab'[g].subject = grab[g].subject

LEMMA WriteNames ==
  ASSUME TypeOK, NEW g, NEW w \in GrabRow, Copies(w, g), NEW st \in GrabState,
         UpdateGrab(g, [w EXCEPT !.st = st])
  PROVE  /\ \A h \in 1 .. grabs : SameGrab(h)
         /\ \A h \in 1 .. grabs : grab'[h].st = IF h = g THEN st ELSE grab[h].st
<1>1. /\ [w EXCEPT !.st = st].st = st /\ [w EXCEPT !.st = st].release = w.release
      /\ [w EXCEPT !.st = st].subject = w.subject
  BY DEF GrabRow
<1>2. \A h \in 1 .. grabs : grab'[h] = IF h = g THEN [w EXCEPT !.st = st] ELSE grab[h]
  BY RowFacts DEF UpdateGrab, Copies
<1>3. QED
  BY <1>1, <1>2 DEF Copies, SameGrab

(* A new row leaves those there are alone.                                 *)
LEMMA RecordAdds ==
  ASSUME TypeOK, NEW p \in Workers, Record(p)
  PROVE  /\ \A h \in 1 .. grabs : grab'[h] = grab[h]
         /\ grabs' = grabs + 1
         /\ grab'[grabs + 1] = [st |-> "pending", subject |-> target[p], release |-> pick[p]]
<1>1. grabs + 1 \in GrabIds /\ \A h \in 1 .. grabs : h # grabs + 1
  BY RowFacts, StoreAssumption DEF GrabIds, Record
<1>2. QED
  BY <1>1, RowFacts DEF Record, CreateGrabbed

(* What was removed is not Reelay's any more.                              *)
LEMMA RemovedIsGone ==
  ASSUME TypeOK, NEW r \in Releases, RemoveTorrent(r)
  PROVE  \A s \in Releases : Owned(s)' => Owned(s) /\ s # r
  BY RowFacts DEF RemoveTorrent, Owned

(* The rows there are keep their torrents, whoever moves.                  *)
RowsGrow ==
  grabs' \in {grabs, grabs + 1} /\ \A g \in 1 .. grabs : SameGrab(g)

(* The steps of workers leave the copies alone.                            *)
LEMMA WorkersGrow ==
  ASSUME TypeOK, NEW p \in Workers, LoopNext(p) \/ GrabNext(p) \/ HandOff(p)
  PROVE  RowsGrow
<1> USE DEF storeVars, grabVars
<1>1. CASE Record(p)
  BY <1>1, RecordAdds DEF SameGrab, RowsGrow
<1>2. CASE ~Record(p)
  <2>1. UNCHANGED <<grab, grabs>>
    BY <1>2
    DEF LoopNext, SearchBegin, SearchBusy, SearchLease, SearchCheck, SearchSkip, SearchStart,
        SearchNotStarted,
        SearchEvaluate, SearchNoRelease, SearchStoreError, Reschedule, GrabNext, GrabRequest,
        GrabStart, GrabRefused, HandOff, PackRead, PackLock, PackBusy, AddDownload, AddRefused,
        SearchAbandoned, RecordFails
  <2>2. QED
    BY <2>1 DEF SameGrab, RowsGrow
<1>3. QED
  BY <1>1, <1>2

LEMMA CopiesStand ==
  ASSUME TypeOK, CopiesName, RowsGrow, UNCHANGED <<snap, rows, spc, cur, deleteVars>>
  PROVE  CopiesName'
<1>1. \A g \in 1 .. grabs : g \in 1 .. grabs' /\ SameGrab(g)
  BY RowFacts DEF RowsGrow
<1>2. QED
  BY <1>1 DEF SameGrab, CopiesName, Copies, row, deleteVars

(* What a step of the status loop does to the rows: nothing, or one is     *)
(* written from its copy.                                                  *)
Closing == {"stalled", "removed"}

WritesCopy(g, w) ==
  /\ UpdateGrab(g, w) /\ grabs' = grabs
  /\ \E st \in GrabState : st \notin Closing /\ w = [rows[g] EXCEPT !.st = st]

LEMMA StatusWrites ==
  ASSUME TypeOK, CopiesName, StatusNext
  PROVE  \/ UNCHANGED <<grab, grabs>>
         \/ \E g : Copies(rows[g], g) /\ \E w : WritesCopy(g, w)
         \/ MarkStalled
<1> USE DEF storeVars, grabVars, WriteRow
<1>1. {"downloading", "importing", "imported", "failed"} \subseteq GrabState \ Closing
  BY DEF GrabState, Closing
<1>2. ASSUME NEW g \in GrabIds, VisitGrab(g), ~UNCHANGED <<grab, grabs>>
      PROVE  Copies(rows[g], g) /\ \E w : WritesCopy(g, w)
  <2>1. g \in snap
    BY <1>2 DEF VisitGrab, WaitForMissing, NotePaused, NoteQueued, NoteDownloading, NoteRefused,
                BeginComplete, BeginFail, RemoveFails, Visit, Oldest
  <2>2. PICK st \in {"downloading", rows[g].st} :
          UpdateGrab(g, [rows[g] EXCEPT !.st = st]) /\ grabs' = grabs
    <3>1. [rows[g] EXCEPT !.st = rows[g].st] = rows[g]
      BY <1>2, RowFacts, CopyBack
    <3>2. QED
      BY <1>2, <3>1
      DEF VisitGrab, WaitForMissing, NotePaused, NoteQueued, NoteDownloading, NoteRefused,
          BeginComplete, BeginFail, RemoveFails
  <2>3. Copies(rows[g], g) /\ rows[g].st \in GrabState \ Closing
    BY <2>1 DEF CopiesName, ActiveGrab, GrabState, Closing
  <2>4. st \in GrabState \ Closing
    BY <1>1, <2>3
  <2>5. QED
    BY <2>2, <2>3, <2>4 DEF WritesCopy
<1>3. ASSUME WorkGrab, ~MarkStalled, ~UNCHANGED <<grab, grabs>>
      PROVE  /\ Copies(rows[cur], cur)
             /\ \E w : WritesCopy(cur, w)
  <2>1. spc \notin {"idle", "polling", "visiting"}
    BY <1>3 DEF WorkGrab, AdvanceEnds, CompleteAborts, CompleteAlready, CompleteRow,
           CompleteRowRefused, ImportBegin, ImportFails, ImportDone, RejectDone,
           MarkStalledFails, FailDone, FallbackNone, FallbackDone
  <2>2. PICK st \in {"importing", "imported", "failed"} :
          UpdateGrab(cur, [row EXCEPT !.st = st]) /\ grabs' = grabs
    BY <1>3 DEF WorkGrab, AdvanceEnds, CompleteAborts, CompleteAlready, CompleteRow,
           CompleteRowRefused, ImportBegin, ImportFails, ImportDone, RejectDone,
           MarkStalledFails, FailDone, FallbackNone, FallbackDone
  <2>3. QED
    BY <1>1, <2>1, <2>2 DEF CopiesName, Copies, WritesCopy, row
<1>4. CASE \/ StatusRead \/ StatusPoll \/ PollFails \/ StatusDone
           \/ \E i \in Items : WorkItem(i)
           \/ \E r \in Releases : FallbackStart(r)
  BY <1>4
  DEF StatusRead, StatusPoll, PollFails, StatusDone, WorkItem, AdvanceItem, CompleteItem,
      ImportItem, RejectItem, FailItem, FailItemAborts, FallbackStart, GrabCheck
<1>5. QED
  BY <1>2, <1>3, <1>4 DEF StatusNext

LEMMA StatusGrows ==
  ASSUME TypeOK, CopiesName, StatusNext
  PROVE  RowsGrow
<1>1. CASE UNCHANGED <<grab, grabs>>
  BY <1>1 DEF SameGrab, RowsGrow
<1>2. ASSUME NEW g, Copies(rows[g], g), NEW w, WritesCopy(g, w)
      PROVE  RowsGrow
  BY <1>2, RowFacts, WriteNames DEF Copies, WritesCopy, RowsGrow
<1>3. CASE MarkStalled
  <2>1. /\ Copies(row, cur) /\ cur \in 1 .. grabs /\ "stalled" \in GrabState
        /\ UpdateGrab(cur, [row EXCEPT !.st = "stalled"]) /\ grabs' = grabs
    BY <1>3 DEF CopiesName, Copies, MarkStalled, GrabState
  <2>2. QED
    BY <2>1, RowFacts, WriteNames DEF RowsGrow
<1>4. QED
  BY <1>1, <1>2, <1>3, StatusWrites

LEMMA StatusCopies ==
  ASSUME TypeOK, CopiesName, StatusNext, UNCHANGED deleteVars
  PROVE  CopiesName'
<1> USE DEF storeVars, grabVars
<1>1. RowsGrow
  BY StatusGrows
<1>2. \A g \in 1 .. grabs : g \in 1 .. grabs' /\ SameGrab(g)
  BY <1>1, RowFacts DEF RowsGrow
<1>3. dpc' # "idle" => Copies(drow, dgrab)'
  BY <1>2 DEF SameGrab, CopiesName, Copies, deleteVars
<1>4. CASE StatusRead
  <2>1. /\ snap' = ActiveGrabs
        /\ \A g \in ActiveGrabs : g \in 1 .. grabs /\ grab[g].st \in ActiveGrab
        /\ \A g \in ActiveGrabs : rows'[g] = grab[g]
        /\ UNCHANGED <<grab, grabs>> /\ spc' = "polling"
    BY <1>4, RowFacts DEF StatusRead, ActiveGrabs, SGoto
  <2>2. QED
    BY <1>3, <2>1 DEF CopiesName, Copies
<1>5. CASE PollFails \/ StatusDone
  <2>1. snap' = {} /\ spc' = "idle"
    BY <1>5 DEF PollFails, StatusDone, SGoto
  <2>2. QED
    BY <1>3, <2>1 DEF CopiesName, Copies
<1>6. CASE StatusPoll
  <2>1. spc' = "visiting" /\ UNCHANGED <<snap, rows>>
    BY <1>6 DEF StatusPoll, SGoto
  <2>2. QED
    BY <1>2, <1>3, <2>1 DEF SameGrab, CopiesName, Copies
<1>7. ASSUME NEW g \in GrabIds, VisitGrab(g) PROVE CopiesName'
  <2>1. /\ g \in snap /\ snap' = snap \ {g} /\ rows' = rows /\ spc = "visiting"
        /\ (spc' = spc) \/ (cur' = g)
    BY <1>7 DEF VisitGrab, WaitForMissing, NotePaused, NoteQueued, NoteDownloading, NoteRefused,
                BeginComplete, BeginFail, RemoveFails, Visit, Oldest
  <2>2. QED
    BY <1>2, <1>3, <2>1 DEF SameGrab, CopiesName, Copies, row
<1>8. CASE WorkGrab \/ (\E i \in Items : WorkItem(i)) \/ (\E r \in Releases : FallbackStart(r))
  <2>1. /\ UNCHANGED <<snap, rows>> /\ spc \notin {"idle", "polling", "visiting"}
        /\ spc' = "visiting" \/ cur' = cur
    BY <1>8
    DEF WorkGrab, AdvanceEnds, CompleteAborts, CompleteAlready, CompleteRow,
        CompleteRowRefused, ImportBegin, ImportFails, ImportDone, RejectDone, MarkStalled,
        MarkStalledFails, FailDone, FallbackNone, FallbackDone, WorkItem, AdvanceItem,
        CompleteItem, ImportItem, RejectItem, FailItem, FailItemAborts, FallbackStart, NextGrab
  <2>2. QED
    BY <1>2, <1>3, <2>1 DEF SameGrab, CopiesName, Copies, row
<1>9. QED
  BY <1>4, <1>5, <1>6, <1>7, <1>8 DEF StatusNext

LEMMA QueueCopies ==
  ASSUME TypeOK, CopiesName, QueueNext
  PROVE  CopiesName' /\ RowsGrow
<1> USE DEF storeVars, grabVars
<1>1. ASSUME NEW g \in GrabIds, DeleteRead(g) PROVE CopiesName' /\ RowsGrow
  <2>1. g \in 1 .. grabs
    BY <1>1, RowFacts, StoreAssumption DEF DeleteRead, GrabIds
  <2>2. QED
    BY <1>1, <2>1 DEF DeleteRead, CopiesName, Copies, RowsGrow, SameGrab, statusVars, row
<1>2. CASE DeleteMark
  <2>1. Copies(drow, dgrab) /\ dgrab \in 1 .. grabs /\ "removed" \in GrabState
    BY <1>2 DEF DeleteMark, CopiesName, Copies, GrabState
  <2>2. RowsGrow /\ \A h \in 1 .. grabs : h \in 1 .. grabs' /\ SameGrab(h)
    BY <1>2, <2>1, RowFacts, WriteNames DEF DeleteMark, RowsGrow
  <2>3. UNCHANGED <<statusVars, dgrab, drow>> /\ dpc # "idle"
    BY <1>2 DEF DeleteMark
  <2>4. QED
    BY <2>2, <2>3 DEF SameGrab, CopiesName, Copies, statusVars, row
<1>3. CASE DeleteDone \/ DeleteFails
  BY <1>3 DEF DeleteDone, DeleteFails, Respond, CopiesName, Copies, RowsGrow, SameGrab,
         statusVars, row
<1>4. CASE DeleteRemove \/ \E i \in Items : DeleteRetry(i)
  BY <1>4 DEF DeleteRemove, DeleteRetry, CopiesName, Copies, RowsGrow, SameGrab, statusVars, row
<1>5. CASE \/ \E i \in Items : RequestSearch(i)
           \/ \E e \in Episodes : Unmonitor(e)
           \/ \E p \in Callers, i \in Items, r \in Releases : ManualGrab(p, i, r)
  BY <1>5 DEF SameGrab, RequestSearch, Unmonitor, ManualGrab, GrabCheck, CopiesName, Copies,
         RowsGrow,
              statusVars, deleteVars, row
<1>6. QED
  BY <1>1, <1>2, <1>3, <1>4, <1>5 DEF QueueNext

LEMMA CopiesInvariant == Spec => []CopiesName
<1>1. Init => CopiesName
  BY DEF Init, StatusInit, QueueInit, CopiesName, Copies
<1>2. TypeOK /\ CopiesName /\ [Next]_vars => CopiesName'
  <2> SUFFICES ASSUME TypeOK, CopiesName, [Next]_vars PROVE CopiesName'
    OBVIOUS
  <2>1. ASSUME NEW p \in Workers, LoopStep(p) \/ CallerStep(p) PROVE CopiesName'
    <3>1. RowsGrow
      BY <2>1, WorkersGrow DEF LoopStep, CallerStep
    <3>2. QED
      BY <2>1, <3>1, CopiesStand DEF LoopStep, CallerStep, statusVars
  <2>2. CASE StatusStep
    BY <2>2, StatusCopies DEF StatusStep
  <2>3. CASE ApiStep
    BY <2>3, QueueCopies DEF ApiStep
  <2>4. CASE Crash
    BY <2>4 DEF Crash, CopiesName, Copies
  <2>5. CASE \/ \E r \in Releases : TorrentMove(r)
             \/ \E i \in Items : LeaseExpires(i) \/ RowStays(i)
             \/ UNCHANGED vars
    <3>1. RowsGrow /\ UNCHANGED <<snap, rows, spc, cur, deleteVars>>
      BY <2>5 DEF SameGrab, TorrentMove, LeaseExpires, RowStays, vars, storeVars, grabVars,
             statusVars, RowsGrow
    <3>2. QED
      BY <3>1, CopiesStand
  <2>6. QED
    BY <2>1, <2>2, <2>3, <2>4, <2>5, WorkerKinds DEF Next
<1>3. QED
  BY <1>1, <1>2, TypeCorrect, PTL DEF Spec

(* What keeps a torrent tracked: whoever is about to record it still is,   *)
(* and its rows stay open and wanted.                                      *)
RecordersStay ==
  \A p \in Workers : pc[p] = "record" => pc'[p] = "record" /\ pick'[p] = pick[p]

RowsStay ==
  /\ grabs' \in {grabs, grabs + 1}
  /\ \A g \in 1 .. grabs : \A r \in Releases : Tracks(g, r) => Tracks(g, r)'

NothingAppears == \A r \in Releases : Owned(r)' => Owned(r)

LEMMA StillTracked ==
  ASSUME TypeOK, TrackedInv, RecordersStay, RowsStay, NothingAppears
  PROVE  TrackedInv'
<1>1. \A g \in 1 .. grabs : g \in 1 .. grabs'
  BY RowFacts DEF RowsStay
<1>2. \A r \in Releases : Recording(r) => Recording(r)'
  BY DEF RecordersStay, Recording
<1>3. QED
  BY <1>1, <1>2 DEF RowsStay, NothingAppears, TrackedInv

(* Rows nobody writes and nobody is about to close.                        *)
LEMMA UntouchedRowsStay ==
  ASSUME TypeOK, grabs' \in {grabs, grabs + 1},
         \A g \in 1 .. grabs : grab'[g] = grab[g],
         \A g \in 1 .. grabs : Doomed(g)' => Doomed(g)
  PROVE  RowsStay
  BY DEF RowsStay, Tracks

(* Workers: the torrent is there before its row, and taken back after a    *)
(* row that could not be written.                                          *)
LEMMA WorkersTrack ==
  ASSUME SteadyClient, TypeOK, TrackedInv, CopiesName, NEW p \in Workers,
         LoopNext(p) \/ GrabNext(p) \/ HandOff(p), UNCHANGED <<statusVars, deleteVars>>
  PROVE  TrackedInv'
<1> USE DEF storeVars, grabVars, Goto
<1>1. pc \in [Workers -> PC] /\ pick \in [Workers -> Releases \cup {NoRelease}]
  BY DEF TypeOK, AcquisitionTypeOK
<1>2. \A g : Doomed(g)' <=> Doomed(g)
  BY DEF Doomed, statusVars, deleteVars
<1>3. CASE Record(p)
  <2>1. PICK new \in Nat, s \in Releases : new = grabs + 1 /\ s = pick[p]
    BY <1>3, RowFacts, StoreAssumption DEF Record, TypeOK, AcquisitionTypeOK
  <2>2. /\ \A h \in 1 .. grabs : grab'[h] = grab[h]
        /\ grabs' = new /\ grab'[new].st = "pending" /\ grab'[new].release = s
    <3>1. /\ \A h \in 1 .. grabs : grab'[h] = grab[h]
          /\ grabs' = grabs + 1
          /\ grab'[grabs + 1] = [st |-> "pending", subject |-> target[p], release |-> pick[p]]
      BY <1>3, RecordAdds
    <3>2. QED
      BY <2>1, <3>1
  <2>3. new \in 1 .. new /\ \A g \in 1 .. grabs : g # new /\ g \in 1 .. new
    BY <2>1, RowFacts, StoreAssumption
  <2>4. ~Doomed(new)
    <3>1. dpc = "mark" => dgrab \in 1 .. grabs
      BY DEF CopiesName, Copies
    <3>2. spc = "failing" => cur \in 1 .. grabs
      BY DEF CopiesName, Copies
    <3>3. QED
      BY <2>3, <3>1, <3>2 DEF Doomed
  <2>5. Tracks(new, s)'
    BY <1>2, <2>2, <2>4 DEF Tracks
  <2>6. /\ torrent' = torrent
        /\ \A q \in Workers : q # p => pc'[q] = pc[q] /\ pick'[q] = pick[q]
    BY <1>1, <1>3 DEF Record, Finish
  <2>7. ASSUME NEW r \in Releases, Owned(r)'
        PROVE  Recording(r)' \/ \E g \in 1 .. grabs' : Tracks(g, r)'
    <3>1. Owned(r)
      BY <2>6, <2>7 DEF Owned
    <3>2. ASSUME NEW g \in 1 .. grabs, Tracks(g, r) PROVE Tracks(g, r)'
      BY <1>2, <2>2, <3>2 DEF Tracks
    <3>3. ASSUME NEW q \in Workers, pc[q] = "record", pick[q] = r, q # p PROVE Recording(r)'
      BY <2>6, <3>3 DEF Recording
    <3>4. CASE r = s
      BY <2>2, <2>3, <2>5, <3>4
    <3>5. CASE r # s
      BY <2>1, <2>2, <2>3, <3>1, <3>2, <3>3, <3>5 DEF TrackedInv, Recording
    <3>6. QED
      BY <3>4, <3>5
  <2>8. QED
    BY <2>7 DEF TrackedInv
<1>4. CASE RecordFails(p)
  <2>1. pick[p] \in Releases /\ RemoveTorrent(pick[p]) /\ UNCHANGED <<grab, grabs>>
    BY <1>4 DEF RecordFails, TypeOK, AcquisitionTypeOK, SteadyClient
  <2>2. \A q \in Workers : q # p => pc'[q] = pc[q] /\ pick'[q] = pick[q]
    BY <1>1, <1>4 DEF RecordFails, Finish
  <2>3. ASSUME NEW r \in Releases, Owned(r)'
        PROVE  Recording(r)' \/ \E g \in 1 .. grabs' : Tracks(g, r)'
    <3>1. Owned(r) /\ r # pick[p]
      BY <2>1, <2>3, RemovedIsGone
    <3>2. \A g : Tracks(g, r)' <=> Tracks(g, r)
      BY <1>2, <2>1 DEF Tracks
    <3>3. QED
      BY <2>1, <2>2, <3>1, <3>2 DEF TrackedInv, Recording
  <2>4. QED
    BY <2>3 DEF TrackedInv
<1>5. CASE AddDownload(p)
  <2>1. /\ UNCHANGED <<grab, grabs, pick>> /\ pc'[p] = "record"
        /\ \A q \in Workers : q # p => pc'[q] = pc[q]
    BY <1>1, <1>5 DEF AddDownload
  <2>2. \A r \in Releases : Owned(r)' => Owned(r) \/ r = pick[p]
    BY <1>5, RowFacts DEF AddDownload, ClientTakes, Owned
  <2>3. \A g, r : Tracks(g, r)' <=> Tracks(g, r)
    BY <1>2, <2>1 DEF Tracks
  <2>4. QED
    BY <2>1, <2>2, <2>3 DEF TrackedInv, Recording
<1>6. CASE ~Record(p) /\ ~RecordFails(p) /\ ~AddDownload(p)
  <2>1. UNCHANGED <<grab, grabs>>
    BY <1>6
    DEF LoopNext, SearchBegin, SearchBusy, SearchLease, SearchCheck, SearchSkip, SearchStart,
        SearchNotStarted,
        SearchEvaluate, SearchNoRelease, SearchStoreError, Reschedule, GrabNext, GrabRequest,
        GrabStart, GrabRefused, HandOff, PackRead, PackLock, PackBusy, AddRefused,
        SearchAbandoned
  <2>2. torrent' = torrent
    BY <1>6
    DEF LoopNext, SearchBegin, SearchBusy, SearchLease, SearchCheck, SearchSkip, SearchStart,
        SearchNotStarted,
        SearchEvaluate, SearchNoRelease, SearchStoreError, Reschedule, GrabNext, GrabRequest,
        GrabStart, GrabRefused, HandOff, PackRead, PackLock, PackBusy, AddRefused,
        SearchAbandoned, SteadyClient
  <2>3. pc[p] # "record" /\ \A q \in Workers : q # p => pc'[q] = pc[q] /\ pick'[q] = pick[q]
    BY <1>1, <1>6
    DEF LoopNext, SearchBegin, SearchBusy, SearchLease, SearchCheck, SearchSkip, SearchStart,
        SearchNotStarted,
        SearchEvaluate, SearchNoRelease, SearchStoreError, Reschedule, Finish, GrabNext,
        GrabRequest, GrabStart, GrabRefused, HandOff, PackRead, PackLock, PackBusy, Leasing,
        AddRefused, SearchAbandoned
  <2>4. RecordersStay
    BY <2>3 DEF RecordersStay
  <2>5. RowsStay /\ NothingAppears
    BY <1>2, <2>1, <2>2, UntouchedRowsStay DEF NothingAppears, Owned
  <2>6. QED
    BY <2>4, <2>5, StillTracked
<1>7. QED
  BY <1>3, <1>4, <1>5, <1>6

(* The status loop removes a torrent before it closes the row, and writes  *)
(* any other copy back as a row that is open.                              *)
LEMMA StatusTracks ==
  ASSUME TypeOK, TrackedInv, CopiesName, StatusNext, UNCHANGED deleteVars
  PROVE  TrackedInv'
<1> USE DEF storeVars, grabVars
<1>1. pc \in [Workers -> PC] /\ pick \in [Workers -> Releases \cup {NoRelease}]
  BY DEF TypeOK, AcquisitionTypeOK
<1>2. RecordersStay
  <2>1. CASE UNCHANGED <<pc, pick>>
    BY <2>1 DEF RecordersStay
  <2>2. ASSUME NEW r \in Releases, FallbackStart(r) PROVE RecordersStay
    BY <1>1, <2>2 DEF FallbackStart, GrabCheck, Goto, RecordersStay
  <2>3. QED
    BY <2>1, <2>2
    DEF StatusNext, StatusRead, StatusPoll, PollFails, StatusDone, VisitGrab, WaitForMissing,
        NotePaused,
        NoteQueued, NoteDownloading, NoteRefused, BeginComplete, BeginFail, RemoveFails,
        WorkGrab, AdvanceEnds, CompleteAborts, CompleteAlready, CompleteRow,
        CompleteRowRefused, ImportBegin, ImportFails, ImportDone, RejectDone, MarkStalled,
        MarkStalledFails, FailDone, FallbackNone, FallbackDone, WorkItem, AdvanceItem,
        CompleteItem, ImportItem, RejectItem, FailItem, FailItemAborts, jobVars
<1>3. ASSUME NEW g \in GrabIds, BeginFail(g) PROVE TrackedInv'
  <2>1. /\ g \in snap /\ RemoveTorrent(rows[g].release) /\ UNCHANGED <<grab, grabs>>
        /\ spc = "visiting" /\ cur' = g /\ rows[g].release \in Releases
    BY <1>3, RowFacts DEF BeginFail, Visit, Oldest
  <2>2. rows[g].release = grab[g].release
    BY <2>1 DEF CopiesName, Copies
  <2>3. ASSUME NEW r \in Releases, Owned(r)'
        PROVE  Recording(r)' \/ \E h \in 1 .. grabs' : Tracks(h, r)'
    <3>1. Owned(r) /\ r # grab[g].release
      BY <2>1, <2>2, <2>3, RemovedIsGone
    <3>2. ASSUME NEW h \in 1 .. grabs, Tracks(h, r) PROVE Tracks(h, r)'
      <4>1. h # g
        BY <3>1, <3>2 DEF Tracks
      <4>2. Doomed(h)' => Doomed(h)
        BY <2>1, <4>1 DEF Doomed, deleteVars
      <4>3. QED
        BY <2>1, <3>2, <4>2 DEF Tracks
    <3>3. QED
      BY <1>2, <2>1, <3>1, <3>2 DEF TrackedInv, RecordersStay, Recording
  <2>4. QED
    BY <2>3 DEF TrackedInv
<1>4. CASE ~\E g \in GrabIds : BeginFail(g)
  <2>1. torrent' = torrent
    BY <1>4
    DEF StatusNext, StatusRead, StatusPoll, PollFails, StatusDone, VisitGrab, WaitForMissing,
        NotePaused, NoteQueued, NoteDownloading, NoteRefused, BeginComplete, RemoveFails,
        WorkGrab, AdvanceEnds, CompleteAborts, CompleteAlready, CompleteRow,
        CompleteRowRefused, ImportBegin, ImportFails, ImportDone, RejectDone, MarkStalled,
        MarkStalledFails, FailDone, FallbackNone, FallbackDone, WorkItem, AdvanceItem,
        CompleteItem, ImportItem, RejectItem, FailItem, FailItemAborts, FallbackStart, GrabCheck
  <2>2. spc' = "failing" => spc = "failing" /\ cur' = cur /\ (items' # {} => items # {})
    BY <1>4
    DEF StatusNext, StatusRead, StatusPoll, PollFails, StatusDone, VisitGrab, WaitForMissing,
        NotePaused, NoteQueued, NoteDownloading, NoteRefused, BeginComplete, RemoveFails, Visit,
        WorkGrab, AdvanceEnds, CompleteAborts, CompleteAlready, CompleteRow,
        CompleteRowRefused, ImportBegin, ImportFails, ImportDone, RejectDone, MarkStalled,
        MarkStalledFails, FailDone, FallbackNone, FallbackDone, WorkItem, AdvanceItem,
        CompleteItem, ImportItem, RejectItem, FailItem, FailItemAborts, FallbackStart,
        NextGrab, SGoto
  <2>3. \A g : Doomed(g)' => Doomed(g)
    BY <2>2 DEF Doomed, deleteVars
  <2>4. NothingAppears
    BY <2>1 DEF NothingAppears, Owned
  <2>5. RowsStay
    <3>1. CASE UNCHANGED <<grab, grabs>>
      BY <2>3, <3>1, UntouchedRowsStay
    <3>2. ASSUME NEW g, Copies(rows[g], g),
                 NEW w, WritesCopy(g, w)
          PROVE  RowsStay
      <4>1. PICK st \in GrabState : /\ st \notin Closing /\ grabs' = grabs
                                    /\ UpdateGrab(g, [rows[g] EXCEPT !.st = st])
        BY <3>2 DEF WritesCopy
      <4>2. \A h \in 1 .. grabs : /\ SameGrab(h)
                                  /\ grab'[h].st = IF h = g THEN st ELSE grab[h].st
        BY <3>2, <4>1, RowFacts, WriteNames DEF Copies
      <4>3. QED
        BY <2>3, <4>1, <4>2 DEF SameGrab, RowsStay, Tracks, Closing
    <3>3. CASE MarkStalled
      <4>1. /\ Copies(row, cur) /\ cur \in 1 .. grabs /\ "stalled" \in GrabState
            /\ UpdateGrab(cur, [row EXCEPT !.st = "stalled"]) /\ grabs' = grabs
            /\ Doomed(cur)
        BY <3>3 DEF CopiesName, Copies, MarkStalled, GrabState, Doomed
      <4>2. \A h \in 1 .. grabs :
              /\ SameGrab(h)
              /\ grab'[h].st = IF h = cur THEN "stalled" ELSE grab[h].st
        BY <4>1, RowFacts, WriteNames
      <4>3. QED
        BY <2>3, <4>1, <4>2 DEF SameGrab, RowsStay, Tracks
    <3>4. QED
      BY <3>1, <3>2, <3>3, StatusWrites
  <2>6. QED
    BY <1>2, <2>4, <2>5, StillTracked
<1>5. QED
  BY <1>3, <1>4

(* A removal takes the torrent first and then closes the row.              *)
LEMMA QueueTracks ==
  ASSUME TypeOK, TrackedInv, CopiesName, QueueNext
  PROVE  TrackedInv'
<1> USE DEF storeVars, grabVars
<1>1. pc \in [Workers -> PC] /\ pick \in [Workers -> Releases \cup {NoRelease}]
  BY DEF TypeOK, AcquisitionTypeOK
<1>2. RecordersStay
  BY <1>1
  DEF QueueNext, DeleteRead, DeleteRemove, DeleteMark, DeleteDone, DeleteFails, DeleteRetry,
      Unmonitor, RequestSearch, ManualGrab, GrabCheck, Goto, RecordersStay, jobVars
<1>3. CASE DeleteRemove
  <2>1. /\ RemoveTorrent(drow.release) /\ drow.release = grab[dgrab].release
        /\ drow.release \in Releases /\ UNCHANGED <<grab, grabs, statusVars, dgrab>>
    BY <1>3, RowFacts DEF DeleteRemove, CopiesName, Copies
  <2>2. ASSUME NEW r \in Releases, Owned(r)'
        PROVE  Recording(r)' \/ \E h \in 1 .. grabs' : Tracks(h, r)'
    <3>1. Owned(r) /\ r # grab[dgrab].release
      BY <2>1, <2>2, RemovedIsGone
    <3>2. ASSUME NEW h \in 1 .. grabs, Tracks(h, r) PROVE Tracks(h, r)'
      <4>1. h # dgrab
        BY <3>1, <3>2 DEF Tracks
      <4>2. Doomed(h)' => Doomed(h)
        BY <2>1, <4>1 DEF Doomed, statusVars
      <4>3. QED
        BY <2>1, <3>2, <4>2 DEF Tracks
    <3>3. QED
      BY <1>2, <2>1, <3>1, <3>2 DEF TrackedInv, RecordersStay, Recording
  <2>3. QED
    BY <2>2 DEF TrackedInv
<1>4. CASE DeleteMark
  <2>1. /\ Copies(drow, dgrab) /\ dgrab \in 1 .. grabs /\ "removed" \in GrabState
        /\ UpdateGrab(dgrab, [drow EXCEPT !.st = "removed"]) /\ grabs' = grabs
        /\ Doomed(dgrab) /\ torrent' = torrent
    BY <1>4 DEF CopiesName, Copies, DeleteMark, GrabState, Doomed
  <2>2. \A h \in 1 .. grabs :
          /\ SameGrab(h)
          /\ grab'[h].st = IF h = dgrab THEN "removed" ELSE grab[h].st
    BY <2>1, RowFacts, WriteNames
  <2>3. \A g : Doomed(g)' => Doomed(g)
    BY <1>4 DEF DeleteMark, Doomed, statusVars
  <2>4. RowsStay
    BY <2>1, <2>2, <2>3 DEF SameGrab, RowsStay, Tracks
  <2>5. NothingAppears
    BY <2>1 DEF NothingAppears, Owned
  <2>6. QED
    BY <1>2, <2>4, <2>5, StillTracked
<1>5. CASE ~DeleteRemove /\ ~DeleteMark
  <2>1. UNCHANGED <<grab, grabs, torrent>>
    BY <1>5
    DEF QueueNext, DeleteRead, DeleteDone, DeleteFails, DeleteRetry, Unmonitor, RequestSearch,
        ManualGrab, GrabCheck
  <2>2. UNCHANGED statusVars /\ (dpc' = "mark" => dpc = "mark" /\ dgrab' = dgrab)
    BY <1>5
    DEF QueueNext, DeleteRead, DeleteDone, DeleteFails, DeleteRetry, Unmonitor, RequestSearch,
        ManualGrab, Respond, deleteVars
  <2>3. \A g : Doomed(g)' => Doomed(g)
    BY <2>2 DEF Doomed, statusVars
  <2>4. RowsStay
    BY <2>1, <2>3, UntouchedRowsStay
  <2>5. NothingAppears
    BY <2>1 DEF NothingAppears, Owned
  <2>6. QED
    BY <1>2, <2>4, <2>5, StillTracked
<1>6. QED
  BY <1>3, <1>4, <1>5

(* As long as calls to the client do what they say and the process lives,  *)
(* a torrent of Reelay's is never forgotten: however searches, manual      *)
(* grabs, polls on stale copies and removals of the same torrent meet, and *)
(* whichever transaction fails, an open row names it or a worker is about  *)
(* to write one or to take it back.                                        *)
THEOREM TorrentsAreTracked == ASSUME SteadyClient PROVE Spec => []OwnedTorrentTracked
<1>1. Init => TrackedInv
  BY DEF Init, StoreInit, TrackedInv, Owned
<1>2. TypeOK /\ CopiesName /\ TrackedInv /\ [Next]_vars => TrackedInv'
  <2> SUFFICES ASSUME TypeOK, CopiesName, TrackedInv, [Next]_vars PROVE TrackedInv'
    OBVIOUS
  <2>1. ASSUME NEW p \in Workers, LoopStep(p) \/ CallerStep(p) PROVE TrackedInv'
    BY <2>1, WorkersTrack DEF LoopStep, CallerStep
  <2>2. CASE StatusStep
    BY <2>2, StatusTracks DEF StatusStep
  <2>3. CASE ApiStep
    BY <2>3, QueueTracks DEF ApiStep
  <2>4. ~Crash
    BY DEF Crash, SteadyClient
  <2>5. ASSUME NEW r \in Releases, TorrentMove(r) PROVE TrackedInv'
    <3>1. NothingAppears
      <4>1. PICK move \in TorrentMoves : /\ torrent[r] = move[1]
                                         /\ torrent' = [torrent EXCEPT ![r] = move[2]]
        BY <2>5 DEF TorrentMove, TransferStep
      <4>2. move[1] # "absent"
        BY PipelineAssumption
      <4>3. QED
        BY <4>1, <4>2, RowFacts DEF NothingAppears, Owned, SteadyClient
    <3>2. RowsStay /\ RecordersStay
      BY <2>5, UntouchedRowsStay
      DEF TorrentMove, storeVars, jobVars, statusVars, deleteVars, Doomed, RecordersStay
    <3>3. QED
      BY <3>1, <3>2, StillTracked
  <2>6. CASE (\E i \in Items : LeaseExpires(i) \/ RowStays(i)) \/ UNCHANGED vars
    <3>1. UNCHANGED <<grab, grabs, torrent, pc, pick, statusVars, deleteVars>>
      BY <2>6 DEF LeaseExpires, RowStays, vars, storeVars, grabVars, jobVars
    <3>2. RowsStay /\ RecordersStay /\ NothingAppears
      BY <3>1, UntouchedRowsStay
      DEF statusVars, deleteVars, Doomed, RecordersStay, NothingAppears, Owned
    <3>3. QED
      BY <3>2, StillTracked
  <2>7. QED
    BY <2>1, <2>2, <2>3, <2>4, <2>5, <2>6, WorkerKinds DEF Next
<1>3. TrackedInv => OwnedTorrentTracked
  BY DEF TrackedInv, OwnedTorrentTracked, Recording, Tracks
<1>4. QED
  BY <1>1, <1>2, <1>3, TypeCorrect, CopiesInvariant, PTL DEF Spec

-------------------------------------------------------------------------------
(* The fallbacks of one search result.                                     *)

LEMMA NextGrows == ASSUME TypeOK, CopiesName, [Next]_vars PROVE RowsGrow
<1>1. ASSUME NEW p \in Workers, LoopStep(p) \/ CallerStep(p) PROVE RowsGrow
  BY <1>1, WorkersGrow DEF LoopStep, CallerStep
<1>2. CASE StatusStep \/ ApiStep
  BY <1>2, StatusGrows, QueueCopies DEF StatusStep, ApiStep
<1>3. CASE \/ \E r \in Releases : TorrentMove(r)
           \/ Crash
           \/ \E i \in Items : LeaseExpires(i) \/ RowStays(i)
           \/ UNCHANGED vars
  BY <1>3 DEF TorrentMove, Crash, LeaseExpires, RowStays, vars, storeVars, grabVars, RowsGrow,
         SameGrab
<1>4. QED
  BY <1>1, <1>2, <1>3, WorkerKinds DEF Next

(* How a step moves the copies of the status loop: it keeps them, takes    *)
(* one of every live grab, drops some, or goes on to one of them.          *)
LEMMA CopyMoves ==
  ASSUME TypeOK, [Next]_vars
  PROVE  \/ UNCHANGED <<snap, spc, cur>>
         \/ snap' = ActiveGrabs /\ spc' = "polling" /\ UNCHANGED <<grab, grabs>>
         \/ snap' \subseteq snap /\ spc' \in {"idle", "polling", "visiting"}
         \/ cur' \in snap /\ snap' = snap \ {cur'}
         \/ spc \notin {"idle", "polling", "visiting"} /\ UNCHANGED <<snap, cur>>
<1>1. CASE StatusNext
  <2>1. CASE \E g \in GrabIds : VisitGrab(g)
    BY <2>1 DEF VisitGrab, WaitForMissing, NotePaused, NoteQueued, NoteDownloading, NoteRefused,
                BeginComplete, BeginFail, RemoveFails, Visit, Oldest
  <2>2. CASE StatusRead \/ StatusPoll \/ PollFails \/ StatusDone
    BY <2>2 DEF StatusRead, StatusPoll, PollFails, StatusDone, SGoto, storeVars, grabVars
  <2>3. CASE WorkGrab \/ (\E i \in Items : WorkItem(i)) \/ (\E r \in Releases : FallbackStart(r))
    BY <2>3
    DEF WorkGrab, AdvanceEnds, CompleteAborts, CompleteAlready, CompleteRow,
        CompleteRowRefused, ImportBegin, ImportFails, ImportDone, RejectDone, MarkStalled,
        MarkStalledFails, FailDone, FallbackNone, FallbackDone, WorkItem, AdvanceItem,
        CompleteItem, ImportItem, RejectItem, FailItem, FailItemAborts, FallbackStart, NextGrab
  <2>4. QED
    BY <1>1, <2>1, <2>2, <2>3 DEF StatusNext
<1>2. CASE QueueNext
  BY <1>2 DEF QueueNext, DeleteRead, DeleteRemove, DeleteMark, DeleteDone, DeleteFails,
              DeleteRetry, RequestSearch, Unmonitor, ManualGrab, statusVars
<1>3. CASE ~StatusNext /\ ~QueueNext
  BY <1>3 DEF Next, LoopStep, CallerStep, StatusStep, ApiStep, TorrentMove, Crash, LeaseExpires,
              RowStays, vars, statusVars
<1>4. QED
  BY <1>1, <1>2, <1>3

LEMMA OneCopyInvariant == Spec => []OneCopyEach
<1>1. Init => OneCopyEach
  BY DEF Init, StatusInit, OneCopyEach
<1>2. /\ TypeOK /\ CopiesName /\ OneActiveGrabPerSubject /\ OneCopyEach /\ [Next]_vars
      => OneCopyEach'
  <2> SUFFICES ASSUME TypeOK, CopiesName, OneActiveGrabPerSubject, OneCopyEach, [Next]_vars
               PROVE  OneCopyEach'
    OBVIOUS
  <2>1. RowsGrow
    BY NextGrows
  <2>2. /\ \A g \in snap : grab'[g].subject = grab[g].subject
        /\ spc \notin {"idle", "polling", "visiting"} => grab'[cur].subject = grab[cur].subject
    BY <2>1 DEF RowsGrow, SameGrab, CopiesName, Copies
  <2>3. CASE UNCHANGED <<snap, spc, cur>>
    BY <2>2, <2>3 DEF OneCopyEach
  <2>4. CASE snap' = ActiveGrabs /\ spc' = "polling" /\ UNCHANGED <<grab, grabs>>
    BY <2>4 DEF OneCopyEach, OneActiveGrabPerSubject
  <2>5. CASE snap' \subseteq snap /\ spc' \in {"idle", "polling", "visiting"}
    BY <2>2, <2>5 DEF OneCopyEach
  <2>6. CASE cur' \in snap /\ snap' = snap \ {cur'}
    BY <2>2, <2>6 DEF OneCopyEach
  <2>7. CASE spc \notin {"idle", "polling", "visiting"} /\ UNCHANGED <<snap, cur>>
    BY <2>2, <2>7 DEF OneCopyEach
  <2>8. QED
    BY <2>3, <2>4, <2>5, <2>6, <2>7, CopyMoves
<1>3. QED
  BY <1>1, <1>2, TypeCorrect, CopiesInvariant, OneLiveGrab, PTL DEF Spec

(* The status loop does nothing else while the grab of a fallback runs.    *)
LEMMA StatusTurn ==
  ASSUME TypeOK, LeaseInv, StatusNext
  PROVE  /\ pc[Status] = "idle"
         /\ UNCHANGED jobVars \/ \E r \in Releases : FallbackStart(r)
<1>1. spc # "grabbing" => pc[Status] = "idle"
  BY DEF LeaseInv, ImportLease
<1>2. ASSUME NEW g \in GrabIds, VisitGrab(g) PROVE spc # "grabbing" /\ UNCHANGED jobVars
  BY <1>2 DEF VisitGrab, WaitForMissing, NotePaused, NoteQueued, NoteDownloading, NoteRefused,
              BeginComplete, BeginFail, RemoveFails, Visit
<1>3. ASSUME NEW i \in Items, WorkItem(i) PROVE spc # "grabbing" /\ UNCHANGED jobVars
  BY <1>3 DEF WorkItem, AdvanceItem, CompleteItem, ImportItem, RejectItem, FailItem,
              FailItemAborts
<1>4. CASE FallbackDone
  BY <1>4 DEF FallbackDone
<1>5. CASE WorkGrab /\ ~FallbackDone
  <2>1. spc # "grabbing" /\ UNCHANGED jobVars
    BY <1>5 DEF WorkGrab, AdvanceEnds, CompleteAborts, CompleteAlready, CompleteRow,
                CompleteRowRefused, ImportBegin, ImportFails, ImportDone, RejectDone, MarkStalled,
                MarkStalledFails, FailDone, FallbackNone
  <2>2. QED
    BY <1>1, <2>1
<1>6. CASE StatusRead \/ StatusPoll \/ PollFails \/ StatusDone
  <2>1. spc # "grabbing" /\ UNCHANGED jobVars
    BY <1>6 DEF StatusRead, StatusPoll, PollFails, StatusDone
  <2>2. QED
    BY <1>1, <2>1
<1>7. ASSUME NEW r \in Releases, FallbackStart(r) PROVE spc # "grabbing"
  BY <1>7 DEF FallbackStart
<1>8. QED
  BY <1>1, <1>2, <1>3, <1>4, <1>5, <1>6, <1>7 DEF StatusNext

WorkerStep(p) ==
  \/ p \in Loops /\ LoopStep(p)
  \/ p \in Callers /\ CallerStep(p)

(* A worker moves on by itself; one that serves grabs does not begin one.  *)
LEMMA WorkerTurn ==
  ASSUME TypeOK, NEW p \in Workers, WorkerStep(p)
  PROVE  /\ \A q \in Workers \ {p} : pc'[q] = pc[q] /\ target'[q] = target[q]
         /\ p \in Callers => /\ pc[p] # "idle"
                             /\ pc'[p] # "idle" => target'[p] = target[p]
         /\ UNCHANGED statusVars
<1>1. pc \in [Workers -> PC] /\ target \in [Workers -> Items]
  BY LeaseFacts
<1>2. \A q \in Workers \ {p} : pc'[q] = pc[q] /\ target'[q] = target[q]
  BY <1>1
  DEF WorkerStep, LoopStep, CallerStep, LoopNext, SearchBegin, SearchBusy, SearchLease,
      SearchCheck, SearchSkip, SearchStart,
      SearchNotStarted, SearchEvaluate, SearchNoRelease, SearchStoreError, GrabNext,
      GrabRequest, GrabStart, GrabRefused, HandOff, PackRead, PackLock, PackBusy,
      AddDownload, AddRefused, SearchAbandoned, Record, RecordFails, Reschedule, Finish, Goto
<1>3. ASSUME GrabNext(p) \/ HandOff(p)
      PROVE  pc[p] # "idle" /\ (pc'[p] # "idle" => target'[p] = target[p])
  BY <1>1, <1>3
  DEF GrabNext, GrabRequest, GrabStart, GrabRefused, HandOff, PackRead, PackLock,
      PackBusy, Leasing, AddDownload, AddRefused, SearchAbandoned, Record, RecordFails,
      Reschedule, Finish, Goto
<1>4. p \in Callers => pc[p] # "idle" /\ (pc'[p] # "idle" => target'[p] = target[p])
  BY <1>3, WorkersAssumption DEF WorkerStep, LoopStep, CallerStep
<1>5. QED
  BY <1>2, <1>4 DEF WorkerStep, LoopStep, CallerStep

(* The stored-release grab is the fallback's alone, for the item of the    *)
(* grab it replaces.                                                       *)
LEMMA FallbackGrabs ==
  ASSUME "grab" \notin Requests PROVE Spec => []FallbackIsOwn
<1>1. Init => FallbackIsOwn
  BY WorkerKinds DEF Init, AcquisitionInit, FallbackIsOwn
<1>2. TypeOK /\ CopiesName /\ LeaseInv /\ FallbackIsOwn /\ [Next]_vars => FallbackIsOwn'
  <2> SUFFICES ASSUME TypeOK, CopiesName, LeaseInv, FallbackIsOwn, [Next]_vars
               PROVE  FallbackIsOwn'
    OBVIOUS
  <2>1. pc \in [Workers -> PC] /\ target \in [Workers -> Items] /\ Status \in Workers
    BY LeaseFacts, WorkerKinds
  <2>2. RowsGrow
    BY NextGrows
  <2>3. pc[Status] # "idle" => grab'[cur].subject = grab[cur].subject
    BY <2>2 DEF RowsGrow, SameGrab, CopiesName, Copies, LeaseInv, ImportLease
  <2>4. ASSUME NEW p \in Workers, WorkerStep(p)
        PROVE  FallbackIsOwn'
    <3>1. /\ \A q \in Workers \ {p} : pc'[q] = pc[q] /\ target'[q] = target[q]
          /\ p \in Callers => /\ pc[p] # "idle"
                              /\ pc'[p] # "idle" => target'[p] = target[p]
          /\ cur' = cur
      BY <2>4, WorkerTurn DEF statusVars
    <3>2. \A q \in Callers \ {Status} : pc'[q] = "idle"
      BY <3>1, WorkerKinds DEF FallbackIsOwn
    <3>3. pc'[Status] # "idle" => pc[Status] # "idle" /\ target'[Status] = target[Status]
      BY <2>1, <3>1, WorkersAssumption
    <3>4. QED
      BY <2>3, <3>1, <3>2, <3>3 DEF FallbackIsOwn
  <2>5. CASE StatusStep
    <3>1. pc[Status] = "idle" /\ (UNCHANGED jobVars \/ \E r \in Releases : FallbackStart(r))
      BY <2>5, StatusTurn DEF StatusStep
    <3>2. ASSUME NEW r \in Releases, FallbackStart(r) PROVE FallbackIsOwn'
      <4>1. /\ target'[Status] = row.subject /\ grab' = grab /\ cur' = cur /\ spc = "fallback"
            /\ \A q \in Callers \ {Status} : pc'[q] = pc[q]
        BY <2>1, <3>2, WorkerKinds DEF FallbackStart, GrabCheck, Goto, storeVars
      <4>2. QED
        BY <4>1 DEF FallbackIsOwn, CopiesName, Copies
    <3>3. QED
      BY <3>1, <3>2 DEF FallbackIsOwn, jobVars
  <2>6. CASE ApiStep
    <3>1. UNCHANGED <<pc, target, cur>>
      BY <2>6
      DEF ApiStep, QueueNext, DeleteRead, DeleteRemove, DeleteMark, DeleteDone, DeleteFails,
          DeleteRetry, RequestSearch, Unmonitor, ManualGrab, statusVars, jobVars
    <3>2. QED
      BY <2>3, <3>1 DEF FallbackIsOwn
  <2>7. CASE Crash
    BY <2>7, WorkerKinds DEF Crash, FallbackIsOwn
  <2>8. CASE \/ \E r \in Releases : TorrentMove(r)
             \/ \E i \in Items : LeaseExpires(i) \/ RowStays(i)
             \/ UNCHANGED vars
    BY <2>3, <2>8 DEF TorrentMove, LeaseExpires, RowStays, vars, jobVars, statusVars, FallbackIsOwn
  <2>9. QED
    BY <2>4, <2>5, <2>6, <2>7, <2>8, WorkerKinds DEF Next, WorkerStep
<1>3. QED
  BY <1>1, <1>2, TypeCorrect, CopiesInvariant, LeasesInvariant, PTL DEF Spec

(* Grabs of the candidates an item has now: a search gives new candidates, *)
(* and only CreateGrabbedFor inserts a row.                                *)
LEMMA RowsOrCandidates ==
  ASSUME TypeOK, CopiesName, [Next]_vars
  PROVE  \/ \E p \in Workers : WorkerStep(p) /\ Record(p)
         \/ /\ grabs' = grabs
            /\ \A i \in Items : evaluated'[i] \in {evaluated[i], grabs}
<1> SUFFICES ASSUME ~\E p \in Workers : WorkerStep(p) /\ Record(p)
             PROVE  grabs' = grabs /\ \A i \in Items : evaluated'[i] \in {evaluated[i], grabs}
  OBVIOUS
<1> USE DEF storeVars, grabVars, candVars
<1>1. evaluated \in [Items -> 0 .. MaxGrabs]
  BY DEF TypeOK, StoreTypeOK
<1>2. ASSUME NEW p \in Workers, WorkerStep(p)
      PROVE  grabs' = grabs /\ \A i \in Items : evaluated'[i] \in {evaluated[i], grabs}
  BY <1>1, <1>2
  DEF WorkerStep, LoopStep, CallerStep, LoopNext, SearchBegin, SearchBusy, SearchLease,
      SearchCheck, SearchSkip,
      SearchStart, SearchNotStarted, SearchEvaluate, SearchNoRelease, SearchStoreError, GrabNext,
      GrabRequest, GrabStart, GrabRefused, HandOff, PackRead, PackLock, PackBusy,
      AddDownload, AddRefused, SearchAbandoned, RecordFails, Reschedule
<1>3. CASE StatusStep
  BY <1>3
  DEF StatusStep, StatusNext, StatusRead, StatusPoll, PollFails, StatusDone, VisitGrab,
      WaitForMissing, NotePaused, NoteQueued, NoteDownloading, NoteRefused, BeginComplete,
      BeginFail,
      RemoveFails, WorkItem, AdvanceItem, CompleteItem, ImportItem, RejectItem, FailItem,
      FailItemAborts, WorkGrab, AdvanceEnds, CompleteAborts, CompleteAlready, CompleteRow,
      CompleteRowRefused, ImportBegin, ImportFails, ImportDone, RejectDone, MarkStalled,
      MarkStalledFails, FailDone, FallbackNone, FallbackDone, FallbackStart, GrabCheck
<1>4. CASE ApiStep
  BY <1>4
  DEF ApiStep, QueueNext, DeleteRead, DeleteRemove, DeleteMark, DeleteDone, DeleteFails,
      DeleteRetry, RequestSearch, Unmonitor, ManualGrab, GrabCheck
<1>5. CASE \/ \E r \in Releases : TorrentMove(r)
           \/ Crash
           \/ \E i \in Items : LeaseExpires(i) \/ RowStays(i)
           \/ UNCHANGED vars
  BY <1>5 DEF TorrentMove, Crash, LeaseExpires, RowStays, vars
<1>6. QED
  BY <1>2, <1>3, <1>4, <1>5, WorkerKinds DEF Next, WorkerStep

LEMMA GrabsStayOld ==
  ASSUME TypeOK, CopiesName, [Next]_vars, NEW i \in Items
  PROVE  \/ NewGrabs(i)' \subseteq NewGrabs(i)
         \/ \E p \in Workers : WorkerStep(p) /\ Record(p) /\ target[p] = i
<1>0. grabs \in Nat /\ evaluated[i] \in Nat
  BY RowFacts DEF TypeOK, StoreTypeOK
<1>1. ASSUME NEW p \in Workers, Record(p), target[p] # i
      PROVE  NewGrabs(i)' \subseteq NewGrabs(i)
  <2>1. evaluated' = evaluated
    BY <1>1 DEF Record, candVars
  <2>2. /\ \A h \in 1 .. grabs : grab'[h] = grab[h]
        /\ grabs' = grabs + 1
        /\ grab'[grabs + 1] = [st |-> "pending", subject |-> target[p], release |-> pick[p]]
    BY <1>1, RecordAdds
  <2>3. \A g \in 1 .. grabs + 1 : g = grabs + 1 \/ g \in 1 .. grabs
    BY <1>0
  <2>4. QED
    BY <1>1, <2>1, <2>2, <2>3 DEF NewGrabs
<1>2. ASSUME grabs' = grabs, evaluated'[i] \in {evaluated[i], grabs}
      PROVE  NewGrabs(i)' \subseteq NewGrabs(i)
  <2>1. \A g \in 1 .. grabs : grab'[g].subject = grab[g].subject
    BY NextGrows DEF RowsGrow, SameGrab
  <2>2. \A g \in 1 .. grabs : g > evaluated'[i] => g > evaluated[i]
    BY <1>0, <1>2
  <2>3. QED
    BY <1>2, <2>1, <2>2 DEF NewGrabs
<1>3. QED
  BY <1>1, <1>2, RowsOrCandidates

(* Once a lease on an item has run out under its holder, that is so.       *)
LEMMA OverrunGrows == ASSUME [Next]_vars PROVE overrun \subseteq overrun'
  BY DEF Next, LoopStep, CallerStep, StatusStep, ApiStep, TorrentMove, Crash, LeaseExpires,
         RowStays, envVars, vars

(* Two busy workers have different targets: each holds its own, unless a   *)
(* lease on it has run out.                                                *)
LEMMA TargetsDiffer ==
  ASSUME TypeOK, LeaseInv, NEW p \in Workers, NEW q \in Workers, p # q,
         target[p] \notin overrun,
         pc[p] \in {"searching", "pack", "lease", "record"},
         pc[q] \in {"searching", "pack", "lease", "record"}
  PROVE  target[p] # target[q]
  BY DEF LeaseInv, BusyHoldsTarget, HeldIsLeased

(* A loop evaluates its candidates and hands the best one over before      *)
(* anybody grabs for the item it holds.                                    *)
LEMMA SearchesAreFresh == Spec => []FreshSearch
<1>1. Init => FreshSearch
  BY WorkerKinds DEF Init, AcquisitionInit, FreshSearch
<1>2. TypeOK /\ CopiesName /\ LeaseInv /\ FreshSearch /\ [Next]_vars => FreshSearch'
  <2> SUFFICES ASSUME TypeOK, CopiesName, LeaseInv, FreshSearch, [Next]_vars,
                      NEW p \in Loops, NEW i,
                      pc'[p] \in {"pack", "lease", "record"}, target'[p] = i,
                      i \notin overrun'
               PROVE  NewGrabs(i)' = {}
    BY DEF FreshSearch, NewGrabs
  <2>0. /\ p \in Workers /\ p # Status /\ target[p] \in Items
        /\ pc \in [Workers -> PC] /\ target \in [Workers -> Items]
        /\ evaluated \in [Items -> 0 .. MaxGrabs] /\ grabs \in Nat
    BY LeaseFacts, RowFacts, WorkerKinds, WorkersAssumption
    DEF TypeOK, StoreTypeOK
  <2>3. i \notin overrun
    BY OverrunGrows
  <2>1. CASE SearchEvaluate(p)
    <3>1. target' = target /\ grabs' = grabs /\ evaluated'[target[p]] = grabs
      BY <2>0, <2>1 DEF SearchEvaluate, grabVars
    <3>2. \A g \in 1 .. grabs : ~(g > grabs)
      BY <2>0
    <3>3. QED
      BY <3>1, <3>2 DEF NewGrabs
  <2>2. CASE ~SearchEvaluate(p)
    <3>1. pc[p] \in {"pack", "lease", "record"} /\ target'[p] = target[p]
      <4>1. CASE LoopStep(p)
        BY <2>0, <2>2, <4>1
        DEF LoopStep, LoopNext, SearchBegin, SearchBusy, SearchLease, SearchCheck, SearchSkip,
            SearchStart,
            SearchNotStarted, SearchNoRelease, SearchStoreError, HandOff, PackRead, PackLock,
            PackBusy, Leasing, AddDownload, AddRefused, SearchAbandoned, Record, RecordFails,
            Reschedule, Finish, Goto
      <4>2. ASSUME NEW q \in Workers, q # p, WorkerStep(q)
            PROVE  pc'[p] = pc[p] /\ target'[p] = target[p]
        BY <4>2, <2>0, WorkerTurn
      <4>3. CASE StatusStep
        <5>1. UNCHANGED jobVars \/ \E r \in Releases : FallbackStart(r)
          BY <4>3, StatusTurn DEF StatusStep
        <5>2. QED
          BY <2>0, <5>1 DEF FallbackStart, GrabCheck, Goto, jobVars
      <4>4. CASE ApiStep
        <5>1. UNCHANGED jobVars \/ \E q \in Callers, j \in Items, r \in Releases : GrabCheck(q, j, r)
          BY <4>4
          DEF ApiStep, QueueNext, DeleteRead, DeleteRemove, DeleteMark, DeleteDone, DeleteFails,
              DeleteRetry, RequestSearch, Unmonitor, ManualGrab
        <5>2. \A q \in Callers : q # p
          BY WorkersAssumption
        <5>3. QED
          BY <2>0, <5>1, <5>2 DEF GrabCheck, Goto, jobVars
      <4>5. CASE Crash
        BY <2>0, <4>5 DEF Crash
      <4>6. CASE \/ \E r \in Releases : TorrentMove(r)
                 \/ \E j \in Items : LeaseExpires(j) \/ RowStays(j)
                 \/ UNCHANGED vars
        BY <4>6 DEF TorrentMove, LeaseExpires, RowStays, vars, jobVars
      <4>7. QED
        BY <4>1, <4>2, <4>3, <4>4, <4>5, <4>6, WorkerKinds, WorkersAssumption DEF Next, WorkerStep
    <3>2. ~\E q \in Workers : WorkerStep(q) /\ Record(q) /\ target[q] = target[p]
      <4> SUFFICES ASSUME NEW q \in Workers, WorkerStep(q), Record(q), target[q] = target[p]
                   PROVE  FALSE
        OBVIOUS
      <4>1. pc[q] = "record" /\ pc'[q] = "idle"
        BY <2>0 DEF Record, Finish
      <4>2. QED
        BY <2>0, <2>3, <3>1, <4>1, TargetsDiffer
    <3>3. NewGrabs(i)' \subseteq NewGrabs(i)
      BY <2>0, <3>1, <3>2, GrabsStayOld
    <3>4. QED
      BY <2>3, <3>1, <3>3 DEF FreshSearch
  <2>4. QED
    BY <2>1, <2>2
<1>3. QED
  BY <1>1, <1>2, TypeCorrect, CopiesInvariant, LeasesInvariant, PTL DEF Spec

(* What is spent only ever counts rows there are.                          *)
LEMMA RowsAreCounted ==
  ASSUME NEW n \in Nat, NEW S, S \subseteq 1 .. n
  PROVE  IsFiniteSet(S) /\ Cardinality(S) \in Nat
<1>1. IsFiniteSet(1 .. n)
  BY FS_Interval
<1>2. IsFiniteSet(S)
  BY <1>1, FS_Subset
<1>3. QED
  BY <1>2, FS_CardinalityType

LEMMA SpentIsFinite ==
  ASSUME TypeOK, NEW i
  PROVE  IsFiniteSet(Spent(i)) /\ Cardinality(Spent(i)) \in Nat
<1>1. Spent(i) \subseteq 1 .. grabs /\ grabs \in Nat
  BY RowFacts DEF Spent, NewGrabs
<1>2. QED
  BY <1>1, RowsAreCounted

LEMMA FewerSpent ==
  ASSUME TypeOK, NEW i, NEW S, S \subseteq Spent(i)
  PROVE  Cardinality(S) \in Nat /\ Cardinality(S) <= Cardinality(Spent(i))
  BY SpentIsFinite, FS_Subset, FS_CardinalityType

(* A step that spends nothing more keeps the limit.                        *)
LEMMA LimitKept ==
  ASSUME TypeOK, WithinLimit, overrun \subseteq overrun',
         \A i \in Items : Spent(i)' \subseteq Spent(i)
  PROVE  WithinLimit'
<1> SUFFICES ASSUME NEW i \in Items \ overrun
             PROVE  Cardinality(Spent(i)') <= MaxFallbacks + 1
  BY DEF WithinLimit
<1>1. /\ Cardinality(Spent(i)') \in Nat /\ Cardinality(Spent(i)) \in Nat
      /\ Cardinality(Spent(i)') <= Cardinality(Spent(i))
  BY FewerSpent, SpentIsFinite
<1>2. Cardinality(Spent(i)) <= MaxFallbacks + 1 /\ MaxFallbacks \in Nat
  BY StatusAssumption DEF WithinLimit
<1>3. QED
  BY <1>1, <1>2

(* A new row: no more than one for the items of a fresh search, and no     *)
(* more than one beyond those that let the fallback start.                 *)
LEMMA RecordKeepsLimit ==
  ASSUME TypeOK, CopiesName, FallbackInv, NEW p \in Workers, WorkerStep(p), Record(p),
         NEW i \in Items, target[p] = i, NEW new, new = grabs + 1
  PROVE  WithinLimit' /\ RoomForOne'
<1>1. /\ pc[p] = "record" /\ pc' = [pc EXCEPT ![p] = "idle"]
      /\ UNCHANGED <<evaluated, snap, spc, cur, overrun>>
      /\ ~HasActiveGrab(i)
      /\ \A q \in Workers \ {p} : target'[q] = target[q]
  BY LeaseFacts
  DEF Record, Finish, CanCreateGrabbed, candVars, WorkerStep, LoopStep, CallerStep, statusVars,
      envVars
<1>2. /\ \A h \in 1 .. grabs : grab'[h] = grab[h]
      /\ grabs' = new
      /\ grab'[new] = [st |-> "pending", subject |-> i, release |-> pick[p]]
  BY RecordAdds
<1>3. grabs \in Nat /\ \A h \in 1 .. new : h \in 1 .. grabs \/ h = new
  BY RowFacts
<1>4. i \in Items /\ MaxFallbacks \in Nat
  BY StatusAssumption
<1>5. \A j : NewGrabs(j)' \subseteq NewGrabs(j) \cup {new}
  BY <1>1, <1>2, <1>3 DEF NewGrabs
<1>6. \A j : j # i => new \notin NewGrabs(j)'
  BY <1>2 DEF NewGrabs
<1>7. \A j : Spent(j)' \subseteq Spent(j) \cup {new}
  <2>1. \A h : InHand(h)' <=> InHand(h)
    BY <1>1 DEF InHand
  <2>2. QED
    BY <1>2, <1>5, <2>1 DEF Spent, NewGrabs
<1>8. \A j : j # i => Spent(j)' \subseteq Spent(j)
  BY <1>6, <1>7 DEF Spent
<1>9. ASSUME i \notin overrun PROVE Cardinality(Spent(i)) <= MaxFallbacks
  <2>1. CASE p \in Loops
    <3>1. NewGrabs(i) = {}
      BY <1>1, <1>9, <2>1 DEF FallbackInv, FreshSearch
    <3>2. Spent(i) = {}
      BY <3>1 DEF Spent
    <3>3. QED
      BY <1>4, <3>2, FS_EmptySet
  <2>2. CASE p = Status
    <3>1. NewGrabs(i) \cap ActiveGrabs = {}
      BY <1>1 DEF NewGrabs, HasActiveGrab
    <3>2. QED
      BY <1>1, <1>9, <2>2, <3>1 DEF FallbackInv, RoomForOne
  <2>3. CASE p \in Callers \ {Status}
    BY <1>1, <2>3 DEF FallbackInv, FallbackIsOwn
  <2>4. QED
    BY <2>1, <2>2, <2>3 DEF WorkerStep
<1>10. WithinLimit'
  <2> SUFFICES ASSUME NEW j \in Items \ overrun
               PROVE  Cardinality(Spent(j)') <= MaxFallbacks + 1
    BY <1>1 DEF WithinLimit
  <2>1. CASE j = i
    <3>1. /\ IsFiniteSet(Spent(i)) /\ Cardinality(Spent(i)) \in Nat
      BY SpentIsFinite
    <3>2. /\ IsFiniteSet(Spent(i) \cup {new})
          /\ Cardinality(Spent(i) \cup {new}) \in {Cardinality(Spent(i)), Cardinality(Spent(i)) + 1}
      BY <3>1, FS_AddElement
    <3>3. /\ Cardinality(Spent(i)') \in Nat
          /\ Cardinality(Spent(i)') <= Cardinality(Spent(i) \cup {new})
      BY <1>7, <3>2, FS_Subset, FS_CardinalityType
    <3>4. QED
      BY <1>4, <1>9, <2>1, <3>1, <3>2, <3>3
  <2>2. CASE j # i
    <3>1. /\ Cardinality(Spent(j)') \in Nat /\ Cardinality(Spent(j)) \in Nat
          /\ Cardinality(Spent(j)') <= Cardinality(Spent(j))
      BY <1>8, <2>2, FewerSpent, SpentIsFinite
    <3>2. Cardinality(Spent(j)) <= MaxFallbacks + 1
      BY DEF FallbackInv, WithinLimit
    <3>3. QED
      BY <1>4, <3>1, <3>2
  <2>3. QED
    BY <2>1, <2>2
<1>11. RoomForOne'
  <2> SUFFICES ASSUME pc'[Status] # "idle", NEW j, target'[Status] = j, j \notin overrun
               PROVE  Cardinality(Spent(j)') <= MaxFallbacks \/ (NewGrabs(j) \cap ActiveGrabs)' # {}
    BY <1>1 DEF RoomForOne, Spent, NewGrabs, InHand, ActiveGrabs
  <2>1. Status # p /\ pc[Status] # "idle" /\ target[Status] = j /\ j \in Items
    BY <1>1, LeaseFacts, WorkerKinds
  <2>2. CASE j = i
    <3>1. CASE new \in NewGrabs(i)'
      <4>1. new \in ActiveGrabs'
        BY <1>2, <1>3, <3>1 DEF ActiveGrabs, ActiveGrab, NewGrabs
      <4>2. QED
        BY <2>2, <3>1, <4>1
    <3>2. CASE new \notin NewGrabs(i)'
      <4>1. Spent(i)' \subseteq Spent(i)
        BY <1>7, <3>2 DEF Spent
      <4>2. /\ Cardinality(Spent(i)') \in Nat /\ Cardinality(Spent(i)) \in Nat
            /\ Cardinality(Spent(i)') <= Cardinality(Spent(i))
        BY <4>1, FewerSpent, SpentIsFinite
      <4>3. QED
        BY <1>4, <1>9, <2>2, <4>2
    <3>3. QED
      BY <3>1, <3>2
  <2>3. CASE j # i
    <3>1. CASE Cardinality(Spent(j)) <= MaxFallbacks
      <4>1. /\ Cardinality(Spent(j)') \in Nat /\ Cardinality(Spent(j)) \in Nat
            /\ Cardinality(Spent(j)') <= Cardinality(Spent(j))
        BY <1>8, <2>3, FewerSpent, SpentIsFinite
      <4>2. QED
        BY <1>4, <3>1, <4>1
    <3>2. CASE NewGrabs(j) \cap ActiveGrabs # {}
      <4>1. \A h \in 1 .. grabs : h \in 1 .. grabs'
        BY <1>2, <1>3
      <4>2. NewGrabs(j) \cap ActiveGrabs \subseteq NewGrabs(j)' \cap ActiveGrabs'
        BY <1>1, <1>2, <4>1 DEF NewGrabs, ActiveGrabs
      <4>3. QED
        BY <3>2, <4>2
    <3>3. QED
      BY <2>1, <3>1, <3>2 DEF FallbackInv, RoomForOne
  <2>4. QED
    BY <2>2, <2>3
<1>12. QED
  BY <1>10, <1>11

(* A step that writes no row, whatever candidates a search finds.          *)
LEMMA SameRowsKeepLimit ==
  ASSUME TypeOK, FallbackInv, UNCHANGED <<grab, grabs, snap, spc, cur>>,
         overrun \subseteq overrun',
         \A i \in Items : evaluated'[i] \in {evaluated[i], grabs},
         pc'[Status] # "idle" => pc[Status] # "idle" /\ target'[Status] = target[Status]
  PROVE  WithinLimit' /\ RoomForOne'
<1>1. grabs \in Nat /\ Status \in Workers /\ MaxFallbacks \in Nat
  BY RowFacts, WorkerKinds, StatusAssumption
<1>2. \A g : g \in 1 .. grabs => ~(g > grabs)
  BY <1>1
<1>3. ASSUME NEW i \in Items
      PROVE  \/ NewGrabs(i)' = NewGrabs(i) /\ Spent(i)' = Spent(i)
             \/ Spent(i)' = {}
  <2>1. \/ NewGrabs(i)' = NewGrabs(i)
        \/ NewGrabs(i)' = {}
    BY <1>2, <1>3 DEF NewGrabs
  <2>2. QED
    BY <2>1 DEF Spent, InHand
<1>4. WithinLimit'
  BY <1>3, LimitKept DEF FallbackInv
<1>5. RoomForOne'
  <2> SUFFICES ASSUME pc'[Status] # "idle", NEW i \in Items, target'[Status] = i,
                      i \notin overrun
               PROVE  Cardinality(Spent(i)') <= MaxFallbacks \/ (NewGrabs(i) \cap ActiveGrabs)' # {}
    BY <1>1, LeaseFacts DEF RoomForOne, Spent, NewGrabs, InHand, ActiveGrabs
  <2>1. Cardinality(Spent(i)) <= MaxFallbacks \/ NewGrabs(i) \cap ActiveGrabs # {}
    BY DEF FallbackInv, RoomForOne
  <2>2. ActiveGrabs' = ActiveGrabs
    BY DEF ActiveGrabs
  <2>3. CASE NewGrabs(i)' = NewGrabs(i) /\ Spent(i)' = Spent(i)
    BY <2>1, <2>2, <2>3
  <2>4. CASE Spent(i)' = {}
    BY <1>1, <2>4, FS_EmptySet
  <2>5. QED
    BY <1>3, <2>3, <2>4
<1>6. QED
  BY <1>4, <1>5

(* The status loop writes rows it has in hand.                             *)
LEMMA StatusSpends ==
  ASSUME TypeOK, CopiesName, StatusNext, NEW g \in 1 .. grabs,
         grab'[g].st \in MayFail \/ InHand(g)'
  PROVE  grab[g].st \in MayFail \/ InHand(g)
<1> USE DEF storeVars, grabVars, InHand, SGoto
<1>1. g \in GrabIds /\ grab \in [GrabIds -> GrabRow]
  BY RowFacts
<1>2. ASSUME NEW h \in GrabIds, VisitGrab(h)
      PROVE  grab[g].st \in MayFail \/ InHand(g)
  <2>1. /\ h \in snap /\ snap' = snap \ {h} /\ spc = "visiting"
        /\ spc' = "visiting" \/ cur' = h
    BY <1>2 DEF VisitGrab, WaitForMissing, NotePaused, NoteQueued, NoteDownloading, NoteRefused,
                BeginComplete, BeginFail, RemoveFails, Visit, Oldest
  <2>2. grab' = grab \/ \E w : UpdateGrab(h, w)
    BY <1>2 DEF VisitGrab, WaitForMissing, NotePaused, NoteQueued, NoteDownloading, NoteRefused,
                BeginComplete, BeginFail, RemoveFails
  <2>3. g # h => grab'[g] = grab[g]
    BY <1>1, <2>2 DEF UpdateGrab
  <2>4. QED
    BY <2>1, <2>3
<1>3. ASSUME WorkGrab
      PROVE  grab[g].st \in MayFail \/ InHand(g)
  <2>1. \/ grab' = grab
        \/ /\ spc \in {"completing", "importing", "filing", "failing"}
           /\ \E st \in GrabState : UpdateGrab(cur, [row EXCEPT !.st = st])
    BY <1>3
    DEF WorkGrab, AdvanceEnds, CompleteAborts, CompleteAlready, CompleteRow,
        CompleteRowRefused, ImportBegin, ImportFails, ImportDone, RejectDone, MarkStalled,
        MarkStalledFails, FailDone, FallbackNone, FallbackDone, WriteRow, GrabState
  <2>2. grab'[g] = grab[g] \/ InHand(g)
    BY <1>1, <2>1 DEF UpdateGrab
  <2>3. InHand(g)' => InHand(g)
    BY <1>3
    DEF WorkGrab, AdvanceEnds, CompleteAborts, CompleteAlready, CompleteRow,
        CompleteRowRefused, ImportBegin, ImportFails, ImportDone, RejectDone, MarkStalled,
        MarkStalledFails, FailDone, FallbackNone, FallbackDone, NextGrab
  <2>4. QED
    BY <2>2, <2>3
<1>4. CASE StatusRead
  BY <1>4 DEF StatusRead, ActiveGrabs, MayFail
<1>5. CASE \/ StatusPoll \/ PollFails \/ StatusDone
           \/ \E i \in Items : WorkItem(i)
           \/ \E r \in Releases : FallbackStart(r)
  BY <1>5
  DEF StatusPoll, PollFails, StatusDone, WorkItem, AdvanceItem, CompleteItem,
      ImportItem, RejectItem, FailItem, FailItemAborts, FallbackStart, GrabCheck, NextGrab
<1>6. QED
  BY <1>2, <1>3, <1>4, <1>5 DEF StatusNext

(* Before a fallback starts, what is spent is what has failed, unless the  *)
(* item got a live grab in the meantime.                                   *)
LEMMA StatusKeepsLimit ==
  ASSUME TypeOK, CopiesName, LeaseInv, FallbackInv, StatusStep, [Next]_vars
  PROVE  WithinLimit' /\ RoomForOne'
<1>1. ASSUME NEW i \in Items PROVE Spent(i)' \subseteq Spent(i)
  <2>1. ~\E p \in Workers : Record(p)
    <3>1. grabs' = grabs
      BY StatusWrites DEF StatusStep, WritesCopy, MarkStalled
    <3>2. grabs + 1 # grabs
      BY RowFacts
    <3>3. QED
      BY <3>1, <3>2, RecordAdds
  <2>2. NewGrabs(i)' \subseteq NewGrabs(i)
    BY <2>1, GrabsStayOld
  <2>3. \A g \in NewGrabs(i) : g \in 1 .. grabs
    BY DEF NewGrabs
  <2>4. QED
    BY <2>2, <2>3, StatusSpends DEF Spent, StatusStep
<1>2. WithinLimit'
  BY <1>1, LimitKept, OverrunGrows DEF FallbackInv
<1>3. pc[Status] = "idle" /\ (UNCHANGED jobVars \/ \E r \in Releases : FallbackStart(r))
  BY StatusTurn DEF StatusStep
<1>4. CASE UNCHANGED jobVars
  BY <1>2, <1>3, <1>4 DEF RoomForOne, jobVars
<1>5. ASSUME NEW r \in Releases, FallbackStart(r) PROVE RoomForOne'
  <2>1. PICK j \in Items : j = row.subject
    BY RowFacts, RowType DEF GrabState
  <2>2. /\ target'[Status] = j
        /\ UNCHANGED <<grab, grabs, evaluated, snap, cur>>
        /\ spc = "fallback" /\ spc' = "grabbing"
        /\ Cardinality(FailedGrabs(j)) <= MaxFallbacks
    BY <1>5, <2>1, LeaseFacts, WorkerKinds
    DEF FallbackStart, FallbackAllowed, GrabCheck, storeVars, grabVars, candVars, SGoto
  <2>3. grab[cur].subject = j /\ \A g \in snap : grab[g].subject # j
    BY <2>1, <2>2 DEF CopiesName, Copies, FallbackInv, OneCopyEach
  <2>4. NewGrabs(j) \cap ActiveGrabs = {} => Spent(j)' = FailedGrabs(j)
    BY <2>2, <2>3 DEF Spent, NewGrabs, FailedGrabs, InHand, ActiveGrabs, MayFail
  <2>5. (NewGrabs(j) \cap ActiveGrabs)' = NewGrabs(j) \cap ActiveGrabs
    BY <2>2 DEF NewGrabs, ActiveGrabs
  <2>6. Cardinality(Spent(j)') <= MaxFallbacks \/ (NewGrabs(j) \cap ActiveGrabs)' # {}
    BY <2>2, <2>4, <2>5
  <2>7. QED
    BY <2>2, <2>6 DEF RoomForOne, Spent, NewGrabs, InHand, ActiveGrabs
<1>6. QED
  BY <1>2, <1>3, <1>4, <1>5

(* A queue removal closes a row; if it was the live grab that made a       *)
(* fallback more than the limit allows, there is room for one again.       *)
LEMMA RemovalKeepsLimit ==
  ASSUME TypeOK, CopiesName, LeaseInv, FallbackInv, DeleteMark, UNCHANGED overrun
  PROVE  WithinLimit' /\ RoomForOne'
<1>1. /\ Copies(drow, dgrab) /\ drow \in GrabRow /\ dgrab \in 1 .. grabs
      /\ UpdateGrab(dgrab, [drow EXCEPT !.st = "removed"]) /\ "removed" \in GrabState
      /\ UNCHANGED <<grabs, evaluated, snap, spc, cur, pc, target>>
  BY RowFacts DEF CopiesName, Copies, DeleteMark, GrabState, candVars, jobVars, statusVars
<1>2. /\ \A h \in 1 .. grabs : SameGrab(h)
      /\ \A h \in 1 .. grabs : grab'[h].st = IF h = dgrab THEN "removed" ELSE grab[h].st
  BY <1>1, WriteNames
<1>3. "removed" \notin MayFail
  BY DEF MayFail, ActiveGrab
<1>4. \A i : NewGrabs(i)' = NewGrabs(i) /\ \A g \in NewGrabs(i) : g \in 1 .. grabs
  BY <1>1, <1>2 DEF NewGrabs, SameGrab
<1>5. \A g : InHand(g)' <=> InHand(g)
  BY <1>1 DEF InHand
<1>6. \A i : Spent(i)' \subseteq Spent(i)
  BY <1>2, <1>3, <1>4, <1>5 DEF Spent
<1>7. WithinLimit'
  BY <1>6, LimitKept DEF FallbackInv
<1>8. RoomForOne'
  <2>0. Status \in Workers /\ MaxFallbacks \in Nat
    BY WorkerKinds, StatusAssumption
  <2> SUFFICES ASSUME pc[Status] # "idle", NEW i \in Items \ overrun, target[Status] = i
               PROVE  Cardinality(Spent(i)') <= MaxFallbacks \/ (NewGrabs(i) \cap ActiveGrabs)' # {}
    BY <1>1, <2>0, LeaseFacts DEF RoomForOne, Spent, NewGrabs, InHand, ActiveGrabs
  <2>1. /\ Cardinality(Spent(i)') \in Nat /\ Cardinality(Spent(i)) \in Nat
        /\ Cardinality(Spent(i)') <= Cardinality(Spent(i))
    BY <1>6, FewerSpent, SpentIsFinite
  <2>2. Cardinality(Spent(i)) <= MaxFallbacks + 1
    BY DEF FallbackInv, WithinLimit
  <2>3. CASE Cardinality(Spent(i)) <= MaxFallbacks
    BY <2>0, <2>1, <2>3
  <2>4. CASE \E g \in NewGrabs(i) \cap ActiveGrabs : g # dgrab
    <3>1. PICK g \in NewGrabs(i) \cap ActiveGrabs : g # dgrab
      BY <2>4
    <3>2. g \in (NewGrabs(i) \cap ActiveGrabs)'
      BY <1>1, <1>2, <1>4, <3>1 DEF ActiveGrabs
    <3>3. QED
      BY <3>2
  <2>5. CASE dgrab \in NewGrabs(i) \cap ActiveGrabs
    <3>1. dgrab \in Spent(i)
      BY <2>5 DEF Spent, ActiveGrabs, MayFail
    <3>2. ~InHand(dgrab)
      <4>1. spc = "grabbing" /\ grab[cur].subject = i
        BY DEF LeaseInv, ImportLease, FallbackInv, FallbackIsOwn
      <4>2. grab[dgrab].subject = i
        BY <2>5 DEF NewGrabs
      <4>3. QED
        BY <4>1, <4>2 DEF InHand, FallbackInv, OneCopyEach
    <3>3. Spent(i)' \subseteq Spent(i) \ {dgrab}
      BY <1>2, <1>3, <1>4, <1>5, <1>6, <3>2, <1>1 DEF Spent
    <3>4. /\ IsFiniteSet(Spent(i) \ {dgrab})
          /\ Cardinality(Spent(i) \ {dgrab}) = Cardinality(Spent(i)) - 1
      BY <3>1, SpentIsFinite, FS_RemoveElement
    <3>5. Cardinality(Spent(i)') <= Cardinality(Spent(i) \ {dgrab})
      BY <3>3, <3>4, FS_Subset
    <3>6. QED
      BY <2>0, <2>1, <2>2, <3>4, <3>5
  <2>6. QED
    BY <2>3, <2>4, <2>5 DEF FallbackInv, RoomForOne
<1>9. QED
  BY <1>7, <1>8

(* One search result never leads to more grabs that fail than the limit    *)
(* allows, however polls, imports, removals of grabs and new searches of   *)
(* the item meet the fallback, and whatever fails or crashes: the count    *)
(* startFallback reads may be stale when it acts on it, and a copy of a    *)
(* row may bring a closed grab back.  Operators who grab for themselves    *)
(* are not counted against the limit, so none do here; an item whose lease *)
(* ran out under a worker may get one more grab from that worker.          *)
THEOREM FallbacksAreBounded ==
  ASSUME "grab" \notin Requests PROVE Spec => []FallbackBounded
<1>1. Init => WithinLimit /\ RoomForOne
  <2> SUFFICES ASSUME Init PROVE WithinLimit /\ RoomForOne
    OBVIOUS
  <2>1. \A i : Spent(i) = {}
    BY DEF Init, StoreInit, Spent, NewGrabs
  <2>2. WithinLimit
    BY <2>1, FS_EmptySet, StatusAssumption DEF WithinLimit
  <2>3. RoomForOne
    BY WorkerKinds DEF Init, AcquisitionInit, RoomForOne
  <2>4. QED
    BY <2>2, <2>3
<1>2. TypeOK /\ CopiesName /\ LeaseInv /\ FallbackInv /\ [Next]_vars => WithinLimit' /\ RoomForOne'
  <2> SUFFICES ASSUME TypeOK, CopiesName, LeaseInv, FallbackInv, [Next]_vars
               PROVE  WithinLimit' /\ RoomForOne'
    OBVIOUS
  <2>0. Status \in Workers /\ overrun \subseteq overrun'
    BY WorkerKinds, OverrunGrows
  <2>1. ASSUME NEW p \in Workers, WorkerStep(p), Record(p) PROVE WithinLimit' /\ RoomForOne'
    BY <2>1, LeaseFacts, RecordKeepsLimit
  <2>2. ASSUME NEW p \in Workers, WorkerStep(p), ~Record(p) PROVE WithinLimit' /\ RoomForOne'
    <3>1. UNCHANGED <<grab, grabs>>
      BY <2>2
      DEF WorkerStep, LoopStep, CallerStep, LoopNext, SearchBegin, SearchBusy, SearchLease,
          SearchCheck, SearchSkip,
          SearchStart, SearchNotStarted, SearchEvaluate, SearchNoRelease, SearchStoreError,
          GrabNext, GrabRequest, GrabStart, GrabRefused, HandOff, PackRead, PackLock, PackBusy,
          AddDownload, AddRefused, SearchAbandoned, RecordFails, Reschedule, storeVars, grabVars
    <3>2. \A i \in Items : evaluated'[i] \in {evaluated[i], grabs}
      <4>1. grabs + 1 # grabs
        BY RowFacts
      <4>2. QED
        BY <3>1, <4>1, RowsOrCandidates, RecordAdds
    <3>3. /\ UNCHANGED <<snap, spc, cur>>
          /\ pc'[Status] # "idle" => pc[Status] # "idle" /\ target'[Status] = target[Status]
      BY <2>0, <2>2, WorkerTurn, WorkersAssumption DEF statusVars
    <3>4. QED
      BY <2>0, <3>1, <3>2, <3>3, SameRowsKeepLimit
  <2>3. CASE StatusStep
    BY <2>3, StatusKeepsLimit
  <2>4. CASE ApiStep
    <3>1. CASE DeleteMark
      BY <2>4, <3>1, RemovalKeepsLimit DEF ApiStep, envVars
    <3>2. CASE ~DeleteMark
      <4>1. UNCHANGED <<grab, grabs, snap, spc, cur, evaluated, pc, target>>
        BY <2>4, <3>2
        DEF ApiStep, QueueNext, DeleteRead, DeleteRemove, DeleteDone, DeleteFails, DeleteRetry,
            RequestSearch, Unmonitor, ManualGrab, storeVars, grabVars, candVars, jobVars, statusVars
      <4>2. QED
        BY <2>0, <4>1, SameRowsKeepLimit
    <3>3. QED
      BY <3>1, <3>2
  <2>5. CASE Crash
    <3>1. UNCHANGED <<grab, grabs, evaluated>> /\ snap' = {} /\ spc' = "idle" /\ pc'[Status] = "idle"
      BY <2>0, <2>5 DEF Crash, grabVars, candVars
    <3>2. \A i \in Items : Spent(i)' \subseteq Spent(i)
      BY <3>1 DEF Spent, NewGrabs, InHand
    <3>3. QED
      BY <2>0, <3>1, <3>2, LimitKept DEF FallbackInv, RoomForOne
  <2>6. CASE \/ \E r \in Releases : TorrentMove(r)
             \/ \E i \in Items : LeaseExpires(i) \/ RowStays(i)
             \/ UNCHANGED vars
    <3>1. UNCHANGED <<grab, grabs, snap, spc, cur, evaluated, pc, target>>
      BY <2>6 DEF TorrentMove, LeaseExpires, RowStays, vars, storeVars, grabVars, candVars,
             jobVars, statusVars
    <3>2. QED
      BY <2>0, <3>1, SameRowsKeepLimit
  <2>7. QED
    BY <2>1, <2>2, <2>3, <2>4, <2>5, <2>6, WorkerKinds DEF Next, WorkerStep
<1>3. TypeOK /\ WithinLimit => FallbackBounded
  <2> SUFFICES ASSUME TypeOK, WithinLimit, NEW i \in Items \ overrun
               PROVE  Cardinality({g \in NewGrabs(i) : grab[g].st \in MayFail}) <= MaxFallbacks + 1
    BY DEF FallbackBounded
  <2> DEFINE S == {g \in NewGrabs(i) : grab[g].st \in MayFail}
  <2>1. S \subseteq Spent(i)
    BY DEF Spent
  <2> HIDE DEF S
  <2>2. /\ Cardinality(S) \in Nat /\ Cardinality(Spent(i)) \in Nat
        /\ Cardinality(S) <= Cardinality(Spent(i))
    BY <2>1, FewerSpent, SpentIsFinite
  <2>3. Cardinality(S) <= MaxFallbacks + 1
    BY <2>2, StatusAssumption DEF WithinLimit
  <2>4. QED
    BY <2>3 DEF S
<1>4. Spec => []FallbackIsOwn
  BY FallbackGrabs
<1>5. QED
  BY <1>1, <1>2, <1>3, <1>4, TypeCorrect, CopiesInvariant, LeasesInvariant, OneCopyInvariant,
     SearchesAreFresh, PTL DEF Spec, FallbackInv

-------------------------------------------------------------------------------
(* The items a grab is waited for.                                         *)

LEMMA KeepFacts ==
  ASSUME TypeOK
  PROVE  /\ Episodes \cap Movies = {} /\ Items = Episodes \cup Movies
         /\ state \in [Items -> ItemState] /\ chosen \in [Items -> Releases \cup {NoRelease}]
         /\ grab \in [GrabIds -> GrabRow] /\ grabs \in Nat
         /\ \A g \in 1 .. grabs : grab[g].subject \in Items
         /\ ActiveGrabs \subseteq 1 .. grabs
         /\ snap \in SUBSET GrabIds
         /\ left \in SUBSET Items /\ items \in SUBSET Items
<1>1. /\ state \in [Items -> ItemState] /\ chosen \in [Items -> Releases \cup {NoRelease}]
      /\ snap \in SUBSET GrabIds
      /\ left \in SUBSET Items /\ items \in SUBSET Items
  BY DEF TypeOK, StoreTypeOK, StatusTypeOK
<1>2. \A g \in 1 .. grabs : grab[g].subject \in Items
  BY RowFacts, RowType DEF GrabState
<1>3. QED
  BY <1>1, <1>2, RowFacts, StoreAssumption DEF Items, ActiveGrabs

(* No removal begins.                                                      *)
LEMMA NoRemovals ==
  ASSUME UndisturbedQueue PROVE Spec => [](dpc = "idle")
<1>1. Init => (dpc = "idle")
  BY DEF Init, QueueInit
<1>2. (dpc = "idle") /\ [Next]_vars => (dpc = "idle")'
  <2> SUFFICES ASSUME dpc = "idle", [Next]_vars PROVE dpc' = "idle"
    OBVIOUS
  <2>1. CASE QueueNext
    BY <2>1
    DEF QueueNext, DeleteRead, DeleteRemove, DeleteMark, DeleteDone, DeleteFails, DeleteRetry,
        RequestSearch, Unmonitor, ManualGrab, UndisturbedQueue, deleteVars
  <2>2. CASE ~QueueNext
    BY <2>2 DEF Next, LoopStep, CallerStep, StatusStep, ApiStep, TorrentMove, Crash, LeaseExpires,
                RowStays, vars, deleteVars
  <2>3. QED
    BY <2>1, <2>2
<1>3. QED
  BY <1>1, <1>2, PTL DEF Spec

(* What everybody but the status loop does to the store: items leave       *)
(* states in which no grab serves them, for such states, or a new row      *)
(* serves all the items it reserves.                                       *)
Adds(i) ==
  /\ state[i] # "importing" /\ state'[i] = "grabbed"
  /\ \E g \in ActiveGrabs' \ ActiveGrabs : Serves(g, i)'

Mild ==
  /\ grabs' \in {grabs, grabs + 1}
  /\ \A g \in 1 .. grabs : grab'[g] = grab[g]
  /\ \A i \in Items :
       \/ state'[i] = state[i] /\ chosen'[i] = chosen[i]
       \/ state[i] # "importing" /\ ~Active(i)'
       \/ Adds(i)
  /\ grabs' = grabs + 1 =>
       /\ grab'[grabs'].st = "pending"
       /\ state'[grab'[grabs'].subject] = "grabbed"

LEMMA MildKeeps ==
  ASSUME TypeOK, CopiesName, KeepInv, Mild, UNCHANGED statusVars, dpc = "idle", dpc' = "idle"
  PROVE  /\ (CopiesAreLive /\ NoneForgotten /\ OnTheirWay /\ MoviesLandOnce)'
         /\ \A i \in Items : Orphaned(i)' => Orphaned(i)
<1>1. /\ grabs \in Nat /\ \A g \in ActiveGrabs : g \in 1 .. grabs
      /\ \A g \in 1 .. grabs : g \in 1 .. grabs' /\ g # grabs + 1
  BY KeepFacts DEF Mild
<1>2. /\ ActiveGrabs \subseteq ActiveGrabs'
      /\ \A g \in ActiveGrabs' : g \in ActiveGrabs \/ (g = grabs' /\ grabs' = grabs + 1)
  BY <1>1 DEF Mild, ActiveGrabs
<1>4. \A i \in Items, g \in 1 .. grabs :
        chosen'[i] = chosen[i] => (Serves(g, i)' <=> Serves(g, i))
  BY <1>1 DEF Mild, Serves
<1>5. spc \notin {"idle", "polling", "visiting"} => cur \in 1 .. grabs
  BY DEF CopiesName, Copies
<1>6. CopiesAreLive'
  BY <1>2 DEF KeepInv, CopiesAreLive, statusVars
<1>7. \A i \in Items : Adds(i) => /\ \E g \in ActiveGrabs' : Serves(g, i)'
                                  /\ spc \notin {"idle", "polling", "visiting"} => ServedElse(i)'
  BY <1>1, <1>2, <1>5 DEF Adds, ServedElse, statusVars
<1>8. \A i \in Items : /\ state'[i] = state[i] /\ chosen'[i] = chosen[i]
                       /\ ServedElse(i)
                       => ServedElse(i)'
  BY <1>1, <1>2, <1>4 DEF ServedElse, statusVars
<1>9. NoneForgotten'
  BY <1>4, <1>5, <1>7, <1>8 DEF KeepInv, NoneForgotten, Mild, Active, statusVars
<1>10. OnTheirWay'
  <2>1. row' = row
    BY DEF row, statusVars
  <2>2. \A i \in Items : state'[i] \in {"grabbed", "downloading"} =>
          \/ state'[i] = state[i] /\ chosen'[i] = chosen[i]
          \/ Adds(i)
    BY DEF Mild, Active, ActiveState
  <2>3. \A i \in Items : state[i] = "importing" => state'[i] = "importing"
    BY DEF Mild, Active, Adds, ActiveState
  <2>4. QED
    BY <1>7, <1>8, <2>1, <2>2, <2>3, KeepFacts DEF KeepInv, OnTheirWay, statusVars
<1>11. MoviesLandOnce'
  <2>1. \A i \in Items : state'[i] = "importing" => state[i] = "importing"
    BY DEF Mild, Active, Adds, ActiveState
  <2>2. \A g \in ActiveGrabs' : \A i \in Items :
          state'[i] = "importing" /\ grab'[g].subject = i => g \in ActiveGrabs /\ grab[g].subject = i
    BY <1>1, <1>2 DEF Mild
  <2>3. QED
    BY <2>1, <2>2, StoreAssumption DEF KeepInv, MoviesLandOnce, statusVars, Items
<1>12. ASSUME NEW i \in Items, Orphaned(i)' PROVE Orphaned(i)
  <2>1. Active(i)' /\ ~Adds(i)
    BY <1>7, <1>12 DEF Orphaned
  <2>2. state'[i] = state[i] /\ chosen'[i] = chosen[i]
    BY <2>1 DEF Mild
  <2>3. \A g \in ActiveGrabs : ~Serves(g, i)
    BY <1>1, <1>2, <1>4, <1>12, <2>2 DEF Orphaned
  <2>4. ~BeingSettled(i)
    BY <1>12 DEF Orphaned, BeingSettled, statusVars
  <2>5. QED
    BY <2>1, <2>2, <2>3, <2>4 DEF Orphaned, Active
<1>13. QED
  BY <1>6, <1>9, <1>10, <1>11, <1>12

LEMMA StayIsMild == ASSUME TypeOK, UNCHANGED <<state, chosen, grab, grabs>> PROVE Mild
  BY KeepFacts DEF Mild

LEMMA EdgeIsMild ==
  ASSUME TypeOK, NEW i \in Items, NEW to, to \notin ActiveState, state[i] # "importing",
         state' = [state EXCEPT ![i] = to], UNCHANGED <<chosen, grab, grabs>>
  PROVE  Mild
<1>1. state'[i] = to /\ \A j \in Items : j # i => state'[j] = state[j]
  BY KeepFacts
<1>2. ~Active(i)'
  BY <1>1 DEF Active
<1>3. QED
  BY <1>1, <1>2, KeepFacts DEF Mild

(* No search, no request and no change of monitoring takes an item out of  *)
(* importing.                                                              *)
LEMMA TransitionIsMild ==
  ASSUME TypeOK, NEW i \in Items, NEW to \in {"wanted", "searching", "unmonitored"},
         CanTransitionTo(state[i], to), Transition(i, to), UNCHANGED <<chosen, grab, grabs>>
  PROVE  Mild
<1>1. to \notin ActiveState
  BY DEF ActiveState
<1>2. state[i] # "importing"
  BY DEF CanTransitionTo, Successors, ItemState
<1>3. QED
  BY <1>1, <1>2, EdgeIsMild DEF Transition

LEMMA RescheduleIsMild ==
  ASSUME TypeOK, NEW p \in Workers, Reschedule(p)
  PROVE  Mild
<1>1. UNCHANGED <<chosen, grab, grabs>>
  BY DEF Reschedule
<1>2. ASSUME NEW i \in Items, state'[i] # state[i]
      PROVE  state[i] # "importing" /\ ~Active(i)'
  <2>1. state[i] = "searching" /\ state'[i] \in {"wanted", "imported", "failed"}
    BY <1>2, RescheduleMoves
  <2>2. QED
    BY <2>1 DEF Active, ActiveState
<1>3. QED
  BY <1>1, <1>2, KeepFacts DEF Mild

(* The new row serves all it reserves.                                     *)
LEMMA RecordIsMild ==
  ASSUME TypeOK, LeaseInv, OfOneKind, NEW p \in Workers, Record(p)
  PROVE  Mild
<1> DEFINE i == target[p]
           mine == (held[p] \ {i}) \cup {i}
<1>1. i \in Items /\ i \in held[p] /\ held[p] \in SUBSET Items
  BY LeaseFacts DEF LeaseInv, BusyHoldsTarget, Record
<1>2. /\ \A h \in 1 .. grabs : grab'[h] = grab[h]
      /\ grabs' = grabs + 1
      /\ grab'[grabs + 1] = [st |-> "pending", subject |-> i, release |-> pick[p]]
  BY RecordAdds
<1>3. /\ \A x \in Items : x \in mine => /\ state'[x] = "grabbed" /\ chosen'[x] = pick[p]
                                     /\ state[x] # "importing"
      /\ \A x \in Items : x \notin mine => state'[x] = state[x] /\ chosen'[x] = chosen[x]
  BY <1>1 DEF Record, CreateGrabbed, CanCreateGrabbed
<1>4. grabs + 1 \in ActiveGrabs' \ ActiveGrabs
  BY <1>2, KeepFacts DEF ActiveGrabs, ActiveGrab
<1>5. \A x \in mine : IF x \in Movies THEN i = x ELSE i \in Episodes
  BY <1>1, KeepFacts DEF OfOneKind
<1>6. /\ grab'[grabs + 1].subject = i /\ grab'[grabs + 1].release = pick[p]
      /\ grab'[grabs + 1].st = "pending"
  BY <1>2
<1> HIDE DEF mine
<1>7. \A x \in Items : x \in mine => Adds(x)
  BY <1>3, <1>4, <1>5, <1>6 DEF Adds, Serves
<1>8. state'[i] = "grabbed"
  BY <1>1, <1>3 DEF mine
<1>9. QED
  BY <1>2, <1>3, <1>6, <1>7, <1>8 DEF Mild

LEMMA WorkersAreMild ==
  ASSUME TypeOK, LeaseInv, OfOneKind, NEW p \in Workers, LoopNext(p) \/ GrabNext(p) \/ HandOff(p)
  PROVE  Mild
<1> USE DEF storeVars, itemVars, grabVars
<1>1. target[p] \in Items
  BY LeaseFacts
<1>2. CASE SearchStart(p) \/ GrabRequest(p) \/ GrabStart(p)
  BY <1>1, <1>2, TransitionIsMild
  DEF SearchStart, GrabRequest, GrabStart, CanRequestSearch, CanTransition
<1>3. CASE \/ SearchNoRelease(p) \/ SearchStoreError(p) \/ AddRefused(p)
           \/ \E e \in Episodes : PackBusy(p, e)
  BY <1>3, RescheduleIsMild DEF SearchNoRelease, SearchStoreError, AddRefused, PackBusy
<1>4. CASE Record(p)
  BY <1>4, RecordIsMild
<1>5. CASE \/ SearchBegin(p) \/ \E i \in Items : SearchBusy(p, i) \/ SearchLease(p, i)
           \/ SearchCheck(p) \/ SearchSkip(p) \/ SearchNotStarted(p)
           \/ SearchEvaluate(p) \/ GrabRefused(p)
           \/ \E e \in Episodes : PackRead(p, e) \/ PackLock(p, e)
           \/ AddDownload(p) \/ SearchAbandoned(p) \/ RecordFails(p)
  BY <1>5, StayIsMild
  DEF SearchBegin, SearchBusy, SearchLease, SearchCheck, SearchSkip, SearchNotStarted,
      SearchEvaluate, GrabRefused, PackRead, PackLock, AddDownload, SearchAbandoned, RecordFails
<1>6. QED
  BY <1>2, <1>3, <1>4, <1>5 DEF LoopNext, GrabNext, HandOff

LEMMA RequestsAreMild ==
  ASSUME TypeOK, UndisturbedQueue, dpc = "idle", QueueNext
  PROVE  Mild /\ UNCHANGED statusVars
<1> USE DEF storeVars, itemVars, grabVars
<1>1. ASSUME NEW i \in Items, RequestSearch(i) PROVE Mild /\ UNCHANGED statusVars
  BY <1>1, TransitionIsMild DEF RequestSearch, CanRequestSearch, CanTransition
<1>2. ASSUME NEW e \in Episodes, Unmonitor(e) PROVE Mild /\ UNCHANGED statusVars
  BY <1>2, TransitionIsMild DEF Unmonitor, CanTransition, Items
<1>3. CASE \E p \in Callers, i \in Items, r \in Releases : ManualGrab(p, i, r)
  BY <1>3, StayIsMild DEF ManualGrab, GrabCheck
<1>4. QED
  BY <1>1, <1>2, <1>3
  DEF QueueNext, UndisturbedQueue, DeleteRead, DeleteRemove, DeleteMark, DeleteDone, DeleteFails,
      DeleteRetry

-------------------------------------------------------------------------------
(* What a worker holds is of one kind.                                     *)

LEMMA SameKinds ==
  ASSUME OfOneKind, UNCHANGED <<pc, target, held, todo>> PROVE OfOneKind'
  BY DEF OfOneKind

(* One worker moves.                                                       *)
KindOf(p) ==
  /\ target[p] \in Movies =>
       held[p] \subseteq {target[p]} /\ (pc[p] \in {"pack", "lease"} => todo[p] = {})
  /\ target[p] \in Episodes => held[p] \subseteq Episodes

LEMMA OneWorkerKinds ==
  ASSUME OfOneKind, NEW p \in Workers, KindOf(p)',
         \A q \in Workers \ {p} : /\ pc'[q] = pc[q] /\ target'[q] = target[q]
                                 /\ held'[q] = held[q] /\ todo'[q] = todo[q]
  PROVE  OfOneKind'
  BY DEF OfOneKind, KindOf

LEMMA WorkerKindsKept ==
  ASSUME TypeOK, LeaseInv, OfOneKind, NEW p \in Workers, LoopNext(p) \/ GrabNext(p) \/ HandOff(p)
  PROVE  OfOneKind'
<1>1. /\ pc \in [Workers -> PC] /\ target \in [Workers -> Items]
      /\ held \in [Workers -> SUBSET Items] /\ todo \in [Workers -> SUBSET Episodes]
      /\ Episodes \cap Movies = {}
  BY LeaseFacts, KeepFacts
<1>2. \A q \in Workers \ {p} : /\ pc'[q] = pc[q] /\ target'[q] = target[q]
                              /\ held'[q] = held[q] /\ todo'[q] = todo[q]
  BY <1>1
  DEF LoopNext, SearchBegin, SearchBusy, SearchLease, SearchCheck, SearchSkip, SearchStart,
      SearchNotStarted,
      SearchEvaluate, SearchNoRelease, SearchStoreError, GrabNext, GrabRequest, GrabStart,
      GrabRefused, HandOff, PackRead, PackLock, PackBusy, AddDownload, AddRefused,
      SearchAbandoned, Record, RecordFails, Reschedule, Finish, Goto
<1>3. KindOf(p)
  BY DEF OfOneKind, KindOf
<1>4. KindOf(p)'
  <2>1. ASSUME Finish(p) PROVE KindOf(p)'
    BY <1>1, <2>1 DEF Finish, KindOf
  <2>2. CASE \/ SearchSkip(p) \/ SearchNotStarted(p) \/ SearchNoRelease(p)
             \/ SearchStoreError(p) \/ GrabRefused(p)
             \/ AddRefused(p) \/ SearchAbandoned(p) \/ Record(p) \/ RecordFails(p)
             \/ \E e \in Episodes : PackBusy(p, e)
    BY <2>1, <2>2
    DEF SearchSkip, SearchNotStarted, SearchNoRelease, SearchStoreError, GrabRefused, AddRefused,
        SearchAbandoned, Record, RecordFails, PackBusy, Reschedule
  <2>3. CASE \/ SearchBegin(p) \/ \E i \in Items : SearchBusy(p, i)
             \/ SearchCheck(p) \/ SearchStart(p) \/ GrabRequest(p) \/ AddDownload(p)
    BY <1>1, <1>3, <2>3
    DEF SearchBegin, SearchBusy, SearchCheck, SearchStart, GrabRequest, AddDownload, Goto, KindOf,
        storeVars
  <2>4. ASSUME NEW i \in Items, SearchLease(p, i) PROVE KindOf(p)'
    BY <1>1, <2>4 DEF SearchLease, Goto, KindOf
  <2>5. CASE SearchEvaluate(p)
    BY <1>1, <1>3, <2>5 DEF SearchEvaluate, PackEpisodes, Goto, KindOf
  <2>6. CASE GrabStart(p)
    BY <1>1, <1>3, <2>6 DEF GrabStart, PackEpisodes, Goto, KindOf
  <2>7. ASSUME NEW e \in Episodes, PackRead(p, e) PROVE KindOf(p)'
    BY <1>1, <1>3, <2>7 DEF PackRead, First, Goto, KindOf
  <2>8. ASSUME NEW e \in Episodes, PackLock(p, e) PROVE KindOf(p)'
    BY <1>1, <1>3, <2>8 DEF PackLock, Leasing, First, Goto, KindOf
  <2>9. QED
    BY <2>2, <2>3, <2>4, <2>5, <2>6, <2>7, <2>8 DEF LoopNext, GrabNext, HandOff
<1>5. QED
  BY <1>2, <1>4, OneWorkerKinds

(* A stored-release grab begins with nothing leased.                       *)
LEMMA CheckKeepsKinds ==
  ASSUME TypeOK, LeaseInv, OfOneKind, NEW p \in Workers, NEW i \in Items, NEW r, GrabCheck(p, i, r)
  PROVE  OfOneKind'
<1>1. /\ pc \in [Workers -> PC] /\ target \in [Workers -> Items] /\ pc[p] = "idle"
      /\ held[p] = {}
  BY LeaseFacts DEF GrabCheck, LeaseInv, BusyHoldsTarget
<1>2. /\ \A q \in Workers \ {p} : /\ pc'[q] = pc[q] /\ target'[q] = target[q]
                                 /\ held'[q] = held[q] /\ todo'[q] = todo[q]
      /\ pc'[p] = "request" /\ held'[p] = {}
  BY <1>1 DEF GrabCheck, Goto
<1>3. KindOf(p)'
  BY <1>2 DEF KindOf
<1>4. QED
  BY <1>2, <1>3, OneWorkerKinds

LEMMA RequestKindsKept ==
  ASSUME TypeOK, LeaseInv, OfOneKind, QueueNext
  PROVE  OfOneKind'
<1>1. ASSUME NEW p \in Callers, NEW i \in Items, NEW r \in Releases, ManualGrab(p, i, r)
      PROVE  OfOneKind'
  BY <1>1, WorkerKinds, CheckKeepsKinds DEF ManualGrab
<1>2. CASE UNCHANGED jobVars
  BY <1>2, SameKinds DEF jobVars
<1>3. QED
  BY <1>1, <1>2
  DEF QueueNext, DeleteRead, DeleteRemove, DeleteMark, DeleteDone, DeleteFails, DeleteRetry,
      RequestSearch, Unmonitor

LEMMA StatusKindsKept ==
  ASSUME TypeOK, LeaseInv, OfOneKind, StatusNext
  PROVE  OfOneKind'
<1>1. ASSUME NEW r \in Releases, FallbackStart(r) PROVE OfOneKind'
  <2>1. row.subject \in Items /\ GrabCheck(Status, row.subject, r)
    BY <1>1, RowCopyType, RowType DEF FallbackStart, TypeOK, GrabState
  <2>2. QED
    BY <2>1, WorkerKinds, CheckKeepsKinds
<1>2. CASE UNCHANGED jobVars
  BY <1>2, SameKinds DEF jobVars
<1>3. QED
  BY <1>1, <1>2, StatusTurn

-------------------------------------------------------------------------------
(* The status loop.  Its rows keep naming the same items; at most one of   *)
(* them leaves the queue.                                                  *)

KeepContext ==
  /\ TypeOK /\ CopiesName /\ LeaseInv /\ OneActiveGrabPerSubject /\ KeepInv
  /\ UndisturbedQueue /\ dpc = "idle"

KeepNext ==
  /\ (CopiesAreLive /\ NoneForgotten /\ OnTheirWay /\ MoviesLandOnce)'
  /\ \A i \in Items : Orphaned(i)' => Orphaned(i) \/ LeftBehind(i)

SameService ==
  /\ ActiveGrabs' \subseteq ActiveGrabs
  /\ \A g \in ActiveGrabs : grab'[g].subject = grab[g].subject
  /\ \A g \in ActiveGrabs, i \in Items : Serves(g, i)' <=> Serves(g, i)

LEMMA RowsUntouched ==
  ASSUME TypeOK, UNCHANGED <<grab, grabs, chosen>>
  PROVE  SameService /\ ActiveGrabs' = ActiveGrabs
  BY DEF SameService, ActiveGrabs, Serves

LEMMA CopyWritten ==
  ASSUME TypeOK, NEW g \in ActiveGrabs, NEW w \in GrabRow, Copies(w, g), NEW st \in GrabState,
         UpdateGrab(g, [w EXCEPT !.st = st]), UNCHANGED <<grabs, chosen>>
  PROVE  /\ SameService
         /\ st \in ActiveGrab => ActiveGrabs' = ActiveGrabs
         /\ st \notin ActiveGrab => ActiveGrabs' = ActiveGrabs \ {g}
<1>1. /\ \A h \in 1 .. grabs : SameGrab(h)
      /\ \A h \in 1 .. grabs : grab'[h].st = IF h = g THEN st ELSE grab[h].st
  BY WriteNames
<1>2. /\ st \in ActiveGrab => ActiveGrabs' = ActiveGrabs
      /\ st \notin ActiveGrab => ActiveGrabs' = ActiveGrabs \ {g}
  BY <1>1 DEF ActiveGrabs
<1>3. \A h \in ActiveGrabs : SameGrab(h)
  BY <1>1, KeepFacts
<1>4. QED
  BY <1>2, <1>3 DEF SameService, SameGrab, Serves

(* A grab covers what it serves.                                           *)
LEMMA CoversServed ==
  ASSUME TypeOK, NEW g \in 1 .. grabs, NEW w \in GrabRow, Copies(w, g)
  PROVE  /\ \A i \in Items : Active(i) /\ Serves(g, i) => i \in CoveredNow(w)
         /\ w.subject \in Movies => CoveredNow(w) = {w.subject}
         /\ w.subject \in Episodes => CoveredNow(w) \subseteq Episodes
         /\ w.subject \in Items
<1>1. w.subject \in Items
  BY DEF GrabRow
<1>2. QED
  BY <1>1, KeepFacts DEF Copies, Serves, CoveredNow, ActiveByRelease

(* Nothing the step leaves active and unsettled has lost its grab.         *)
LEMMA NoneLost ==
  ASSUME TypeOK, SameService, dpc = "idle", NEW i \in Items, Orphaned(i)',
         Active(i), ~BeingSettled(i),
         \A g \in ActiveGrabs \ ActiveGrabs' : Serves(g, i) => ServedElse(i) /\ g = cur
  PROVE  Orphaned(i)
<1>1. \A g \in ActiveGrabs' : ~Serves(g, i)
  BY DEF Orphaned, SameService
<1>2. SUFFICES ASSUME NEW g \in ActiveGrabs, Serves(g, i) PROVE FALSE
  BY DEF Orphaned
<1>3. g \notin ActiveGrabs'
  BY <1>1, <1>2
<1>4. PICK h \in ActiveGrabs \ {cur} : Serves(h, i)
  BY <1>2, <1>3 DEF ServedElse
<1>5. h \notin ActiveGrabs'
  BY <1>1, <1>4
<1>6. QED
  BY <1>4, <1>5

(* The loop has nothing in hand.                                           *)
LEMMA AtRest ==
  ASSUME spc' \in {"idle", "polling", "visiting"}, snap' \subseteq ActiveGrabs',
         \A i \in Movies, g \in ActiveGrabs' : state'[i] = "importing" => grab'[g].subject # i
  PROVE  (CopiesAreLive /\ NoneForgotten /\ OnTheirWay /\ MoviesLandOnce)'
  BY DEF CopiesAreLive, NoneForgotten, OnTheirWay, MoviesLandOnce

(* Steps that write nothing and leave nothing in hand.                     *)
LEMMA PassKeeps ==
  ASSUME KeepContext, UNCHANGED <<state, chosen, grab, grabs>>,
         spc' \in {"idle", "polling", "visiting"}, snap' \subseteq ActiveGrabs,
         \A i \in Movies, g \in ActiveGrabs : state[i] = "importing" => grab[g].subject # i,
         \A i \in Items : BeingSettled(i) => LeftBehind(i)
  PROVE  KeepNext
<1>1. SameService /\ ActiveGrabs' = ActiveGrabs
  BY RowsUntouched DEF KeepContext
<1>2. (CopiesAreLive /\ NoneForgotten /\ OnTheirWay /\ MoviesLandOnce)'
  BY <1>1, AtRest
<1>3. ASSUME NEW i \in Items, Orphaned(i)' PROVE Orphaned(i) \/ LeftBehind(i)
  <2>1. Active(i)
    BY <1>3 DEF Orphaned, Active
  <2>2. QED
    BY <1>1, <1>3, <2>1, NoneLost DEF KeepContext
<1>4. QED
  BY <1>2, <1>3 DEF KeepNext

LEMMA NoMovieImporting ==
  ASSUME KeepInv, spc \notin {"completing", "importing", "filing"}
  PROVE  \A i \in Movies, g \in ActiveGrabs : state[i] = "importing" => grab[g].subject # i
  BY DEF KeepInv, MoviesLandOnce

LEMMA PollKeeps ==
  ASSUME KeepContext, StatusRead \/ StatusPoll \/ PollFails \/ StatusDone
  PROVE  KeepNext
<1>1. /\ UNCHANGED <<state, chosen, grab, grabs>>
      /\ spc \in {"idle", "polling", "visiting"} /\ spc' \in {"idle", "polling", "visiting"}
      /\ snap' \subseteq ActiveGrabs
  BY DEF StatusRead, StatusPoll, PollFails, StatusDone, SGoto, storeVars, KeepContext, KeepInv,
         CopiesAreLive
<1>2. \A i \in Items : ~BeingSettled(i)
  BY <1>1 DEF BeingSettled, KeepContext
<1>3. KeepInv
  BY DEF KeepContext
<1>4. QED
  BY <1>1, <1>2, <1>3, NoMovieImporting, PassKeeps

LEMMA WaitKeeps ==
  ASSUME KeepContext, NEW g \in GrabIds, WaitForMissing(g) \/ NoteRefused(g) \/ RemoveFails(g)
  PROVE  KeepNext
<1>1. /\ UNCHANGED <<state, chosen, grab, grabs>>
      /\ spc = "visiting" /\ spc' = "visiting"
      /\ snap' \subseteq ActiveGrabs
  BY DEF WaitForMissing, NoteRefused, RemoveFails, Visit, storeVars, KeepContext, KeepInv,
         CopiesAreLive
<1>2. \A i \in Items : ~BeingSettled(i)
  BY <1>1 DEF BeingSettled, KeepContext
<1>3. KeepInv
  BY DEF KeepContext
<1>4. QED
  BY <1>1, <1>2, <1>3, NoMovieImporting, PassKeeps

LEMMA LeaveKeeps ==
  ASSUME KeepContext, AdvanceEnds \/ RejectDone \/ FallbackNone \/ FallbackDone
  PROVE  KeepNext
<1>1. /\ UNCHANGED <<state, chosen, grab, grabs>>
      /\ spc \in {"advancing", "rejecting", "fallback", "grabbing"} /\ spc' = "visiting"
      /\ spc = "rejecting" => left = {}
      /\ snap' \subseteq ActiveGrabs
  BY DEF AdvanceEnds, RejectDone, FallbackNone, FallbackDone, NextGrab, storeVars, KeepContext,
         KeepInv, CopiesAreLive
<1>2. \A i \in Items : ~BeingSettled(i)
  BY <1>1 DEF BeingSettled, KeepContext
<1>3. KeepInv
  BY DEF KeepContext
<1>4. QED
  BY <1>1, <1>2, <1>3, NoMovieImporting, PassKeeps

(* failGrab gives up where an item cannot return.                          *)
LEMMA FailAborts ==
  ASSUME KeepContext, NEW i \in Items, FailItemAborts(i)
  PROVE  KeepNext
<1>1. /\ UNCHANGED <<state, chosen, grab, grabs>>
      /\ spc = "failing" /\ spc' = "visiting" /\ First(i, left)
      /\ snap' \subseteq ActiveGrabs
      /\ ~CanTransition(i, "wanted")
  BY DEF FailItemAborts, NextGrab, itemVars, grabVars, KeepContext, KeepInv, CopiesAreLive,
         UndisturbedQueue, StoreStops
<1>2. \A j \in Items : BeingSettled(j) => LeftBehind(j)
  BY <1>1 DEF BeingSettled, LeftBehind, CanRetryNow, KeepContext, First
<1>3. KeepInv
  BY DEF KeepContext
<1>4. QED
  BY <1>1, <1>2, <1>3, NoMovieImporting, PassKeeps

(* completeGrab stops before the row is written: a movie is not importing  *)
(* yet, and the row is not refused.                                        *)
LEMMA MovieInHand ==
  ASSUME KeepContext, spc \in {"completing", "importing", "filing"}, NEW i \in Movies,
         NEW g \in ActiveGrabs, state[i] = "importing", grab[g].subject = i
  PROVE  g = cur /\ i = row.subject /\ (spc = "completing" => items = {i})
  BY DEF KeepContext, KeepInv, MoviesLandOnce, OnTheirWay, CopiesName, Copies

LEMMA CompleteStops ==
  ASSUME KeepContext, CompleteAborts
  PROVE  KeepNext
<1>1. /\ UNCHANGED <<state, chosen, grab, grabs>>
      /\ spc = "completing" /\ spc' = "visiting"
      /\ snap' \subseteq ActiveGrabs
      /\ items = {} \/ \E j \in left : state[j] # "importing"
  BY DEF CompleteAborts, NextGrab, storeVars, KeepContext, KeepInv, CopiesAreLive,
         UndisturbedQueue, StoreStops
<1>2. \A j \in Items : ~BeingSettled(j)
  BY <1>1 DEF BeingSettled, KeepContext
<1>3. ASSUME NEW i \in Movies, NEW g \in ActiveGrabs, state[i] = "importing", grab[g].subject = i
      PROVE  FALSE
  <2>1. items = {i}
    BY <1>1, <1>3, MovieInHand
  <2>2. left \subseteq items
    BY <1>1 DEF KeepContext, KeepInv, OnTheirWay
  <2>3. QED
    BY <1>1, <1>3, <2>1, <2>2
<1>4. QED
  BY <1>1, <1>2, <1>3, PassKeeps

LEMMA RowIsNotRefused ==
  ASSUME KeepContext, cur \in ActiveGrabs, spc \notin {"idle", "polling", "visiting"},
         NEW st \in GrabState
  PROVE  ~RowRefused(st)
<1>1. row.subject = grab[cur].subject /\ row \in GrabRow
  BY RowCopyType DEF KeepContext, CopiesName, Copies, TypeOK
<1>2. [row EXCEPT !.st = st].subject = row.subject
  BY <1>1 DEF GrabRow
<1>3. \A h \in ActiveGrabs \ {cur} : grab[h].subject # grab[cur].subject
  BY DEF KeepContext, OneActiveGrabPerSubject
<1>4. IndexAllows(cur, [row EXCEPT !.st = st])
  BY <1>1, <1>2, <1>3 DEF IndexAllows
<1>5. ~StoreStops
  BY DEF KeepContext, UndisturbedQueue, StoreStops
<1>6. QED
  BY <1>4, <1>5 DEF RowRefused, CanUpdateGrab

(* The row of a visited grab is written from its copy.                     *)
LEMMA NoteKeeps ==
  ASSUME KeepContext, NEW g \in GrabIds, NoteQueued(g) \/ NoteDownloading(g) \/ NotePaused(g)
  PROVE  KeepNext
<1> DEFINE w(st) == [rows[g] EXCEPT !.st = st]
<1>1. g \in snap /\ spc = "visiting"
  BY DEF NoteQueued, NoteDownloading, NotePaused, Visit, Oldest
<1>2. g \in ActiveGrabs /\ snap \subseteq ActiveGrabs
  BY <1>1 DEF KeepContext, KeepInv, CopiesAreLive
<1>3. Copies(rows[g], g) /\ rows[g] \in GrabRow /\ rows[g].st \in ActiveGrab
  BY <1>1, RowFacts DEF KeepContext, CopiesName
<1>4. w(rows[g].st) = rows[g]
  BY <1>3, CopyBack
<1>5. /\ UNCHANGED <<state, chosen, grabs>>
      /\ snap' = snap \ {g}
      /\ spc' = "visiting" \/ (spc' = "advancing" /\ cur' = g)
      /\ UpdateGrab(g, w("downloading")) \/ UpdateGrab(g, rows[g]) \/ UNCHANGED grab
  BY DEF NoteQueued, NoteDownloading, NotePaused, Visit, SGoto, itemVars
<1>6. PICK st \in GrabState \cap ActiveGrab : UpdateGrab(g, w(st)) \/ UNCHANGED grab
  <2>1. "downloading" \in GrabState \cap ActiveGrab
    BY DEF GrabState, ActiveGrab
  <2>2. rows[g].st \in GrabState \cap ActiveGrab
    BY <1>3, CopyBack
  <2>3. CASE UpdateGrab(g, rows[g])
    <3>1. UpdateGrab(g, w(rows[g].st))
      BY <1>4, <2>3
    <3>2. QED
      BY <2>2, <3>1
  <2>4. QED
    BY <1>5, <2>1, <2>3
<1>7. SameService /\ ActiveGrabs' = ActiveGrabs
  BY <1>2, <1>3, <1>5, <1>6, CopyWritten, RowsUntouched DEF KeepContext
<1>8. \A i \in Movies, h \in ActiveGrabs' : state'[i] = "importing" => grab'[h].subject # i
  BY <1>1, <1>5, <1>7, NoMovieImporting DEF SameService, KeepContext
<1>9. (CopiesAreLive /\ NoneForgotten /\ OnTheirWay /\ MoviesLandOnce)'
  BY <1>2, <1>5, <1>7, <1>8 DEF CopiesAreLive, NoneForgotten, OnTheirWay, MoviesLandOnce
<1>10. ASSUME NEW i \in Items, Orphaned(i)' PROVE Orphaned(i)
  <2>1. Active(i) /\ ~BeingSettled(i)
    BY <1>1, <1>5, <1>10 DEF Orphaned, Active, BeingSettled, KeepContext
  <2>2. QED
    BY <1>7, <1>10, <2>1, NoneLost DEF KeepContext
<1>11. QED
  BY <1>9, <1>10 DEF KeepNext

(* A grab is taken up; what it serves is read now.                         *)
LEMMA BeginKeeps ==
  ASSUME KeepContext, NEW g \in GrabIds, BeginComplete(g) \/ BeginFail(g)
  PROVE  KeepNext
<1>1. /\ UNCHANGED <<state, chosen, grab, grabs, rows>>
      /\ spc = "visiting" /\ g \in snap /\ snap' = snap \ {g} /\ cur' = g
      /\ \/ /\ spc' = "completing"
            /\ items' = CoveredNow(rows[g]) /\ left' = CoveredNow(rows[g])
         \/ spc' = "failing" /\ items' = {rows[g].subject}
  BY DEF BeginComplete, BeginFail, Visit, Oldest, SGoto, storeVars
<1>2. g \in ActiveGrabs /\ snap \subseteq ActiveGrabs
  BY <1>1 DEF KeepContext, KeepInv, CopiesAreLive
<1>3. /\ SameService /\ ActiveGrabs' = ActiveGrabs
      /\ Copies(rows[g], g) /\ rows[g] \in GrabRow /\ g \in 1 .. grabs
  BY <1>1, <1>2, RowsUntouched, RowFacts DEF KeepContext, CopiesName, Copies
<1>4. /\ \A i \in Items : Active(i) /\ Serves(g, i) => i \in CoveredNow(rows[g])
      /\ rows[g].subject \in Movies => CoveredNow(rows[g]) = {rows[g].subject}
      /\ rows[g].subject \in Episodes => CoveredNow(rows[g]) \subseteq Episodes
  BY <1>3, CoversServed DEF KeepContext
<1>5. CopiesAreLive'
  BY <1>1, <1>2, <1>3 DEF CopiesAreLive
<1>6. NoneForgotten'
  <2>1. \A i \in Items : Active(i)' /\ Serves(cur, i)' => Active(i) /\ Serves(g, i)
    BY <1>1 DEF Active, Serves
  <2>2. QED
    BY <1>1, <1>4, <2>1 DEF NoneForgotten
<1>7. OnTheirWay'
  BY <1>1, <1>4 DEF OnTheirWay, row
<1>8. MoviesLandOnce'
  <2>1. \A i \in Movies, h \in ActiveGrabs : state[i] = "importing" => grab[h].subject # i
    BY <1>1, NoMovieImporting DEF KeepContext
  <2>2. QED
    BY <1>1, <1>3, <2>1 DEF MoviesLandOnce
<1>9. ASSUME NEW i \in Items, Orphaned(i)' PROVE Orphaned(i)
  <2>1. Active(i) /\ ~BeingSettled(i)
    BY <1>1, <1>9 DEF Orphaned, Active, BeingSettled, KeepContext
  <2>2. QED
    BY <1>3, <1>9, <2>1, NoneLost DEF KeepContext
<1>10. QED
  BY <1>5, <1>6, <1>7, <1>8, <1>9 DEF KeepNext

(* The loop goes on with the same grab, and every item stays as active as  *)
(* it was.                                                                 *)
LEMMA SameHand ==
  ASSUME KeepContext, SameService, ActiveGrabs' = ActiveGrabs, UNCHANGED <<chosen, cur>>,
         \A i \in Items : Active(i)' <=> Active(i),
         \A i \in Items : BeingSettled(i) => BeingSettled(i)'
  PROVE  /\ \A i \in Items : ServedElse(i) => ServedElse(i)'
         /\ cur \in ActiveGrabs => \A i \in Items : Serves(cur, i)' <=> Serves(cur, i)
         /\ \A i \in Items : Orphaned(i)' => Orphaned(i)
<1>1. \A i \in Items : ServedElse(i) => ServedElse(i)'
  BY DEF ServedElse, SameService
<1>2. cur \in ActiveGrabs => \A i \in Items : Serves(cur, i)' <=> Serves(cur, i)
  BY DEF SameService, Serves
<1>3. ASSUME NEW i \in Items, Orphaned(i)' PROVE Orphaned(i)
  <2>1. Active(i) /\ ~BeingSettled(i)
    BY <1>3 DEF Orphaned
  <2>2. QED
    BY <1>3, <2>1, NoneLost DEF KeepContext
<1>4. QED
  BY <1>1, <1>2, <1>3

(* An item moves on with its grab.                                         *)
LEMMA AdvanceKeeps ==
  ASSUME KeepContext, NEW i \in Items, AdvanceItem(i)
  PROVE  KeepNext
<1>1. /\ UNCHANGED <<chosen, grab, grabs, rows, snap, spc, cur, items>>
      /\ spc = "advancing"
      /\ \/ UNCHANGED state
         \/ /\ state' = [state EXCEPT ![i] = "downloading"]
            /\ CanTransitionTo(state[i], "downloading")
  BY DEF AdvanceItem, CanTransition, Transition, grabVars
<1>2. CanTransitionTo(state[i], "downloading") => state[i] \in {"grabbed", "downloading"}
  BY KeepFacts DEF CanTransitionTo, Successors, ItemState, KeepContext
<1>3. /\ \A j \in Items : Active(j)' <=> Active(j)
      /\ \A j \in Items : state'[j] = "importing" => state[j] = "importing"
  BY <1>1, <1>2, KeepFacts DEF Active, ActiveState, KeepContext
<1>4. SameService /\ ActiveGrabs' = ActiveGrabs
  BY <1>1, RowsUntouched DEF KeepContext
<1>5. \A j \in Items : ~BeingSettled(j)
  BY <1>1 DEF BeingSettled, KeepContext
<1>6. \A j \in Items : Orphaned(j)' => Orphaned(j)
  BY <1>1, <1>3, <1>4, <1>5, SameHand
<1>7. CopiesAreLive' /\ NoneForgotten' /\ OnTheirWay'
  BY <1>1, <1>4 DEF KeepContext, KeepInv, CopiesAreLive, NoneForgotten, OnTheirWay
<1>8. MoviesLandOnce'
  BY <1>1, <1>3, <1>4, KeepFacts DEF KeepContext, KeepInv, MoviesLandOnce, SameService
<1>9. QED
  BY <1>6, <1>7, <1>8 DEF KeepNext

LEMMA CompleteKeeps ==
  ASSUME KeepContext, NEW i \in Items, CompleteItem(i)
  PROVE  KeepNext
<1>1. /\ UNCHANGED <<chosen, grab, grabs, rows, snap, spc, cur, items>>
      /\ spc = "completing" /\ i \in left
      /\ \/ i \in fresh /\ left' = left
         \/ i \notin fresh /\ left' = left \ {i}
      /\ \/ /\ state' = [state EXCEPT ![i] = NextStage(i)]
            /\ CanTransitionTo(state[i], NextStage(i))
         \/ state[i] = "importing" /\ UNCHANGED state
  BY DEF CompleteItem, CanTransition, Transition, First, grabVars
<1>2. /\ CanTransitionTo(state[i], "downloading") => state[i] \in {"grabbed", "downloading"}
      /\ CanTransitionTo(state[i], "importing") => state[i] \in {"downloading", "importing"}
  BY KeepFacts DEF CanTransitionTo, Successors, ItemState, KeepContext
<1>3. /\ \A j \in Items : j # i => state'[j] = state[j]
      /\ i \notin fresh => state'[i] = "importing"
  BY <1>1, KeepFacts DEF NextStage, KeepContext
<1>4. \A j \in Items : Active(j)' <=> Active(j)
  BY <1>1, <1>2, <1>3, KeepFacts DEF Active, ActiveState, NextStage, KeepContext
<1>5. SameService /\ ActiveGrabs' = ActiveGrabs
  BY <1>1, RowsUntouched DEF KeepContext
<1>6. \A j \in Items : ~BeingSettled(j)
  BY <1>1 DEF BeingSettled, KeepContext
<1>7. /\ \A j \in Items : ServedElse(j) => ServedElse(j)'
      /\ cur \in ActiveGrabs => \A j \in Items : Serves(cur, j)' <=> Serves(cur, j)
      /\ \A j \in Items : Orphaned(j)' => Orphaned(j)
  BY <1>1, <1>4, <1>5, <1>6, SameHand
<1>8. CopiesAreLive' /\ cur \in ActiveGrabs
  BY <1>1, <1>5 DEF KeepContext, KeepInv, CopiesAreLive
<1>9. NoneForgotten'
  <2>1. \A j \in Items : Active(j)' /\ Serves(cur, j)' => j \in items \/ ServedElse(j)
    BY <1>1, <1>4, <1>7, <1>8 DEF KeepContext, KeepInv, NoneForgotten
  <2>2. QED
    BY <1>1, <1>7, <2>1 DEF NoneForgotten
<1>10. OnTheirWay'
  <2>1. /\ left \subseteq items /\ \A j \in items \ left : state[j] = "importing"
        /\ row.subject \in Movies => items = {row.subject}
        /\ row.subject \in Episodes => items \subseteq Episodes
    BY <1>1 DEF KeepContext, KeepInv, OnTheirWay
  <2>2. items \subseteq Items
    BY KeepFacts DEF KeepContext
  <2>3. QED
    BY <1>1, <1>3, <2>1, <2>2 DEF OnTheirWay, row
<1>11. MoviesLandOnce'
  <2>1. ASSUME NEW j \in Movies, NEW g \in ActiveGrabs, state'[j] = "importing",
               grab[g].subject = j
        PROVE  cur = g
    <3>1. CASE state[j] = "importing"
      BY <1>1, <2>1, <3>1 DEF KeepContext, KeepInv, MoviesLandOnce
    <3>2. CASE state[j] # "importing"
      <4>1. j = i /\ i \in items
        BY <1>1, <1>3, <2>1, <3>2, KeepFacts DEF KeepContext, KeepInv, OnTheirWay
      <4>2. row.subject = grab[cur].subject /\ row.subject \in Items
        BY <1>1, RowCopyType, RowFacts, KeepFacts DEF KeepContext, CopiesName, Copies
      <4>3. row.subject = j
        BY <1>1, <2>1, <4>1, <4>2, KeepFacts DEF KeepContext, KeepInv, OnTheirWay
      <4>4. QED
        BY <1>8, <2>1, <4>2, <4>3 DEF KeepContext, OneActiveGrabPerSubject
    <3>3. QED
      BY <3>1, <3>2
  <2>2. QED
    BY <1>1, <1>5, <2>1 DEF MoviesLandOnce
<1>12. QED
  BY <1>7, <1>8, <1>9, <1>10, <1>11 DEF KeepNext

(* What the importer's steps know of the grab in hand.                     *)
LEMMA InHandFacts ==
  ASSUME KeepContext, spc \notin {"idle", "polling", "visiting"}
  PROVE  /\ Copies(row, cur) /\ row \in GrabRow /\ cur \in 1 .. grabs /\ cur \notin snap
         /\ snap \subseteq ActiveGrabs
         /\ row.subject = grab[cur].subject /\ row.subject \in Items
         /\ \A i \in Items : Active(i) /\ Serves(cur, i) => i \in CoveredNow(row)
         /\ row.subject \in Movies => CoveredNow(row) = {row.subject}
<1>1. Copies(row, cur) /\ row \in GrabRow /\ cur \in 1 .. grabs
  BY RowCopyType DEF KeepContext, CopiesName, Copies, TypeOK
<1>2. cur \notin snap /\ snap \subseteq ActiveGrabs
  BY DEF KeepContext, KeepInv, CopiesAreLive
<1>3. QED
  BY <1>1, <1>2, CoversServed DEF KeepContext, Copies

LEMMA ImportStarts ==
  ASSUME KeepContext, CompleteRow \/ ImportBegin
  PROVE  KeepNext
<1>1. /\ UNCHANGED <<state, chosen, grabs, rows, snap, cur, items>>
      /\ spc \in {"completing", "importing"}
      /\ \/ spc = "completing" /\ spc' = "importing" /\ left = {}
            /\ UpdateGrab(cur, [row EXCEPT !.st = "importing"])
         \/ spc = "importing" /\ spc' = "filing" /\ left' = CoveredNow(row) /\ UNCHANGED grab
  BY DEF CompleteRow, ImportBegin, WriteRow, SGoto, itemVars, grabVars
<1>2. cur \in ActiveGrabs
  BY <1>1 DEF KeepContext, KeepInv, CopiesAreLive
<1>3. "importing" \in GrabState /\ "importing" \in ActiveGrab
  BY DEF GrabState, ActiveGrab
<1>4. SameService /\ ActiveGrabs' = ActiveGrabs
  BY <1>1, <1>2, <1>3, InHandFacts, CopyWritten, RowsUntouched DEF KeepContext
<1>5. \A j \in Items : ~BeingSettled(j) /\ (Active(j)' <=> Active(j))
  BY <1>1 DEF BeingSettled, Active, KeepContext
<1>6. /\ \A j \in Items : ServedElse(j) => ServedElse(j)'
      /\ \A j \in Items : Serves(cur, j)' <=> Serves(cur, j)
      /\ \A j \in Items : Orphaned(j)' => Orphaned(j)
  BY <1>1, <1>2, <1>4, <1>5, SameHand
<1>7. CopiesAreLive'
  BY <1>1, <1>2, <1>4, InHandFacts DEF CopiesAreLive
<1>8. NoneForgotten'
  <2>1. \A j \in Items : Active(j)' /\ Serves(cur, j)' => j \in items \/ ServedElse(j)
    BY <1>1, <1>5, <1>6 DEF KeepContext, KeepInv, NoneForgotten
  <2>2. \A j \in Items : Active(j)' /\ Serves(cur, j)' => j \in CoveredNow(row)
    BY <1>1, <1>5, <1>6, InHandFacts
  <2>3. QED
    BY <1>1, <1>6, <2>1, <2>2 DEF NoneForgotten
<1>9. OnTheirWay'
  <2>1. items \subseteq Items
    BY KeepFacts DEF KeepContext
  <2>2. \A j \in items : state[j] \in {"grabbed", "downloading"} => ServedElse(j)
    BY <1>1 DEF KeepContext, KeepInv, OnTheirWay
  <2>3. QED
    BY <1>1, <1>6, <2>1, <2>2 DEF OnTheirWay
<1>10. MoviesLandOnce'
  BY <1>1, <1>4 DEF KeepContext, KeepInv, MoviesLandOnce, SameService
<1>11. QED
  BY <1>6, <1>7, <1>8, <1>9, <1>10 DEF KeepNext

LEMMA ImportItemKeeps ==
  ASSUME KeepContext, NEW i \in Items, ImportItem(i)
  PROVE  KeepNext
<1>1. /\ UNCHANGED <<chosen, grab, grabs, rows, snap, spc, cur, items>>
      /\ spc = "filing" /\ left' = left \ {i}
      /\ state' = [state EXCEPT ![i] = "imported"]
  BY DEF ImportItem, MarkImported, grabVars
<1>2. /\ \A j \in Items : j # i => state'[j] = state[j]
      /\ state'[i] = "imported"
  BY <1>1, KeepFacts DEF KeepContext
<1>3. /\ ~Active(i)'
      /\ \A j \in Items : Active(j)' => j # i /\ Active(j)
  BY <1>2 DEF Active, ActiveState
<1>4. SameService /\ ActiveGrabs' = ActiveGrabs /\ cur \in ActiveGrabs
  BY <1>1, RowsUntouched DEF KeepContext, KeepInv, CopiesAreLive
<1>5. \A j \in Items : ~BeingSettled(j)
  BY <1>1 DEF BeingSettled, KeepContext
<1>6. /\ \A j \in Items : ServedElse(j) => ServedElse(j)'
      /\ \A j \in Items : Serves(cur, j)' <=> Serves(cur, j)
  BY <1>1, <1>4 DEF ServedElse, SameService, Serves
<1>7. ASSUME NEW j \in Items, Orphaned(j)' PROVE Orphaned(j)
  BY <1>3, <1>4, <1>5, <1>7, NoneLost DEF KeepContext, Orphaned
<1>8. CopiesAreLive'
  BY <1>1, <1>4, InHandFacts DEF CopiesAreLive
<1>9. NoneForgotten'
  BY <1>1, <1>3, <1>6 DEF KeepContext, KeepInv, NoneForgotten
<1>10. OnTheirWay'
  <2>1. items \subseteq Items
    BY KeepFacts DEF KeepContext
  <2>2. QED
    BY <1>1, <1>2, <1>6, <2>1 DEF KeepContext, KeepInv, OnTheirWay
<1>11. MoviesLandOnce'
  <2>1. \A j \in Movies : state'[j] = "importing" => state[j] = "importing"
    BY <1>2, KeepFacts DEF KeepContext
  <2>2. QED
    BY <1>1, <1>4, <2>1 DEF KeepContext, KeepInv, MoviesLandOnce, SameService
<1>12. QED
  BY <1>7, <1>8, <1>9, <1>10, <1>11 DEF KeepNext

(* The grab in hand leaves the queue: what only it serves is handed on.    *)
LEMMA Closes ==
  ASSUME KeepContext, spc \in {"completing", "importing", "filing", "failing"}, cur \in ActiveGrabs,
         NEW st \in GrabState, st \notin ActiveGrab, UpdateGrab(cur, [row EXCEPT !.st = st]),
         UNCHANGED <<state, chosen, grabs, rows>>, snap' = snap, spc = "failing" => items # {},
         \A i \in Items : Active(i) /\ Serves(cur, i) => ServedElse(i) \/ BeingSettled(i)'
  PROVE  /\ SameService /\ ActiveGrabs' = ActiveGrabs \ {cur} /\ snap' \subseteq ActiveGrabs'
         /\ \A i \in Movies, g \in ActiveGrabs' : state'[i] = "importing" => grab'[g].subject # i
         /\ \A i \in Items : Orphaned(i)' => Orphaned(i)
<1>1. SameService /\ ActiveGrabs' = ActiveGrabs \ {cur}
  BY InHandFacts, CopyWritten DEF KeepContext
<1>2. snap' \subseteq ActiveGrabs'
  BY <1>1, InHandFacts
<1>3. \A i \in Movies, g \in ActiveGrabs' : state'[i] = "importing" => grab'[g].subject # i
  BY <1>1 DEF KeepContext, KeepInv, MoviesLandOnce, SameService
<1>4. ASSUME NEW i \in Items, Orphaned(i)' PROVE Orphaned(i)
  <2>1. Active(i) /\ ~BeingSettled(i)
    BY <1>4 DEF Orphaned, Active, BeingSettled, KeepContext
  <2>2. ~BeingSettled(i)'
    BY <1>4 DEF Orphaned
  <2>3. \A g \in ActiveGrabs \ ActiveGrabs' : Serves(g, i) => ServedElse(i) /\ g = cur
    BY <1>1, <2>1, <2>2
  <2>4. QED
    BY <1>1, <1>4, <2>1, <2>3, NoneLost DEF KeepContext
<1>5. QED
  BY <1>1, <1>2, <1>3, <1>4

(* Imported before, or now.                                                *)
LEMMA ImportEnds ==
  ASSUME KeepContext, CompleteAlready \/ ImportDone
  PROVE  KeepNext
<1>1. /\ UNCHANGED <<state, chosen, grabs, rows, snap>>
      /\ spc \in {"completing", "filing"} /\ spc' = "visiting"
      /\ UpdateGrab(cur, [row EXCEPT !.st = "imported"]) \/ RowRefused("imported")
      /\ \/ spc = "filing" /\ left = {}
         \/ /\ spc = "completing" /\ state[row.subject] = "imported"
            /\ items = {} \/ items \subseteq Movies
  BY DEF CompleteAlready, ImportDone, NothingActive, WriteRow, NextGrab, itemVars
<1>2. cur \in ActiveGrabs /\ "imported" \in GrabState /\ "imported" \notin ActiveGrab
  BY <1>1 DEF KeepContext, KeepInv, CopiesAreLive, GrabState, ActiveGrab
<1>3. UpdateGrab(cur, [row EXCEPT !.st = "imported"])
  BY <1>1, <1>2, RowIsNotRefused
<1>4. ASSUME NEW i \in Items, Active(i), Serves(cur, i) PROVE ServedElse(i)
  <2>1. CASE spc = "filing"
    BY <1>1, <1>4, <2>1 DEF KeepContext, KeepInv, NoneForgotten
  <2>2. CASE spc = "completing"
    <3>1. i \in items \/ ServedElse(i)
      BY <1>4, <2>2 DEF KeepContext, KeepInv, NoneForgotten
    <3>2. CASE i \in items
      <4>1. i = row.subject
        BY <1>1, <1>4, <2>2, <3>2, InHandFacts DEF Serves
      <4>2. QED
        BY <1>1, <1>4, <2>2, <4>1 DEF Active, ActiveState
    <3>3. QED
      BY <3>1, <3>2
  <2>3. QED
    BY <1>1, <2>1, <2>2
<1>5. /\ snap' \subseteq ActiveGrabs'
      /\ \A i \in Movies, g \in ActiveGrabs' : state'[i] = "importing" => grab'[g].subject # i
      /\ \A i \in Items : Orphaned(i)' => Orphaned(i)
  BY <1>1, <1>2, <1>3, <1>4, Closes
<1>6. QED
  BY <1>1, <1>5, AtRest DEF KeepNext

(* The importer failed: every item it was for is settled next.             *)
LEMMA ImportFailureKeeps ==
  ASSUME KeepContext, ImportFails
  PROVE  KeepNext
<1>1. /\ UNCHANGED <<state, chosen, grabs, rows, snap, cur, items>>
      /\ spc \in {"importing", "filing"} /\ spc' = "rejecting" /\ left' = items
      /\ UpdateGrab(cur, [row EXCEPT !.st = "failed"])
  BY DEF ImportFails, SGoto, itemVars, KeepContext, UndisturbedQueue
<1>2. cur \in ActiveGrabs /\ "failed" \in GrabState /\ "failed" \notin ActiveGrab
  BY <1>1 DEF KeepContext, KeepInv, CopiesAreLive, GrabState, ActiveGrab
<1>3. \A i \in Items : Active(i) /\ Serves(cur, i) => ServedElse(i) \/ BeingSettled(i)'
  BY <1>1 DEF KeepContext, KeepInv, NoneForgotten, BeingSettled
<1>4. /\ SameService /\ ActiveGrabs' = ActiveGrabs \ {cur} /\ snap' \subseteq ActiveGrabs'
      /\ \A i \in Movies, g \in ActiveGrabs' : state'[i] = "importing" => grab'[g].subject # i
      /\ \A i \in Items : Orphaned(i)' => Orphaned(i)
  BY <1>1, <1>2, <1>3, Closes
<1>5. CopiesAreLive' /\ NoneForgotten' /\ MoviesLandOnce'
  BY <1>1, <1>4, InHandFacts DEF CopiesAreLive, NoneForgotten, MoviesLandOnce
<1>6. OnTheirWay'
  <2>1. \A i \in Items : ServedElse(i) => ServedElse(i)'
    BY <1>1, <1>4 DEF ServedElse, SameService
  <2>2. items \subseteq Items
    BY KeepFacts DEF KeepContext
  <2>3. QED
    BY <1>1, <2>1, <2>2 DEF KeepContext, KeepInv, OnTheirWay
<1>7. QED
  BY <1>4, <1>5, <1>6 DEF KeepNext

(* An item that was being imported is settled, or stays because it is      *)
(* leased; one that is reserved again has another grab.                    *)
LEMMA RejectKeeps ==
  ASSUME KeepContext, NEW i \in Items, RejectItem(i)
  PROVE  KeepNext
<1>1. /\ UNCHANGED <<chosen, grab, grabs, rows, snap, spc, cur, items>>
      /\ spc = "rejecting" /\ i \in left /\ left' = left \ {i}
      /\ \/ state' = [state EXCEPT ![i] = "import_failed"]
         \/ UNCHANGED state /\ (state[i] # "importing" \/ lease[i] # Free)
  BY DEF RejectItem, Transition, First, grabVars, KeepContext, UndisturbedQueue
<1>2. /\ \A j \in Items : j # i => state'[j] = state[j]
      /\ state'[i] \in {state[i], "import_failed"}
  BY <1>1, KeepFacts DEF KeepContext
<1>3. SameService /\ ActiveGrabs' = ActiveGrabs
  BY <1>1, RowsUntouched DEF KeepContext
<1>4. \A j \in Items : ServedElse(j) => ServedElse(j)'
  BY <1>1, <1>3 DEF ServedElse, SameService
<1>5. \A j \in left : state[j] \in {"grabbed", "downloading"} => ServedElse(j)
  BY <1>1 DEF KeepContext, KeepInv, OnTheirWay
<1>6. ASSUME NEW j \in Items, Orphaned(j)', ~Orphaned(j) PROVE LeftBehind(j)
  <2>1. state'[j] = state[j] /\ Active(j)
    BY <1>2, <1>6 DEF Orphaned, Active, ActiveState
  <2>2. j = i
    BY <1>1, <1>3, <1>6, <2>1, NoneLost DEF KeepContext, BeingSettled, Orphaned
  <2>3. ~ServedElse(i)
    BY <1>3, <1>6, <2>2 DEF ServedElse, SameService, Orphaned
  <2>4. state[i] = "importing"
    BY <1>1, <1>5, <2>1, <2>2, <2>3 DEF Active, ActiveState
  <2>5. lease[i] # Free
    BY <1>1, <2>1, <2>2, <2>4, KeepFacts DEF KeepContext
  <2>6. QED
    BY <1>1, <2>2, <2>5 DEF LeftBehind
<1>7. CopiesAreLive' /\ NoneForgotten'
  BY <1>1, <1>3 DEF KeepContext, KeepInv, CopiesAreLive, NoneForgotten
<1>8. OnTheirWay'
  <2>1. left \subseteq Items
    BY KeepFacts DEF KeepContext
  <2>2. QED
    BY <1>1, <1>2, <1>4, <1>5, <2>1 DEF OnTheirWay
<1>9. MoviesLandOnce'
  <2>1. \A j \in Movies : state'[j] = "importing" => state[j] = "importing"
    BY <1>2, KeepFacts DEF KeepContext
  <2>2. QED
    BY <1>1, <1>3, <2>1 DEF KeepContext, KeepInv, MoviesLandOnce, SameService
<1>10. QED
  BY <1>6, <1>7, <1>8, <1>9 DEF KeepNext

LEMMA StallKeeps ==
  ASSUME KeepContext, MarkStalled
  PROVE  KeepNext
<1>1. /\ UNCHANGED <<state, chosen, grabs, rows, snap, spc, cur>>
      /\ spc = "failing" /\ items # {} /\ items' = {} /\ left' = CoveredNow(row)
      /\ UpdateGrab(cur, [row EXCEPT !.st = "stalled"])
  BY DEF MarkStalled, itemVars
<1>2. cur \in ActiveGrabs /\ "stalled" \in GrabState /\ "stalled" \notin ActiveGrab
  BY <1>1 DEF KeepContext, KeepInv, CopiesAreLive, GrabState, ActiveGrab
<1>3. \A i \in Items : Active(i) /\ Serves(cur, i) => BeingSettled(i)'
  BY <1>1, InHandFacts DEF BeingSettled
<1>4. /\ SameService /\ ActiveGrabs' = ActiveGrabs \ {cur} /\ snap' \subseteq ActiveGrabs'
      /\ \A i \in Movies, g \in ActiveGrabs' : state'[i] = "importing" => grab'[g].subject # i
      /\ \A i \in Items : Orphaned(i)' => Orphaned(i)
  BY <1>1, <1>2, <1>3, Closes
<1>5. CopiesAreLive' /\ NoneForgotten' /\ OnTheirWay'
  BY <1>1, <1>4, InHandFacts DEF CopiesAreLive, NoneForgotten, OnTheirWay
<1>6. MoviesLandOnce'
  <2>1. ASSUME NEW i \in CoveredNow(row) \cap Movies PROVE state[i] # "importing"
    <3>1. i = row.subject /\ row.subject = grab[cur].subject
      BY <1>1, InHandFacts, KeepFacts DEF KeepContext, CoveredNow, ActiveByRelease
    <3>2. QED
      BY <1>1, <1>2, <3>1 DEF KeepContext, KeepInv, MoviesLandOnce
  <2>2. QED
    BY <1>1, <1>4, <2>1 DEF MoviesLandOnce
<1>7. QED
  BY <1>4, <1>5, <1>6 DEF KeepNext

(* An item returns to wanted; only a movie that is past waiting for its    *)
(* download stays as it is.                                                *)
LEMMA FailItemKeeps ==
  ASSUME KeepContext, NEW i \in Items, FailItem(i)
  PROVE  KeepNext
<1>1. /\ UNCHANGED <<chosen, grab, grabs, rows, snap, spc, cur, items>>
      /\ spc = "failing" /\ i \in left /\ left' = left \ {i}
      /\ \/ state' = [state EXCEPT ![i] = "wanted"]
         \/ UNCHANGED state /\ i \in Movies /\ state[i] \notin {"grabbed", "downloading"}
  BY DEF FailItem, Transition, First, grabVars
<1>2. /\ \A j \in Items : j # i => state'[j] = state[j]
      /\ state'[i] \in {state[i], "wanted"}
  BY <1>1, KeepFacts DEF KeepContext
<1>3. SameService /\ ActiveGrabs' = ActiveGrabs
  BY <1>1, RowsUntouched DEF KeepContext
<1>4. items = {} => ~Active(i)'
  <2>1. items = {} /\ i \in Movies => state[i] # "importing"
    BY <1>1 DEF KeepContext, KeepInv, MoviesLandOnce
  <2>2. QED
    BY <1>1, <2>1, KeepFacts DEF Active, ActiveState, KeepContext
<1>5. ASSUME NEW j \in Items, Orphaned(j)' PROVE Orphaned(j)
  <2>1. Active(j)
    BY <1>2, <1>5 DEF Orphaned, Active, ActiveState
  <2>2. ~BeingSettled(j)
    BY <1>1, <1>4, <1>5 DEF Orphaned, BeingSettled, KeepContext
  <2>3. QED
    BY <1>3, <1>5, <2>1, <2>2, NoneLost DEF KeepContext
<1>6. CopiesAreLive' /\ NoneForgotten' /\ OnTheirWay'
  BY <1>1, <1>3 DEF KeepContext, KeepInv, CopiesAreLive, NoneForgotten, OnTheirWay
<1>7. MoviesLandOnce'
  <2>1. \A j \in Movies : state'[j] = "importing" => state[j] = "importing"
    BY <1>2, KeepFacts DEF KeepContext
  <2>2. QED
    BY <1>1, <1>3, <2>1, KeepFacts DEF KeepContext, KeepInv, MoviesLandOnce, SameService
<1>8. QED
  BY <1>5, <1>6, <1>7 DEF KeepNext

LEMMA FallbackKeeps ==
  ASSUME KeepContext, FailDone \/ \E r \in Releases : FallbackStart(r)
  PROVE  KeepNext
<1>1. /\ UNCHANGED <<state, chosen, grab, grabs, rows, snap, cur, items>>
      /\ spc \in {"failing", "fallback"} /\ spc' \in {"fallback", "grabbing"}
      /\ spc = "failing" => left = {}
  BY DEF FailDone, FallbackStart, GrabCheck, SGoto, storeVars
<1>2. SameService /\ ActiveGrabs' = ActiveGrabs
  BY <1>1, RowsUntouched DEF KeepContext
<1>3. \A i \in Items : ~BeingSettled(i) /\ (Active(i)' <=> Active(i))
  BY <1>1 DEF BeingSettled, Active, KeepContext
<1>4. \A i \in Items : Orphaned(i)' => Orphaned(i)
  BY <1>1, <1>2, <1>3, SameHand
<1>5. CopiesAreLive' /\ NoneForgotten' /\ OnTheirWay' /\ MoviesLandOnce'
  BY <1>1, <1>2 DEF KeepContext, KeepInv, CopiesAreLive, NoneForgotten, OnTheirWay, MoviesLandOnce
<1>6. QED
  BY <1>4, <1>5 DEF KeepNext

LEMMA StatusKeeps ==
  ASSUME KeepContext, StatusNext
  PROVE  KeepNext
<1>1. ASSUME NEW g \in GrabIds, VisitGrab(g) PROVE KeepNext
  BY <1>1, WaitKeeps, NoteKeeps, BeginKeeps DEF VisitGrab
<1>2. ASSUME NEW i \in Items, WorkItem(i) PROVE KeepNext
  BY <1>2, AdvanceKeeps, CompleteKeeps, ImportItemKeeps, RejectKeeps, FailItemKeeps, FailAborts
  DEF WorkItem
<1>3. CASE WorkGrab
  <2>1. ~MarkStalledFails
    BY DEF MarkStalledFails, KeepContext, UndisturbedQueue, StoreStops
  <2>2. ~CompleteRowRefused
    <3>1. SUFFICES ASSUME CompleteRowRefused PROVE FALSE
      OBVIOUS
    <3>2. spc = "completing" /\ RowRefused("importing") /\ "importing" \in GrabState
      BY <3>1 DEF CompleteRowRefused, GrabState
    <3>3. cur \in ActiveGrabs
      BY <3>2 DEF KeepContext, KeepInv, CopiesAreLive
    <3>4. QED
      BY <3>2, <3>3, RowIsNotRefused
  <2>3. QED
    BY <1>3, <2>1, <2>2, LeaveKeeps, CompleteStops, ImportStarts, ImportEnds, ImportFailureKeeps,
       StallKeeps, FallbackKeeps
    DEF WorkGrab
<1>4. QED
  BY <1>1, <1>2, <1>3, PollKeeps, FallbackKeeps DEF StatusNext

LEMMA NextKeeps ==
  ASSUME KeepContext, dpc' = "idle", [Next]_vars
  PROVE  KeepInv' /\ (\A i \in Items : Orphaned(i)' => Orphaned(i) \/ LeftBehind(i))
<1>1. TypeOK /\ CopiesName /\ LeaseInv /\ KeepInv /\ OfOneKind /\ dpc = "idle"
  BY DEF KeepContext, KeepInv
<1>2. ASSUME NEW p \in Workers, LoopStep(p) \/ CallerStep(p)
      PROVE  KeepInv' /\ (\A i \in Items : Orphaned(i)' => Orphaned(i))
  <2>1. (LoopNext(p) \/ GrabNext(p) \/ HandOff(p)) /\ UNCHANGED statusVars
    BY <1>2 DEF LoopStep, CallerStep
  <2>2. Mild /\ OfOneKind'
    BY <1>1, <2>1, WorkersAreMild, WorkerKindsKept
  <2>3. QED
    BY <1>1, <2>1, <2>2, MildKeeps DEF KeepInv
<1>3. CASE StatusStep
  BY <1>1, <1>3, StatusKeeps, StatusKindsKept DEF StatusStep, KeepNext, KeepInv
<1>4. CASE ApiStep
  <2>1. Mild /\ UNCHANGED statusVars /\ OfOneKind'
    BY <1>1, <1>4, RequestsAreMild, RequestKindsKept DEF ApiStep, KeepContext
  <2>2. QED
    BY <1>1, <2>1, MildKeeps DEF KeepInv
<1>5. CASE \/ \E r \in Releases : TorrentMove(r)
           \/ \E i \in Items : LeaseExpires(i) \/ RowStays(i)
           \/ UNCHANGED vars
  <2>1. UNCHANGED <<state, chosen, grab, grabs, jobVars, statusVars>>
    BY <1>5 DEF TorrentMove, LeaseExpires, RowStays, vars, storeVars, itemVars, grabVars
  <2>2. Mild /\ OfOneKind'
    BY <1>1, <2>1, StayIsMild, SameKinds DEF jobVars
  <2>3. QED
    BY <1>1, <2>1, <2>2, MildKeeps DEF KeepInv
<1>6. ~Crash
  BY DEF Crash, KeepContext, UndisturbedQueue
<1>7. QED
  BY <1>2, <1>3, <1>4, <1>5, <1>6, WorkerKinds DEF Next

(* While no transaction fails, no shutdown comes, no process dies and no   *)
(* operator closes a grab, an item loses the grab it waits for in one way  *)
(* only: failGrab or the importer's error path finds it, or an item before *)
(* it, leased or too far to return.  No search, hand-off, import, fallback, unmonitoring or  *)
(* late write of the status loop (status.go, CreateGrabbedFor) orphans it. *)
THEOREM ReservationsAreKept == ASSUME UndisturbedQueue PROVE Spec => ReservationKept
<1>1. Init => KeepInv
  <2> SUFFICES ASSUME Init PROVE KeepInv
    OBVIOUS
  <2>1. /\ spc = "idle" /\ snap = {} /\ ActiveGrabs = {}
        /\ \A p \in Workers : held[p] = {} /\ pc[p] = "idle"
    BY DEF Init, StoreInit, AcquisitionInit, StatusInit, ActiveGrabs
  <2>2. QED
    BY <2>1 DEF KeepInv, OfOneKind, CopiesAreLive, NoneForgotten, OnTheirWay, MoviesLandOnce
<1>2. /\ TypeOK /\ CopiesName /\ LeaseInv /\ OneActiveGrabPerSubject /\ KeepInv
      /\ (dpc = "idle") /\ (dpc = "idle")' /\ [Next]_vars
      => KeepInv' /\ [\A i \in Items : Orphaned(i)' => Orphaned(i) \/ LeftBehind(i)]_vars
  BY NextKeeps DEF KeepContext
<1>3. Spec => [](dpc = "idle")
  BY NoRemovals
<1>4. QED
  BY <1>1, <1>2, <1>3, TypeCorrect, CopiesInvariant, LeasesInvariant, OneLiveGrab, PTL
  DEF Spec, ReservationKept

-------------------------------------------------------------------------------
(* The pipeline implements the lifecycle.                                  *)

LEMMA SameEdges == L!Successors = Successors /\ L!ItemState = ItemState
  BY DEF L!Successors, Successors, L!ItemState, ItemState

LEMMA StayIsStutter ==
  ASSUME UNCHANGED <<state, filed>>
  PROVE  [L!Next]_L!lifecycleVars
  BY DEF L!lifecycleVars

LEMMA EdgeIsMove ==
  ASSUME TypeOK, NEW i \in Items, NEW to \in ItemState \ {"imported"},
         CanTransitionTo(state[i], to), Transition(i, to), filed' = filed
  PROVE  [L!Next]_L!lifecycleVars
<1>1. CASE to = state[i]
  BY <1>1, LeaseFacts, StayIsStutter DEF Transition
<1>2. CASE to # state[i]
  BY <1>2, SameEdges DEF CanTransitionTo, Transition, L!Next, L!Move
<1>3. QED
  BY <1>1, <1>2

LEMMA NamesOfStates ==
  {"wanted", "searching", "grabbed", "downloading", "importing", "import_failed",
   "failed", "unmonitored"} \subseteq ItemState \ {"imported"}
  BY DEF ItemState

LEMMA RescheduleIsMove ==
  ASSUME TypeOK, NEW p \in Workers, Reschedule(p)
  PROVE  [L!Next]_L!lifecycleVars
<1>1. target[p] \in Items /\ filed' = filed
  BY LeaseFacts DEF Reschedule
<1>2. CASE UNCHANGED state
  BY <1>1, <1>2, StayIsStutter
<1>3. ASSUME state[target[p]] = "searching", NEW terminal \in GivesUp(p),
             state' = [state EXCEPT ![target[p]] = RescheduleTo(target[p], terminal)]
      PROVE  [L!Next]_L!lifecycleVars
  <2>1. PICK to \in {"imported", "failed", "wanted"} :
          /\ state' = [state EXCEPT ![target[p]] = to]
          /\ to = "imported" => filed[target[p]]
    BY <1>3 DEF RescheduleTo
  <2>2. CASE to = "imported"
    BY <1>1, <1>3, <2>1, <2>2 DEF L!Next, L!KeepImport
  <2>3. CASE to # "imported"
    BY <1>1, <1>3, <2>1, <2>3, EdgeIsMove, NamesOfStates
    DEF Transition, CanTransitionTo, Successors, ItemState
  <2>4. QED
    BY <2>2, <2>3
<1>4. QED
  BY <1>2, <1>3 DEF Reschedule

LEMMA RecordIsReserve ==
  ASSUME TypeOK, LeaseInv, NEW p \in Workers, Record(p)
  PROVE  [L!Next]_L!lifecycleVars
<1> DEFINE others == held[p] \ {target[p]}
<1>1. target[p] \in Items /\ others \in SUBSET Items
  BY LeaseFacts
<1>2. L!Reserve(target[p], others)
  BY DEF Record, CanCreateGrabbed, CreateGrabbed, L!Reserve
<1> HIDE DEF others
<1>3. QED
  BY <1>1, <1>2 DEF L!Next

LEMMA WorkersImplement ==
  ASSUME TypeOK, LeaseInv, NEW p \in Workers, LoopNext(p) \/ GrabNext(p) \/ HandOff(p)
  PROVE  [L!Next]_L!lifecycleVars
<1> USE DEF storeVars, itemVars
<1>1. target[p] \in Items
  BY LeaseFacts
<1>2. CASE SearchStart(p)
  BY <1>1, <1>2, EdgeIsMove, NamesOfStates DEF SearchStart
<1>3. CASE GrabRequest(p)
  BY <1>1, <1>3, EdgeIsMove, NamesOfStates DEF GrabRequest, CanRequestSearch, CanTransition
<1>4. CASE GrabStart(p)
  BY <1>1, <1>4, EdgeIsMove, NamesOfStates DEF GrabStart, CanTransition
<1>5. CASE \/ SearchNoRelease(p) \/ SearchStoreError(p) \/ AddRefused(p)
           \/ \E e \in Episodes : PackBusy(p, e)
  BY <1>5, RescheduleIsMove DEF SearchNoRelease, SearchStoreError, AddRefused, PackBusy
<1>6. CASE Record(p)
  BY <1>6, RecordIsReserve
<1>7. CASE \/ SearchBegin(p) \/ \E i \in Items : SearchBusy(p, i) \/ SearchLease(p, i)
           \/ SearchCheck(p) \/ SearchSkip(p) \/ SearchNotStarted(p)
           \/ SearchEvaluate(p) \/ GrabRefused(p)
           \/ \E e \in Episodes : PackRead(p, e) \/ PackLock(p, e)
           \/ AddDownload(p) \/ SearchAbandoned(p) \/ RecordFails(p)
  BY <1>7, StayIsStutter
  DEF SearchBegin, SearchBusy, SearchLease, SearchCheck, SearchSkip, SearchNotStarted,
      SearchEvaluate, GrabRefused, PackRead, PackLock, AddDownload, SearchAbandoned, RecordFails
<1>8. QED
  BY <1>2, <1>3, <1>4, <1>5, <1>6, <1>7 DEF LoopNext, GrabNext, HandOff

LEMMA StatusImplements ==
  ASSUME TypeOK, LeaseInv, StatusNext
  PROVE  [L!Next]_L!lifecycleVars
<1> USE DEF storeVars, itemVars
<1>1. CASE \/ StatusRead \/ StatusPoll \/ PollFails \/ StatusDone \/ WorkGrab
           \/ \E g \in GrabIds : VisitGrab(g)
           \/ \E r \in Releases : FallbackStart(r)
  BY <1>1, StayIsStutter
  DEF StatusRead, StatusPoll, PollFails, StatusDone, VisitGrab, WaitForMissing, NotePaused,
      NoteQueued, NoteDownloading, NoteRefused, BeginComplete, BeginFail, RemoveFails, WorkGrab,
      AdvanceEnds, CompleteAborts, CompleteAlready, CompleteRow, CompleteRowRefused,
      ImportBegin, ImportFails, ImportDone, RejectDone, MarkStalled, MarkStalledFails,
      FailDone, FallbackNone, FallbackDone, FallbackStart, GrabCheck
<1>2. ASSUME NEW i \in Items, WorkItem(i) PROVE [L!Next]_L!lifecycleVars
  <2>1. CASE ImportItem(i)
    <3>1. L!Import(i)
      BY <2>1 DEF ImportItem, Markable, MarkImported, L!Import
    <3>2. QED
      BY <3>1 DEF L!Next
  <2>2. CASE UNCHANGED <<state, filed>>
    BY <2>2, StayIsStutter
  <2>3. CASE ~ImportItem(i) /\ ~UNCHANGED <<state, filed>>
    <3>1. filed' = filed
      BY <1>2, <2>3 DEF WorkItem, AdvanceItem, CompleteItem, RejectItem, FailItem, FailItemAborts
    <3>2. CanTransitionTo("importing", "import_failed")
      BY DEF CanTransitionTo, Successors, ItemState
    <3>3. PICK to \in {"downloading", "importing", "import_failed", "wanted"} :
            Transition(i, to) /\ CanTransitionTo(state[i], to)
      BY <1>2, <2>3, <3>1, <3>2
      DEF WorkItem, AdvanceItem, CompleteItem, NextStage, RejectItem, FailItem, FailItemAborts,
          CanTransition
    <3>4. QED
      BY <3>1, <3>3, EdgeIsMove, NamesOfStates
  <2>4. QED
    BY <2>1, <2>2, <2>3
<1>3. QED
  BY <1>1, <1>2 DEF StatusNext

LEMMA QueueImplements ==
  ASSUME TypeOK, QueueNext
  PROVE  [L!Next]_L!lifecycleVars
<1> USE DEF storeVars, itemVars
<1>1. ASSUME NEW i \in Items, DeleteRetry(i) \/ RequestSearch(i)
      PROVE  [L!Next]_L!lifecycleVars
  BY <1>1, EdgeIsMove, NamesOfStates
  DEF DeleteRetry, RequestSearch, CanRetryNow, CanRequestSearch, CanTransition
<1>2. ASSUME NEW e \in Episodes, Unmonitor(e) PROVE [L!Next]_L!lifecycleVars
  BY <1>2, EdgeIsMove, NamesOfStates DEF Unmonitor, CanTransition, Items
<1>3. CASE \/ \E g \in GrabIds : DeleteRead(g)
           \/ DeleteRemove \/ DeleteMark \/ DeleteDone \/ DeleteFails
           \/ \E p \in Callers, i \in Items, r \in Releases : ManualGrab(p, i, r)
  BY <1>3, StayIsStutter
  DEF DeleteRead, DeleteRemove, DeleteMark, DeleteDone, DeleteFails, ManualGrab, GrabCheck
<1>4. QED
  BY <1>1, <1>2, <1>3 DEF QueueNext

(* Every step of every actor, however stale what it read, moves an item    *)
(* along an edge of model.go, reserves the wanted episodes of a pack,      *)
(* imports a file, keeps the file an upgrade search was to replace, or     *)
(* moves no item: the pipeline implements Lifecycle.                       *)
THEOREM ImplementsLifecycle == Spec => LifecycleSpec
<1>1. Init => L!Init
  <2> SUFFICES ASSUME StoreInit PROVE L!Init
    BY DEF Init
  <2>1. state \in [Items -> {"unmonitored", "wanted", "imported"}]
    BY StoreAssumption DEF StoreInit
  <2>2. filed \in [Items -> BOOLEAN]
    BY DEF StoreInit
  <2>3. \A i \in Items : state[i] # "imported"
    BY StoreAssumption DEF StoreInit
  <2>4. QED
    BY <2>1, <2>2, <2>3 DEF L!Init
<1>2. TypeOK /\ LeaseInv /\ [Next]_vars => [L!Next]_L!lifecycleVars
  <2> SUFFICES ASSUME TypeOK, LeaseInv, [Next]_vars PROVE [L!Next]_L!lifecycleVars
    OBVIOUS
  <2>1. CASE \/ \E r \in Releases : TorrentMove(r)
             \/ Crash
             \/ \E i \in Items : LeaseExpires(i) \/ RowStays(i)
             \/ UNCHANGED vars
    BY <2>1, StayIsStutter DEF TorrentMove, Crash, LeaseExpires, RowStays, vars, storeVars, itemVars
  <2>2. QED
    BY <2>1, WorkersImplement, StatusImplements, QueueImplements, WorkerKinds
    DEF Next, LoopStep, CallerStep, StatusStep, ApiStep
<1>3. QED
  BY <1>1, <1>2, TypeCorrect, LeasesInvariant, PTL DEF Spec, LifecycleSpec, L!Spec
===============================================================================
