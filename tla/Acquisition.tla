------------------------------ MODULE Acquisition ------------------------------
(***************************************************************************)
(* From a wanted item to a torrent: the search and recent loops            *)
(* (engine/search.go) and the stored-release grab that manual picks and    *)
(* failure fallbacks share (engine/manual.go).                             *)
(*                                                                         *)
(* A worker is one goroutine: a loop works through one title group of due  *)
(* targets in order, a caller serves one grab request at a time.  Groups   *)
(* of one loop touch disjoint items, so a second group is a second loop.   *)
(* A worker keeps its leases until it is done with its target; deferred    *)
(* releases are part of the step that ends the work.  It looks at the      *)
(* lease table only to acquire and to release: a lease that runs out under *)
(* it changes nothing of what it does.                                     *)
(***************************************************************************)
EXTENDS ItemStore, FiniteSets

CONSTANTS
  Loops,       (* goroutines running SearchOnce or RecentOnce             *)
  Callers,     (* goroutines running ManualGrab or fallbackGrab           *)
  Status       (* the one of them that falls back: the status loop        *)

ASSUME WorkersAssumption ==
  Workers = Loops \cup Callers /\ Loops \cap Callers = {} /\ Status \in Callers

VARIABLES
  pc,          (* [Workers -> PC]                                         *)
  target,      (* [Workers -> Items], the item the worker is busy with    *)
  pick,        (* [Workers -> Releases + NoRelease], the selected release *)
  held,        (* [Workers -> SUBSET Items], the leases it took           *)
  todo,        (* [Workers -> SUBSET Episodes], pack episodes to lease    *)
  due,         (* [Workers -> SUBSET Items], targets still to process     *)
  known        (* [Workers -> SUBSET Items], wanted when due was read     *)

jobVars == <<pc, target, pick, held, todo, due, known>>

PC == {"idle",
       "leased",     (* loop: leased, nothing read yet                    *)
       "checked",    (* loop: the series was found inactive               *)
       "searching",  (* loop: moved to searching, candidates not evaluated *)
       "request",    (* caller: series was found inactive                 *)
       "acquire",    (* caller: wanted again, not leased yet              *)
       "pack",       (* leasing the other episodes the release covers     *)
       "lease",      (* loop: the next of them was read and is wanted     *)
       "record"}     (* torrent handed over, grab row not written yet     *)

(* The name in the lease row: all loops share one prefix, and so do all    *)
(* manual grabs; the leases on the rest of a pack have a suffix of their   *)
(* own.                                                                    *)
OwnerPrefix(p) ==
  IF p \in Loops THEN "engine" ELSE IF p = Status THEN "fallback" ELSE "manual"

SameOwner(p, q, i) ==
  q \in Workers /\ OwnerPrefix(p) = OwnerPrefix(q) /\ (i = target[p] <=> i = target[q])

(* Release deletes by that name, whoever's row it is by now.               *)
Deletes(p, i) == i \in held[p] /\ (lease[i] = p \/ SameOwner(p, lease[i], i))

(* Mutant: an early return before the release is deferred. *)
Released_Forgotten(p) == UNCHANGED lease

(* Worker p lets go of everything it holds.  A DELETE that fails leaves    *)
(* the row to nobody; whose name such a row bears is not kept, so a later  *)
(* release may or may not delete it.                                       *)
Released(p) ==
  \E gone \in SUBSET {i \in held[p] : Deletes(p, i) \/ lease[i] = Dead} :
    /\ "store" \in Faults \/ \A i \in held[p] : Deletes(p, i) => i \in gone
    /\ lease' = [i \in Items |-> IF i \in gone THEN Free
                                ELSE IF i \in held[p] /\ lease[i] = p THEN Dead ELSE lease[i]]

(* The worker is done with its target; its deferred releases have run.     *)
Finish(p) ==
  /\ pc' = [pc EXCEPT ![p] = "idle"]
  /\ Released(p)
  /\ held' = [held EXCEPT ![p] = {}]
  /\ todo' = [todo EXCEPT ![p] = {}]
  /\ pick' = [pick EXCEPT ![p] = NoRelease]
  /\ target' = [target EXCEPT ![p] = AnyItem]
  /\ known' = [known EXCEPT ![p] = IF due[p] = {} THEN {} ELSE @]
  /\ UNCHANGED due

Goto(p, next) == pc' = [pc EXCEPT ![p] = next]

(* Bound: each busy worker may still insert a row, and so may this one.    *)
GrabsLeft ==
  grabs + Cardinality({p \in Workers : pc[p] \notin {"idle", "leased"}}) < MaxGrabs

(* Only a loop gives an item up, once its search period is over.           *)
GivesUp(p) == IF p \in Loops THEN BOOLEAN ELSE {FALSE}

(* Mutant: the item is left searching. *)
Reschedule_Dropped(p) ==
  Finish(p) /\ UNCHANGED <<itemVars, banned, grab, grabs>>

(* retrySearch, holdForSpace and the retries of grabStoredRelease; an item *)
(* that is not searching any more stays as it is.                          *)
Reschedule(p) ==
  /\ \/ /\ state[target[p]] = "searching"
        /\ \E terminal \in GivesUp(p) :
             state' = [state EXCEPT ![target[p]] = RescheduleTo(target[p], terminal)]
     \/ state[target[p]] # "searching" /\ UNCHANGED state
  /\ Finish(p)
  /\ UNCHANGED <<filed, chosen, banned, grab, grabs>>

(* The other episodes of the series the release covers, if it is a series. *)
PackEpisodes(i, r) ==
  {e \in Covers[r] \cap Episodes : i \in Episodes /\ e # i /\ SeriesOf[e] = SeriesOf[i]}

-------------------------------------------------------------------------------
(* The loops.                                                              *)

(* dueTargets: any non-empty part of the wanted items may be due.  Once    *)
(* the bound on grabs is met the loops rest.                               *)
SearchBegin(p) ==
  /\ pc[p] = "idle" /\ due[p] = {} /\ GrabsLeft
  /\ \E D \in SUBSET {i \in Items : state[i] = "wanted"} :
       /\ D # {}
       /\ due' = [due EXCEPT ![p] = D]
  /\ known' = [known EXCEPT ![p] = {i \in Items : state[i] = "wanted"}]
  /\ UNCHANGED <<storeVars, torrent, pc, target, pick, held, todo>>

(* Acquire fails: the target is left for another run.                      *)
SearchBusy(p, i) ==
  /\ pc[p] = "idle" /\ i \in due[p]
  /\ lease[i] # Free \/ StoreStops
  /\ due' = [due EXCEPT ![p] = @ \ {i}]
  /\ known' = [known EXCEPT ![p] = IF due[p] = {i} THEN {} ELSE @]
  /\ UNCHANGED <<storeVars, torrent, pc, target, pick, held, todo>>

SearchLease(p, i) ==
  /\ pc[p] = "idle" /\ i \in due[p]
  /\ lease[i] = Free
  /\ lease' = [lease EXCEPT ![i] = p]
  /\ held' = [held EXCEPT ![p] = {i}]
  /\ target' = [target EXCEPT ![p] = i]
  /\ due' = [due EXCEPT ![p] = @ \ {i}]
  /\ Goto(p, "leased")
  /\ UNCHANGED <<itemVars, banned, candVars, grabVars, torrent, pick, todo, known>>

(* What processSearchTarget reads under the lease before it moves an item. *)
Searchable(i) ==
  i \in Episodes => ~SeriesHasActive(i) /\ state[i] = "wanted"

SearchCheck(p) ==
  /\ pc[p] = "leased" /\ GrabsLeft
  /\ Searchable(target[p])
  /\ Goto(p, "checked")
  /\ UNCHANGED <<storeVars, torrent, target, pick, held, todo, due, known>>

(* The series is active, the episode moved on, a read fails; or the bound  *)
(* on grabs is met.                                                        *)
SearchSkip(p) ==
  /\ pc[p] = "leased"
  /\ ~Searchable(target[p]) \/ StoreStops \/ ~GrabsLeft
  /\ Finish(p)
  /\ UNCHANGED <<itemVars, banned, candVars, grabVars, torrent>>

SearchStart(p) ==
  /\ pc[p] = "checked"
  /\ CanTransitionTo(state[target[p]], "searching")
  /\ Transition(target[p], "searching")
  /\ Goto(p, "searching")
  /\ UNCHANGED <<filed, chosen, lease, banned, candVars, grabVars, torrent,
                 target, pick, held, todo, due, known>>

(* A movie that moved on since dueTargets, or a failed transaction.        *)
SearchNotStarted(p) ==
  /\ pc[p] = "checked"
  /\ ~CanTransitionTo(state[target[p]], "searching") \/ StoreStops
  /\ Finish(p)
  /\ UNCHANGED <<itemVars, banned, candVars, grabVars, torrent>>

(* Scoring accepts some releases for the item; the best of them is picked. *)
Matching(i) == {r \in Releases : i \in Covers[r]} \ banned[i]

SearchEvaluate(p) ==
  LET i == target[p] IN
  /\ pc[p] = "searching"
  /\ \E r \in Matching(i) :
       /\ pick' = [pick EXCEPT ![p] = r]
       /\ todo' = [todo EXCEPT ![p] = PackEpisodes(i, r) \cap known[p]]
  /\ accepted' = [accepted EXCEPT ![i] = Matching(i)]
  /\ evaluated' = [evaluated EXCEPT ![i] = grabs]
  /\ Goto(p, "pack")
  /\ UNCHANGED <<itemVars, lease, banned, grabVars, torrent, target, held, due, known>>

(* no_acceptable_release                                                   *)
SearchNoRelease(p) ==
  /\ pc[p] = "searching"
  /\ accepted' = [accepted EXCEPT ![target[p]] = {}]
  /\ evaluated' = [evaluated EXCEPT ![target[p]] = grabs]
  /\ Reschedule(p)
  /\ UNCHANGED torrent

(* decision_error, candidate_store_error and release_lookup_error          *)
SearchStoreError(p) ==
  /\ pc[p] = "searching" /\ "store" \in Faults
  /\ Reschedule(p)
  /\ UNCHANGED <<candVars, torrent>>

-------------------------------------------------------------------------------
(* The stored-release grab.                                                *)

(* The series rule is read before anything is leased.  Nothing asks        *)
(* whether the release is one of the item.                                 *)
GrabCheck(p, i, r) ==
  /\ pc[p] = "idle" /\ GrabsLeft
  /\ i \in Episodes => ~SeriesHasActive(i)
  /\ target' = [target EXCEPT ![p] = i]
  /\ pick' = [pick EXCEPT ![p] = r]
  /\ Goto(p, "request")
  /\ UNCHANGED <<storeVars, torrent, held, todo, due, known>>

GrabRequest(p) ==
  /\ pc[p] = "request"
  /\ CanRequestSearch(target[p])
  /\ Transition(target[p], "wanted")
  /\ Goto(p, "acquire")
  /\ UNCHANGED <<filed, chosen, lease, banned, candVars, grabVars, torrent,
                 target, pick, held, todo, due, known>>

GrabStart(p) ==
  LET i == target[p] IN
  /\ pc[p] = "acquire"
  /\ CanTransition(i, "searching")
  /\ Transition(i, "searching")
  /\ lease' = [lease EXCEPT ![i] = p]
  /\ held' = [held EXCEPT ![p] = {i}]
  /\ todo' = [todo EXCEPT ![p] = {e \in PackEpisodes(i, pick[p]) : state[e] = "wanted"}]
  /\ Goto(p, "pack")
  /\ UNCHANGED <<filed, chosen, banned, candVars, grabVars, torrent,
                 target, pick, due, known>>

(* Busy, leased by another, moved on, or a failed transaction: the caller  *)
(* gets an error and the item stays as it is.                              *)
GrabRefused(p) ==
  /\ \/ pc[p] = "request" /\ ~CanRequestSearch(target[p])
     \/ pc[p] = "acquire" /\ ~CanTransition(target[p], "searching")
     \/ pc[p] \in {"request", "acquire"} /\ StoreStops
  /\ Finish(p)
  /\ UNCHANGED <<itemVars, banned, candVars, grabVars, torrent>>

-------------------------------------------------------------------------------
(* Both: pack leases, the hand-off, the row.                               *)

(* A loop reads each episode again before it leases it and skips one that  *)
(* moved on; a stored-release grab goes by the list it read.               *)
PackRead(p, e) ==
  /\ p \in Loops
  /\ pc[p] = "pack" /\ First(e, todo[p])
  /\ \/ state[e] = "wanted" /\ Goto(p, "lease") /\ UNCHANGED todo
     \/ state[e] # "wanted" /\ todo' = [todo EXCEPT ![p] = @ \ {e}] /\ UNCHANGED pc
  /\ UNCHANGED <<storeVars, torrent, target, pick, held, due, known>>

Leasing(p) == pc[p] = IF p \in Loops THEN "lease" ELSE "pack"

PackLock(p, e) ==
  /\ Leasing(p) /\ First(e, todo[p])
  /\ lease[e] = Free
  /\ lease' = [lease EXCEPT ![e] = p]
  /\ held' = [held EXCEPT ![p] = @ \cup {e}]
  /\ todo' = [todo EXCEPT ![p] = @ \ {e}]
  /\ Goto(p, "pack")
  /\ UNCHANGED <<itemVars, banned, candVars, grabVars, torrent, target, pick, due, known>>

(* pack_coordination_busy and pack_coordination_error                      *)
PackBusy(p, e) ==
  /\ pc[p] \in {"pack", "lease"} /\ First(e, todo[p])
  /\ (Leasing(p) /\ lease[e] # Free) \/ "store" \in Faults
  /\ Reschedule(p)
  /\ UNCHANGED <<candVars, torrent>>

(* The client takes the torrent; adding one it has already changes nothing. *)
ClientTakes(r) ==
  torrent' = IF Present(r) THEN torrent ELSE [torrent EXCEPT ![r] = "downloading"]

AddDownload(p) ==
  /\ pc[p] = "pack" /\ todo[p] = {}
  /\ ClientTakes(pick[p])
  /\ Goto(p, "record")
  /\ UNCHANGED <<storeVars, target, pick, held, todo, due, known>>

(* No space on a volume, a torrent link that cannot be fetched, a client   *)
(* that answers "Fails." to a torrent it already has, or one that cannot   *)
(* be reached: it may have taken the torrent all the same.                 *)
AddRefused(p) ==
  /\ pc[p] = "pack" /\ todo[p] = {}
  /\ \/ Faults \cap {"space", "client"} # {} /\ UNCHANGED torrent
     \/ Present(pick[p]) /\ UNCHANGED torrent
     \/ "client" \in Faults /\ ClientTakes(pick[p])
  /\ Reschedule(p)
  /\ UNCHANGED candVars

(* The search cannot be rescheduled either: the transaction fails, or the  *)
(* context it would run in is the one whose end stopped the search.        *)
SearchAbandoned(p) ==
  /\ pc[p] \in {"searching", "pack", "lease"}
  /\ StoreStops
  /\ \/ UNCHANGED torrent
     \/ /\ pc[p] = "pack" /\ todo[p] = {} /\ Faults \cap {"client", "cancel"} # {}
        /\ ClientTakes(pick[p])
  /\ Finish(p)
  /\ UNCHANGED <<itemVars, banned, candVars, grabVars>>

(* CreateGrabbedFor commits.                                               *)
Record(p) ==
  LET i == target[p] IN
  /\ pc[p] = "record" /\ grabs < MaxGrabs
  /\ CanCreateGrabbed(i, held[p] \ {i})
  /\ CreateGrabbed(i, held[p] \ {i}, pick[p])
  /\ Finish(p)
  /\ UNCHANGED <<filed, banned, candVars, torrent>>

(* Mutant: the torrent is not taken back. *)
RecordFails_Kept(p) ==
  LET i == target[p] IN
  /\ pc[p] = "record"
  /\ ~CanCreateGrabbed(i, held[p] \ {i})
  /\ Finish(p)
  /\ UNCHANGED <<itemVars, banned, candVars, grabVars, torrent>>

(* CreateGrabbedFor fails: the torrent is taken back, best effort.  The    *)
(* item is left as it is.                                                  *)
RecordFails(p) ==
  LET i == target[p] IN
  /\ pc[p] = "record"
  /\ ~CanCreateGrabbed(i, held[p] \ {i}) \/ StoreStops
  /\ \/ RemoveTorrent(pick[p])
     \/ "client" \in Faults /\ UNCHANGED torrent
  /\ Finish(p)
  /\ UNCHANGED <<itemVars, banned, candVars, grabVars>>

-------------------------------------------------------------------------------
AcquisitionInit ==
  /\ pc = [p \in Workers |-> "idle"]
  /\ target = [p \in Workers |-> AnyItem]
  /\ pick = [p \in Workers |-> NoRelease]
  /\ held = [p \in Workers |-> {}]
  /\ todo = [p \in Workers |-> {}]
  /\ due = [p \in Workers |-> {}]
  /\ known = [p \in Workers |-> {}]

LoopNext(p) ==
  \/ SearchBegin(p)
  \/ \E i \in Items : SearchBusy(p, i) \/ SearchLease(p, i)
  \/ SearchCheck(p) \/ SearchSkip(p)
  \/ SearchStart(p) \/ SearchNotStarted(p)
  \/ SearchEvaluate(p) \/ SearchNoRelease(p) \/ SearchStoreError(p)

GrabNext(p) == GrabRequest(p) \/ GrabStart(p) \/ GrabRefused(p)

HandOff(p) ==
  \/ \E e \in Episodes : PackRead(p, e) \/ PackLock(p, e) \/ PackBusy(p, e)
  \/ AddDownload(p) \/ AddRefused(p) \/ SearchAbandoned(p)
  \/ Record(p) \/ RecordFails(p)

AcquisitionTypeOK ==
  /\ pc \in [Workers -> PC]
  /\ target \in [Workers -> Items]
  /\ pick \in [Workers -> Releases \cup {NoRelease}]
  /\ \A p \in Workers : pc[p] \in {"request", "acquire", "pack", "lease", "record"} =>
       pick[p] \in Releases
  /\ held \in [Workers -> SUBSET Items]
  /\ todo \in [Workers -> SUBSET Episodes]
  /\ due \in [Workers -> SUBSET Items]
  /\ known \in [Workers -> SUBSET Items]
===============================================================================
