------------------------------- MODULE QueueApi -------------------------------
(***************************************************************************)
(* What an operator does to the pipeline through the API                   *)
(* (api/operations.go): remove a grab from the queue, monitor, unmonitor   *)
(* or search an item, and pick a stored release.  A removal is a sequence  *)
(* of calls with nothing that holds the rows still in between; the other   *)
(* requests are one transaction each.                                      *)
(***************************************************************************)
EXTENDS StatusLoop

VARIABLES
  dpc,      (* where handleQueueDelete is; one request at a time          *)
  dgrab,    (* the grab it removes                                        *)
  drow,     (* its copy of that row                                       *)
  dcov      (* the items it has still to return to wanted                 *)

deleteVars == <<dpc, dgrab, drow, dcov>>

DPC == {"idle", "remove", "mark", "retry"}

(* The handler returns; whatever it did stays done.                        *)
Respond ==
  /\ dpc' = "idle" /\ dgrab' = 1 /\ drow' = UnusedRow /\ dcov' = {}

(* The row and the episodes it covers, whatever state the row is in.       *)
DeleteRead(g) ==
  /\ "delete" \in Requests
  /\ dpc = "idle" /\ g <= grabs
  /\ dpc' = "remove" /\ dgrab' = g /\ drow' = grab[g]
  /\ dcov' = CoveredNow(grab[g])
  /\ UNCHANGED <<storeVars, torrent, jobVars, statusVars>>

DeleteRemove ==
  /\ dpc = "remove" /\ torrent[drow.release] # "foreign"
  /\ RemoveTorrent(drow.release)
  /\ dpc' = "mark"
  /\ UNCHANGED <<storeVars, jobVars, statusVars, dgrab, drow, dcov>>

(* Blacklisting is optional and best effort; then the copy is written back *)
(* as removed.                                                             *)
DeleteMark ==
  /\ dpc = "mark"
  /\ \/ banned' = [i \in Items |-> banned[i] \cup IF i \in dcov THEN {drow.release} ELSE {}]
     \/ UNCHANGED banned
  /\ UpdateGrab(dgrab, [drow EXCEPT !.st = "removed"])
  /\ dpc' = "retry"
  /\ UNCHANGED <<itemVars, lease, candVars, grabs, torrent, jobVars, statusVars,
                 dgrab, drow, dcov>>

DeleteRetry(i) ==
  /\ dpc = "retry" /\ First(i, dcov) /\ CanRetryNow(i)
  /\ Transition(i, "wanted")
  /\ dcov' = dcov \ {i}
  /\ UNCHANGED <<filed, chosen, lease, banned, candVars, grabVars, torrent,
                 jobVars, statusVars, dpc, dgrab, drow>>

DeleteDone ==
  /\ dpc = "retry" /\ dcov = {}
  /\ Respond
  /\ UNCHANGED <<storeVars, torrent, jobVars, statusVars>>

(* A torrent that is not ours, a client that is down, a failed transaction, *)
(* a client that hung up, an item that is leased or past returning.        *)
DeleteFails ==
  /\ dpc # "idle"
  /\ \/ dpc = "remove" /\ (torrent[drow.release] = "foreign" \/ "client" \in Faults)
     \/ StoreStops
     \/ dpc = "retry" /\ \E i \in dcov : First(i, dcov) /\ ~CanRetryNow(i)
  /\ Respond
  /\ UNCHANGED <<storeVars, torrent, jobVars, statusVars>>

(* Mutant: the state is written without a lease. *)
Unmonitor_NoLease(e) ==
  /\ "unmonitor" \in Requests
  /\ state[e] # "unmonitored" /\ CanTransitionTo(state[e], "unmonitored")
  /\ Transition(e, "unmonitored")
  /\ UNCHANGED <<filed, chosen, lease, banned, candVars, grabVars, torrent,
                 jobVars, statusVars, deleteVars>>

Unmonitor(e) ==
  /\ "unmonitor" \in Requests
  /\ state[e] # "unmonitored" /\ CanTransition(e, "unmonitored")
  /\ Transition(e, "unmonitored")
  /\ UNCHANGED <<filed, chosen, lease, banned, candVars, grabVars, torrent,
                 jobVars, statusVars, deleteVars>>

(* Monitor an episode, or search an item now; wanted items stay wanted.    *)
RequestSearch(i) ==
  /\ "search" \in Requests
  /\ state[i] # "wanted" /\ CanRequestSearch(i)
  /\ Transition(i, "wanted")
  /\ UNCHANGED <<filed, chosen, lease, banned, candVars, grabVars, torrent,
                 jobVars, statusVars, deleteVars>>

ManualGrab(p, i, r) ==
  /\ "grab" \in Requests
  /\ p # Status
  /\ GrabCheck(p, i, r)
  /\ UNCHANGED <<statusVars, deleteVars>>

QueueInit == dpc = "idle" /\ dgrab = 1 /\ drow = UnusedRow /\ dcov = {}

QueueNext ==
  \/ \E g \in GrabIds : DeleteRead(g)
  \/ DeleteRemove \/ DeleteMark \/ DeleteDone \/ DeleteFails
  \/ \E i \in Items : DeleteRetry(i) \/ RequestSearch(i)
  \/ \E e \in Episodes : Unmonitor(e)
  \/ \E p \in Callers, i \in Items, r \in Releases : ManualGrab(p, i, r)

QueueTypeOK ==
  /\ dpc \in DPC
  /\ dgrab \in GrabIds
  /\ drow \in GrabRow
  /\ dcov \in SUBSET Items
===============================================================================
