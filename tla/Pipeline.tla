------------------------------- MODULE Pipeline -------------------------------
(***************************************************************************)
(* The acquisition pipeline as it runs: the search and recent loops, the   *)
(* status loop, the API handlers, the download client and the process that *)
(* may die, over one database.                                             *)
(***************************************************************************)
EXTENDS QueueApi

CONSTANTS
  TorrentMoves,   (* <<from, to>>: what the client may do to a torrent     *)
  MaxCrashes      (* bound: crashes                                        *)

ASSUME PipelineAssumption ==
  /\ TorrentMoves \subseteq (TorrentState \ {"absent"}) \X TorrentState
  /\ MaxCrashes \in Nat

VARIABLES
  crashes,   (* crashes so far                                             *)
  overrun    (* history: items whose lease ran out under a live holder     *)

envVars == <<crashes, overrun>>

vars == <<storeVars, torrent, jobVars, statusVars, deleteVars, envVars>>

(* A torrent queues, transfers, completes, errs, is deleted in the client, *)
(* or loses its category there.                                            *)
TransferStep(r) ==
  \E move \in TorrentMoves :
    /\ torrent[r] = move[1]
    /\ torrent' = [torrent EXCEPT ![r] = move[2]]

TorrentMove(r) ==
  /\ TransferStep(r)
  /\ UNCHANGED <<storeVars, jobVars, statusVars, deleteVars, envVars>>

(* The process dies and starts again: the goroutines start over, their     *)
(* leases stay in the table until they expire.                             *)
Crash ==
  /\ "crash" \in Faults /\ crashes < MaxCrashes
  /\ crashes' = crashes + 1
  /\ pc' = [p \in Workers |-> "idle"]
  /\ target' = [p \in Workers |-> AnyItem]
  /\ pick' = [p \in Workers |-> NoRelease]
  /\ held' = [p \in Workers |-> {}]
  /\ todo' = [p \in Workers |-> {}]
  /\ due' = [p \in Workers |-> {}]
  /\ known' = [p \in Workers |-> {}]
  /\ spc' = "idle" /\ snap' = {} /\ items' = {} /\ fresh' = {} /\ left' = {} /\ cur' = 1
  /\ rows' = [g \in GrabIds |-> UnusedRow]
  /\ seen' = [r \in Releases |-> "absent"]
  /\ grabbedAs' = [i \in Items |-> NoRelease]
  /\ dpc' = "idle" /\ dgrab' = 1 /\ drow' = UnusedRow /\ dcov' = {}
  /\ lease' = [i \in Items |-> IF lease[i] = Free THEN Free ELSE Dead]
  /\ UNCHANGED <<itemVars, banned, candVars, grabVars, torrent, overrun>>

(* Acquire deletes a lease past its time before it takes its own, whether  *)
(* or not its holder still works under it: so it is as if it were gone.    *)
LeaseExpires(i) ==
  /\ lease[i] # Free
  /\ \/ lease[i] = Dead /\ UNCHANGED overrun
     \/ "slow" \in Faults /\ lease[i] \in Workers /\ overrun' = overrun \cup {i}
  /\ lease' = [lease EXCEPT ![i] = Free]
  /\ UNCHANGED <<itemVars, banned, candVars, grabVars, torrent,
                 jobVars, statusVars, deleteVars, crashes>>

(* A transition that took a lease of its own cannot delete it again.       *)
RowStays(i) ==
  /\ "store" \in Faults /\ lease[i] = Free
  /\ lease' = [lease EXCEPT ![i] = Dead]
  /\ UNCHANGED <<itemVars, banned, candVars, grabVars, torrent,
                 jobVars, statusVars, deleteVars, envVars>>

-------------------------------------------------------------------------------
LoopStep(p) ==
  /\ LoopNext(p) \/ HandOff(p)
  /\ UNCHANGED <<statusVars, deleteVars, envVars>>

CallerStep(p) ==
  /\ GrabNext(p) \/ HandOff(p)
  /\ UNCHANGED <<statusVars, deleteVars, envVars>>

StatusStep == StatusNext /\ UNCHANGED <<deleteVars, envVars>>

ApiStep == QueueNext /\ UNCHANGED envVars

Init ==
  /\ StoreInit /\ AcquisitionInit /\ StatusInit /\ QueueInit
  /\ crashes = 0 /\ overrun = {}

Next ==
  \/ \E p \in Loops : LoopStep(p)
  \/ \E p \in Callers : CallerStep(p)
  \/ StatusStep
  \/ ApiStep
  \/ \E r \in Releases : TorrentMove(r)
  \/ Crash
  \/ \E i \in Items : LeaseExpires(i) \/ RowStays(i)

Spec == Init /\ [][Next]_vars

-------------------------------------------------------------------------------
(* Every state variable holds a value of its type.                         *)
TypeOK ==
  /\ StoreTypeOK /\ AcquisitionTypeOK /\ StatusTypeOK /\ QueueTypeOK
  /\ crashes \in 0 .. MaxCrashes
  /\ overrun \in SUBSET Items

(* Items only ever move the way the lifecycle allows, whoever moves them   *)
(* and however stale what he read: model.go's edges, the reservation of a  *)
(* pack in CreateGrabbedFor, the fallback of rescheduleSearch to the file  *)
(* an upgrade search was to replace, imported only with a path.            *)
L == INSTANCE Lifecycle WITH Items <- Items, state <- state, filed <- filed
LifecycleSpec == L!Spec

(* Between the transition to searching and the row of its grab, an item is *)
(* leased by the worker that searches for it and stays in searching, even  *)
(* while that worker talks to indexers and to the download client: for as  *)
(* long as no holder has outlasted a lease on it.                          *)
SearchOwnsItem ==
  \A p \in Workers :
    pc[p] \in {"searching", "pack", "lease", "record"} /\ target[p] \notin overrun =>
      state[target[p]] = "searching" /\ lease[target[p]] = p

(* No lease of a live process is forgotten: whoever is named in the lease  *)
(* table still holds it and will try to release it, whichever way he       *)
(* leaves.  A row that stays all the same (a DELETE failed, a process      *)
(* died) is nobody's, and only waits to expire.                            *)
LeasesAccounted ==
  \A i \in Items :
    /\ lease[i] \in Workers =>
         \/ i \in held[lease[i]]
         \/ lease[i] = Status /\ spc = "filing" /\ row.subject = i
    /\ lease[i] = Dead => "store" \in Faults \/ crashes > 0

(* Why both hold, in one inductive invariant: who holds what, when.  The   *)
(* importer's lease on a movie is the one lease no worker counts as held.  *)
HeldIsLeased == \A p \in Workers : \A i \in held[p] : lease[i] = p \/ i \in overrun

BusyHoldsTarget ==
  \A p \in Workers :
    /\ pc[p] \in {"leased", "checked", "searching", "pack", "lease", "record"} =>
         target[p] \in held[p]
    /\ pc[p] \in {"searching", "pack", "lease", "record"} /\ target[p] \notin overrun =>
         state[target[p]] = "searching"
    /\ pc[p] \in {"idle", "request", "acquire"} => held[p] = {}

ImportLease ==
  /\ spc # "grabbing" => pc[Status] = "idle"
  /\ spc = "filing" /\ MovieImport =>
       /\ left \subseteq {row.subject}
       /\ left # {} => lease[row.subject] = Status \/ row.subject \in overrun

LeaseNamesHolder ==
  \A i \in Items :
    lease[i] \in Workers =>
      \/ i \in held[lease[i]]
      \/ lease[i] = Status /\ spc = "filing" /\ MovieImport /\ i = row.subject /\ i \in left

RowsOfNobody == \A i \in Items : lease[i] = Dead => "store" \in Faults \/ crashes > 0

LeaseInv ==
  HeldIsLeased /\ BusyHoldsTarget /\ ImportLease /\ LeaseNamesHolder /\ RowsOfNobody

(* An item that waits for a download is reserved by a live grab of it, or  *)
(* failGrab, the importer's error path or a queue removal is about to move *)
(* it on.  One that is not blocks its whole series (SeriesHasActive), and  *)
(* no loop looks at it.                                                    *)
Serves(g, i) ==
  IF i \in Movies THEN grab[g].subject = i
  ELSE grab[g].subject \in Episodes /\ grab[g].release = chosen[i]

BeingSettled(i) ==
  \/ spc = "failing" /\ items = {} /\ i \in left
  \/ spc = "rejecting" /\ i \in left
  \/ dpc = "retry" /\ i \in dcov

Orphaned(i) ==
  Active(i) /\ ~BeingSettled(i) /\ \A g \in ActiveGrabs : ~Serves(g, i)

NoOrphanedItem == \A i \in Items : ~Orphaned(i)

(* Left to itself the code orphans items in one way only: the status loop  *)
(* finds an item of the grab it closes leased, or too far to return, and   *)
(* leaves it, and with failGrab those after it, as they are.  No search,   *)
(* hand-off, import or late write costs an item the grab it waits for.     *)
LeftBehind(i) ==
  /\ i \in left
  /\ \/ spc = "failing" /\ \E j \in left : First(j, left) /\ ~CanRetryNow(j)
     \/ spc = "rejecting" /\ lease[i] # Free

ReservationKept == [][\A i \in Items : Orphaned(i)' => Orphaned(i) \/ LeftBehind(i)]_vars

(* Where it holds: no transaction fails, no shutdown and no crash comes    *)
(* between closing a grab and returning its items, and no operator closes  *)
(* a grab behind the status loop's back.  Each of these orphans items.     *)
UndisturbedQueue ==
  Faults \cap {"store", "cancel", "crash"} = {} /\ "delete" \notin Requests

(* Why: a hand-off covers items of one kind, so its row serves them all;   *)
(* what the status loop works on is in the queue; of the items a grab      *)
(* serves, it forgets none that no other grab serves as well; and whatever *)
(* it passes has moved on.                                                 *)
OfOneKind ==
  \A p \in Workers :
    /\ target[p] \in Movies =>
         held[p] \subseteq {target[p]} /\ (pc[p] \in {"pack", "lease"} => todo[p] = {})
    /\ target[p] \in Episodes => held[p] \subseteq Episodes

CopiesAreLive ==
  /\ snap \subseteq ActiveGrabs
  /\ spc \notin {"idle", "polling", "visiting"} => cur \notin snap
  /\ spc \in {"advancing", "completing", "importing", "filing"} \/ (spc = "failing" /\ items # {}) =>
       cur \in ActiveGrabs

ServedElse(i) == \E g \in ActiveGrabs \ {cur} : Serves(g, i)

NoneForgotten ==
  /\ spc \in {"completing", "importing", "filing"} =>
       \A i \in Items : Active(i) /\ Serves(cur, i) => i \in items \/ ServedElse(i)
  /\ spc = "filing" =>
       \A i \in Items : Active(i) /\ Serves(cur, i) => i \in left \/ ServedElse(i)

OnTheirWay ==
  /\ spc = "completing" =>
       /\ left \subseteq items /\ \A i \in items \ left : state[i] = "importing"
       /\ row.subject \in Movies => items = {row.subject}
       /\ row.subject \in Episodes => items \subseteq Episodes
  /\ spc \in {"importing", "filing"} =>
       \A i \in items : state[i] \in {"grabbed", "downloading"} => ServedElse(i)
  /\ spc = "rejecting" =>
       \A i \in left : state[i] \in {"grabbed", "downloading"} => ServedElse(i)

MoviesLandOnce ==
  /\ \A i \in Movies, g \in ActiveGrabs :
       state[i] = "importing" /\ grab[g].subject = i =>
         spc \in {"completing", "importing", "filing"} /\ cur = g
  /\ spc = "failing" /\ items = {} => \A i \in left \cap Movies : state[i] # "importing"

KeepInv == OfOneKind /\ CopiesAreLive /\ NoneForgotten /\ OnTheirWay /\ MoviesLandOnce

(* A torrent Reelay owns is known to it: a grab row that is not stalled or *)
(* removed names it, or a worker is about to record it or take it back.    *)
OwnedTorrentTracked ==
  \A r \in Releases :
    Owned(r) =>
      \/ \E g \in 1 .. grabs : grab[g].release = r /\ grab[g].st \notin {"stalled", "removed"}
      \/ \E p \in Workers : pc[p] = "record" /\ pick[p] = r

(* Why: rows are worked on in copies that name the same torrent, and a row *)
(* somebody is about to close has lost its torrent, so what the client     *)
(* holds now has another row, or a worker who brought it back.             *)
Copies(w, g) ==
  g \in 1 .. grabs /\ w.release = grab[g].release /\ w.subject = grab[g].subject

CopiesName ==
  /\ \A g \in snap : Copies(rows[g], g) /\ rows[g].st \in ActiveGrab
  /\ spc \notin {"idle", "polling", "visiting"} => Copies(row, cur)
  /\ dpc # "idle" => Copies(drow, dgrab)

Doomed(g) ==
  \/ dpc = "mark" /\ dgrab = g
  \/ spc = "failing" /\ items # {} /\ cur = g

Tracks(g, r) ==
  grab[g].release = r /\ grab[g].st \notin {"stalled", "removed"} /\ ~Doomed(g)

Recording(r) == \E p \in Workers : pc[p] = "record" /\ pick[p] = r

TrackedInv ==
  \A r \in Releases : Owned(r) => Recording(r) \/ \E g \in 1 .. grabs : Tracks(g, r)

(* Where it holds: a call to the client that fails may have taken effect,  *)
(* a process may die between the torrent and its row, and the code has no  *)
(* remedy for a torrent that gets its category back.                       *)
SteadyClient ==
  /\ Faults \cap {"client", "cancel", "crash"} = {}
  /\ \A move \in TorrentMoves : move[1] = "foreign" => move[2] \in {"absent", "foreign"}

(* "The original grab plus this many fallbacks may fail" (fallback.go): of *)
(* the grabs a search result led to, no more have failed or may still      *)
(* fail, unless operators grab for themselves; not of an item on which a   *)
(* worker outlasted its lease, and another search came in between.         *)
MayFail == ActiveGrab \cup {"stalled", "failed"}

NewGrabs(i) == {g \in 1 .. grabs : grab[g].subject = i /\ g > evaluated[i]}

FallbackBounded ==
  \A i \in Items \ overrun :
    Cardinality({g \in NewGrabs(i) : grab[g].st \in MayFail}) <= MaxFallbacks + 1

(* Why: the unique index of migration 0003 keeps one live row per item.  A *)
(* row may come back from a copy the status loop holds, so it is spent     *)
(* until that copy is gone.  A search result whose item is being handed    *)
(* over has no grab yet; one that is being fallen back on has spent no     *)
(* more than the limit, or has got a live grab in the meantime.            *)
OneActiveGrabPerSubject ==
  \A g, h \in ActiveGrabs : grab[g].subject = grab[h].subject => g = h

InHand(g) ==
  \/ g \in snap
  \/ spc \in {"completing", "importing", "filing", "failing"} /\ g = cur

Spent(i) == {g \in NewGrabs(i) : grab[g].st \in MayFail \/ InHand(g)}

OneCopyEach ==
  /\ \A g, h \in snap : grab[g].subject = grab[h].subject => g = h
  /\ spc \notin {"idle", "polling", "visiting"} =>
       \A g \in snap : grab[g].subject # grab[cur].subject

FallbackIsOwn ==
  /\ \A p \in Callers \ {Status} : pc[p] = "idle"
  /\ pc[Status] # "idle" => target[Status] = grab[cur].subject

FreshSearch ==
  \A p \in Loops :
    pc[p] \in {"pack", "lease", "record"} /\ target[p] \notin overrun =>
      NewGrabs(target[p]) = {}

WithinLimit == \A i \in Items \ overrun : Cardinality(Spent(i)) <= MaxFallbacks + 1

RoomForOne ==
  pc[Status] # "idle" /\ target[Status] \notin overrun =>
    \/ Cardinality(Spent(target[Status])) <= MaxFallbacks
    \/ NewGrabs(target[Status]) \cap ActiveGrabs # {}

FallbackInv == OneCopyEach /\ FallbackIsOwn /\ FreshSearch /\ WithinLimit /\ RoomForOne

-------------------------------------------------------------------------------
(* Claims of the repository's documents that the code does not keep.       *)

(* README.md: Reelay starts at most one torrent for a series at a time.    *)
OneTorrentPerSeries ==
  \A g, h \in ActiveGrabs :
    /\ grab[g].subject \in Episodes /\ grab[h].subject \in Episodes
    /\ SeriesOf[grab[g].subject] = SeriesOf[grab[h].subject]
    => g = h

(* model.go: an item does not end up somewhere no loop handles.  Nothing   *)
(* but the worker that leased it ever moves an item out of searching.      *)
SearchingIsHandled == \A i \in Items : state[i] = "searching" => lease[i] # Free

(* architecture.md: loops use compare-and-update writes.  A grab that left *)
(* the queue does not come back.                                           *)
ClosedGrabsStayClosed ==
  [][\A g \in 1 .. grabs : grab[g].st \notin ActiveGrab => grab'[g].st \notin ActiveGrab]_vars

-------------------------------------------------------------------------------
(* Fairness.  Tickers fire for ever (engine.Run), a goroutine that has     *)
(* begun goes on, a queued torrent starts, one that transfers again and    *)
(* again ends, a row nobody will release expires, and a torrent that stays *)
(* missing is missed for a whole stall timeout: only a pause puts that off *)
(* (status.go:71-88).  Nobody has to send a request, and no fault has to   *)
(* happen.                                                                 *)
TransferStarts(r) == torrent[r] = "queued" /\ TorrentMove(r)
LeaseLapses(i) == lease[i] = Dead /\ LeaseExpires(i)
TransferEnds(r) == TorrentMove(r) /\ torrent'[r] \in {"complete", "error"}

MissingEnds(g) ==
  Missing(g) /\ (BeginFail(g) \/ BeginComplete(g)) /\ UNCHANGED <<deleteVars, envVars>>

Fairness ==
  /\ \A p \in Loops : WF_vars(LoopStep(p))
  /\ \A p \in Callers : WF_vars(CallerStep(p))
  /\ WF_vars(StatusStep)
  /\ \A r \in Releases : WF_vars(TransferStarts(r)) /\ SF_vars(TransferEnds(r))
  /\ \A g \in GrabIds : SF_vars(MissingEnds(g))
  /\ \A i \in Items : WF_vars(LeaseLapses(i))

FairSpec == Spec /\ Fairness

(* A search ends: the item is grabbed, back in wanted, or given up.        *)
SearchEnds == \A i \in Items : state[i] = "searching" ~> state[i] # "searching"

(* A reserved item does not wait for ever for its download: it leaves its  *)
(* reservation, or the grab it waits for has ended without it.  A live     *)
(* grab never lingers, whatever became of its torrent.                     *)
ReservationEnds == \A i \in Items : Active(i) ~> ~Active(i) \/ Orphaned(i)
===============================================================================
