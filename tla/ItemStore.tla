------------------------------- MODULE ItemStore -------------------------------
(***************************************************************************)
(* The tables of the SQLite database the acquisition pipeline shares, the  *)
(* transactions on them, and the torrents in the download client.          *)
(*                                                                         *)
(* Every write goes through one writer connection inside BEGIN IMMEDIATE,  *)
(* so a transaction is one step.  Nothing else orders the goroutines that  *)
(* issue them: what they read in one step may be stale in the next.        *)
(*                                                                         *)
(* Time is abstracted: a backoff, a stall timeout or a give-up period has  *)
(* elapsed or has not, whichever the next step needs.                      *)
(***************************************************************************)
EXTENDS ItemStates, Naturals

CONSTANTS
  Episodes,      (* items that belong to a series                       *)
  Movies,        (* items that do not                                   *)
  SeriesOf,      (* [Episodes -> series]                                *)
  Rank,          (* [Episodes -> Nat], ascending row id, as they aired  *)
  Releases,      (* stored releases; one torrent (info hash) each       *)
  Covers,        (* [Releases -> SUBSET items], what the parsed title   *)
                 (* of a release covers                                 *)
  Workers,       (* the goroutines that take item leases                *)
  NoRelease,     (* chosen_release_id is NULL                           *)
  Free, Dead,    (* no lease row that counts; one nobody will release:  *)
                 (* its process died or its DELETE failed               *)
  Faults,        (* which failures the environment may produce          *)
  Requests,      (* the kinds of request operators send                 *)
  Library,       (* items that already have a file when the run starts  *)
  StartStates,   (* the states items may start in                       *)
  MaxGrabs       (* bound: rows in grabs                                *)

Items == Episodes \cup Movies

(* A call to the download client fails or times out; a transaction fails;  *)
(* a file cannot be linked; a volume is full; the context of the work is   *)
(* cancelled (an API client hangs up, the process shuts down); the process *)
(* dies; work takes longer than the lease it runs under, which nobody ever *)
(* renews.                                                                 *)
FaultKinds == {"client", "store", "files", "space", "cancel", "crash", "slow"}

(* Remove a grab, unmonitor or search an item, pick a stored release, pause *)
(* the downloads.                                                          *)
RequestKinds == {"delete", "unmonitor", "search", "grab", "pause"}

(* A transaction may fail, or the context it runs in may have ended.       *)
StoreStops == Faults \cap {"store", "cancel"} # {}

ASSUME StoreAssumption ==
  /\ Episodes \cap Movies = {} /\ Items # {}
  /\ Rank \in [Episodes -> Nat]
  /\ \A e, f \in Episodes : Rank[e] = Rank[f] => e = f
  /\ Covers \in [Releases -> SUBSET Items]
  /\ \A r \in Releases : \A m \in Movies : m \in Covers[r] => Covers[r] = {m}
  /\ Releases # {} /\ NoRelease \notin Releases
  /\ Free \notin Workers /\ Dead \notin Workers /\ Free # Dead
  /\ Faults \subseteq FaultKinds /\ Requests \subseteq RequestKinds
  /\ Library \subseteq Items
  /\ StartStates \subseteq {"wanted", "unmonitored"}
  /\ MaxGrabs \in Nat \ {0}

VARIABLES
  state,      (* [Items -> ItemState]                                     *)
  filed,      (* [Items -> BOOLEAN], imported_path is not empty           *)
  chosen,     (* [Items -> Releases + NoRelease], chosen_release_id       *)
  lease,      (* [Items -> Workers + Free + Dead], item_locks             *)
  banned,     (* [Items -> SUBSET Releases], blacklist                    *)
  accepted,   (* [Items -> SUBSET Releases], accepted candidates          *)
  evaluated,  (* [Items -> 0 .. MaxGrabs], grabs older than accepted[i]   *)
  grab,       (* [1 .. MaxGrabs -> GrabRow], rows above grabs are unused  *)
  grabs,      (* number of rows inserted so far                           *)
  torrent     (* [Releases -> TorrentState], what the client holds        *)

itemVars  == <<state, filed, chosen>>
grabVars  == <<grab, grabs>>
candVars  == <<accepted, evaluated>>
storeVars == <<state, filed, chosen, lease, banned, accepted, evaluated, grab, grabs>>

GrabIds == 1 .. MaxGrabs
GrabRow == [st : GrabState, subject : Items, release : Releases]

(* What a row that is not inserted yet holds: no step looks at it.          *)
AnyItem == CHOOSE i \in Items : TRUE
AnyRelease == CHOOSE r \in Releases : TRUE
UnusedRow == [st |-> "removed", subject |-> AnyItem, release |-> AnyRelease]

(* "foreign": the torrent lost its Reelay category, so the client refuses  *)
(* to touch it and status polls do not list it.                            *)
TorrentState == {"absent", "queued", "downloading", "complete", "error", "foreign"}

-------------------------------------------------------------------------------
(* Reads.                                                                  *)

Active(i) == state[i] \in ActiveState

SeriesHasActive(e) == \E f \in Episodes : SeriesOf[f] = SeriesOf[e] /\ Active(f)

ActiveByRelease(r) == {e \in Episodes : chosen[e] = r /\ Active(e)}

ActiveGrabs == {g \in 1 .. grabs : grab[g].st \in ActiveGrab}

HasActiveGrab(i) == \E g \in ActiveGrabs : grab[g].subject = i

(* Rows are worked through in id order; a movie is alone in its set.       *)
First(i, S) == i \in S /\ \A j \in S \ {i} : Rank[i] <= Rank[j]

(* The partial unique index over (subject_type, subject_id).               *)
IndexAllows(g, row) ==
  row.st \in ActiveGrab =>
    \A h \in ActiveGrabs \ {g} : grab[h].subject # row.subject

-------------------------------------------------------------------------------
(* Transactions.  Each is the conjunct that describes the tables it writes. *)

(* A transition that takes a lease of its own for one transaction: taken,  *)
(* used and released in one step.                                          *)
CanTransition(i, to) == lease[i] = Free /\ CanTransitionTo(state[i], to)

Transition(i, to) == state' = [state EXCEPT ![i] = to]

(* RetryNow (queue removal, failed grabs) and the stricter RequestSearchNow *)
(* (user-facing searches), which leaves busy items alone.                   *)
CanRetryNow(i) == CanTransition(i, "wanted")

CanRequestSearch(i) ==
  /\ CanTransition(i, "wanted")
  /\ state[i] # "searching"
  /\ ~Active(i)

(* Grabs().Update: the whole row by id, whatever the row is by now.         *)
CanUpdateGrab(g, row) == IndexAllows(g, row)

UpdateGrab(g, row) == grab' = [grab EXCEPT ![g] = row]

(* Mutant: only the searched item is read again. *)
CanCreateGrabbed_Primary(i, others) == state[i] = "searching" /\ ~HasActiveGrab(i)

(* CreateGrabbedFor: one row, and every covered item, in one transaction.   *)
CanCreateGrabbed(i, others) ==
  /\ state[i] = "searching"
  /\ \A o \in others : state[o] = "wanted"
  /\ ~HasActiveGrab(i)

CreateGrabbed(i, others, r) ==
  /\ grabs' = grabs + 1
  /\ grab' = [grab EXCEPT ![grabs + 1] =
                 [st |-> "pending", subject |-> i, release |-> r]]
  /\ state'  = [x \in Items |-> IF x \in others \cup {i} THEN "grabbed" ELSE state[x]]
  /\ chosen' = [x \in Items |-> IF x \in others \cup {i} THEN r ELSE chosen[x]]

(* rescheduleSearch: where a search that grabbed nothing leaves its item.   *)
RescheduleTo(i, terminal) ==
  IF filed[i] THEN "imported" ELSE IF terminal THEN "failed" ELSE "wanted"

(* MarkImportedLocked: path and state in one transaction.                   *)
MarkImported(i) ==
  /\ state' = [state EXCEPT ![i] = "imported"]
  /\ filed' = [filed EXCEPT ![i] = TRUE]

Blacklist(i, r) == banned' = [banned EXCEPT ![i] = @ \cup {r}]

-------------------------------------------------------------------------------
(* The download client, as far as its replies reach Reelay.                 *)

Present(r) == torrent[r] # "absent"

Owned(r) == torrent[r] \notin {"absent", "foreign"}

(* Mutant: the client is asked to stop, not to delete. *)
RemoveTorrent_Kept(r) == UNCHANGED torrent

(* Remove: a torrent that is not ours is refused, a missing one is ErrNotFound. *)
RemoveTorrent(r) ==
  torrent' = IF Owned(r) THEN [torrent EXCEPT ![r] = "absent"] ELSE torrent

-------------------------------------------------------------------------------
StoreInit ==
  /\ state \in [Items -> StartStates]
  /\ filed = [i \in Items |-> i \in Library]
  /\ chosen = [i \in Items |-> NoRelease]
  /\ lease = [i \in Items |-> Free]
  /\ banned = [i \in Items |-> {}]
  /\ accepted = [i \in Items |-> {}]
  /\ evaluated = [i \in Items |-> 0]
  /\ grab = [g \in GrabIds |-> UnusedRow]
  /\ grabs = 0
  /\ torrent = [r \in Releases |-> "absent"]

StoreTypeOK ==
  /\ state \in [Items -> ItemState]
  /\ filed \in [Items -> BOOLEAN]
  /\ chosen \in [Items -> Releases \cup {NoRelease}]
  /\ lease \in [Items -> Workers \cup {Free, Dead}]
  /\ banned \in [Items -> SUBSET Releases]
  /\ accepted \in [Items -> SUBSET Releases]
  /\ evaluated \in [Items -> 0 .. MaxGrabs]
  /\ grab \in [GrabIds -> GrabRow]
  /\ grabs \in 0 .. MaxGrabs
  /\ torrent \in [Releases -> TorrentState]
===============================================================================
