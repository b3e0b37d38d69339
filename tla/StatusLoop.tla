------------------------------- MODULE StatusLoop -------------------------------
(***************************************************************************)
(* From a torrent to a file in the library: StatusOnce (engine/status.go), *)
(* the import it calls, as far as it moves items (importer/importer.go),   *)
(* and the fallback to the next candidate (engine/fallback.go).            *)
(*                                                                         *)
(* One poll copies the active rows, asks the client, copies the covered    *)
(* episodes, and only then works through the rows one by one, writing its  *)
(* copies back whole.                                                      *)
(***************************************************************************)
EXTENDS Acquisition

CONSTANT MaxFallbacks   (* fallbacks that may fail per search result (3) *)

ASSUME StatusAssumption == MaxFallbacks \in Nat

VARIABLES
  spc,       (* where the status loop is                                  *)
  snap,      (* ids of the active grabs it copied and has still to visit  *)
  rows,      (* [GrabIds -> GrabRow], its copies of those rows            *)
  seen,      (* [Releases -> TorrentState], the client's answer           *)
  grabbedAs, (* [Items -> Releases + NoRelease], the release of each item *)
             (* that was grabbed when the covered episodes were copied    *)
  cur,       (* the grab being worked on                                  *)
  items,     (* the items completeGrab or failGrab works for              *)
  fresh,     (* those of them whose copy completeGrab read as grabbed     *)
  left       (* those of them the current pass has still to visit         *)

statusVars == <<spc, snap, rows, seen, grabbedAs, fresh, cur, items, left>>

SPC == {"idle", "polling", "visiting",
        "advancing",   (* row written as downloading, items follow         *)
        "completing",  (* items on their way to importing                  *)
        "importing",   (* row written as importing                         *)
        "filing",      (* files landed, items being marked imported        *)
        "rejecting",   (* import failed, row written as failed             *)
        "failing",     (* row written as stalled, items return to wanted   *)
        "fallback",    (* looking for the next candidate                   *)
        "grabbing"}    (* inside the stored-release grab                   *)

row == rows[cur]

SGoto(next) == spc' = next

(* The rest of the rows is visited whatever became of this one.            *)
NextGrab ==
  /\ spc' = "visiting"
  /\ items' = {} /\ fresh' = {} /\ left' = {} /\ cur' = 1

(* The row copy after the write, and the write itself.                     *)
WriteRow(st) ==
  /\ CanUpdateGrab(cur, [row EXCEPT !.st = st])
  /\ UpdateGrab(cur, [row EXCEPT !.st = st])

RowRefused(st) == ~CanUpdateGrab(cur, [row EXCEPT !.st = st]) \/ StoreStops

(* Mutants: the other id of the row; the subject without the rest of the pack. *)
CoveredNow_WrongId(w) ==
  IF w.subject \in Movies THEN {w.release} ELSE ActiveByRelease(w.release)
CoveredNow_Subject(w) == {w.subject}

(* The items a grab stands for: the movie, or the episodes it covers now.  *)
CoveredNow(w) ==
  IF w.subject \in Movies THEN {w.subject} ELSE ActiveByRelease(w.release)

-------------------------------------------------------------------------------
(* The poll.                                                               *)

StatusRead ==
  /\ spc = "idle" /\ ActiveGrabs # {}
  /\ snap' = ActiveGrabs
  /\ rows' = [g \in GrabIds |-> IF g \in ActiveGrabs THEN grab[g] ELSE UnusedRow]
  /\ SGoto("polling")
  /\ UNCHANGED <<storeVars, torrent, jobVars, seen, grabbedAs, fresh, cur, items, left>>

StatusPoll ==
  /\ spc = "polling"
  /\ seen' = torrent
  /\ grabbedAs' = [i \in Items |-> IF state[i] = "grabbed" THEN chosen[i] ELSE NoRelease]
  /\ SGoto("visiting")
  /\ UNCHANGED <<storeVars, torrent, jobVars, snap, rows, fresh, cur, items, left>>

(* "poll downloader" failed, or a read did.                                *)
PollFails ==
  /\ spc = "polling" /\ ("client" \in Faults \/ StoreStops)
  /\ SGoto("idle") /\ snap' = {}
  /\ UNCHANGED <<storeVars, torrent, jobVars, rows, seen, grabbedAs, fresh, cur, items, left>>

StatusDone ==
  /\ spc = "visiting" /\ snap = {}
  /\ SGoto("idle")
  /\ rows' = [g \in GrabIds |-> UnusedRow]
  /\ seen' = [r \in Releases |-> "absent"]
  /\ grabbedAs' = [i \in Items |-> NoRelease]
  /\ UNCHANGED <<storeVars, torrent, jobVars, snap, fresh, cur, items, left>>

(* Rows are visited oldest first.                                          *)
Oldest(g) == g \in snap /\ \A h \in snap : g <= h

Visit(g) == spc = "visiting" /\ Oldest(g) /\ snap' = snap \ {g}

Reply(g) == seen[rows[g].release]

Missing(g) == Reply(g) \in {"absent", "foreign"}

-------------------------------------------------------------------------------
(* One row: updateGrabStatus and handleMissingTorrent.                     *)

(* Missing for less than the stall timeout.                                *)
WaitForMissing(g) ==
  /\ Visit(g) /\ Missing(g)
  /\ UNCHANGED <<storeVars, torrent, jobVars, spc, rows, seen, grabbedAs, fresh, cur, items, left>>

(* While downloads are paused a torrent that is missing or in error is     *)
(* only noted: the copy is written back as it is.                          *)
NotePaused(g) ==
  /\ "pause" \in Requests
  /\ Visit(g) /\ (Missing(g) \/ Reply(g) = "error")
  /\ \/ CanUpdateGrab(g, rows[g]) /\ UpdateGrab(g, rows[g])
     \/ (~CanUpdateGrab(g, rows[g]) \/ StoreStops) /\ UNCHANGED grab
  /\ UNCHANGED <<itemVars, lease, banned, candVars, grabs, torrent, jobVars,
                 spc, rows, seen, grabbedAs, fresh, cur, items, left>>

(* Queued: the row says downloading, the items are left alone.             *)
NoteQueued(g) ==
  LET w == [rows[g] EXCEPT !.st = "downloading"] IN
  /\ Visit(g) /\ Reply(g) = "queued"
  /\ \/ CanUpdateGrab(g, w) /\ UpdateGrab(g, w)
     \/ (~CanUpdateGrab(g, w) \/ StoreStops) /\ UNCHANGED grab
  /\ UNCHANGED <<itemVars, lease, banned, candVars, grabs, torrent, jobVars,
                 spc, rows, seen, grabbedAs, fresh, cur, items, left>>

(* Downloading: the row first, then the items the poll saw as grabbed; a   *)
(* movie is read again.                                                    *)
NoteDownloading(g) ==
  LET w == [rows[g] EXCEPT !.st = "downloading"] IN
  /\ Visit(g) /\ Reply(g) = "downloading"
  /\ CanUpdateGrab(g, w) /\ UpdateGrab(g, w)
  /\ cur' = g
  /\ left' = IF w.subject \in Movies
             THEN {w.subject}
             ELSE {e \in Episodes : grabbedAs[e] = w.release}
  /\ SGoto("advancing")
  /\ UNCHANGED <<itemVars, lease, banned, candVars, grabs, torrent, jobVars,
                 rows, seen, grabbedAs, fresh, items>>

(* The row write is refused: the grab is left for the next poll.           *)
NoteRefused(g) ==
  /\ Visit(g) /\ Reply(g) = "downloading"
  /\ ~CanUpdateGrab(g, [rows[g] EXCEPT !.st = "downloading"]) \/ StoreStops
  /\ UNCHANGED <<storeVars, torrent, jobVars, spc, rows, seen, grabbedAs, fresh, cur, items, left>>

(* Complete, or missing for a stall timeout after an import had begun.     *)
BeginComplete(g) ==
  /\ Visit(g)
  /\ \/ Reply(g) = "complete"
     \/ Missing(g) /\ rows[g].st \in {"completed", "importing"}
  /\ cur' = g
  /\ SGoto("completing")
  /\ items' = CoveredNow(rows[g])
  /\ left' = CoveredNow(rows[g])
  /\ fresh' = {i \in CoveredNow(rows[g]) : state[i] = "grabbed"}
  /\ UNCHANGED <<storeVars, torrent, jobVars, rows, seen, grabbedAs>>

(* Client error, no progress for a stall timeout, or gone for one: the     *)
(* torrent is removed first.  Not ours or not there is as good as removed. *)
Failing(g) ==
  \/ Reply(g) \in {"error", "downloading"}
  \/ Missing(g) /\ rows[g].st \notin {"completed", "importing"}

BeginFail(g) ==
  /\ Visit(g) /\ Failing(g)
  /\ RemoveTorrent(rows[g].release)
  /\ cur' = g
  /\ SGoto("failing")
  /\ items' = {rows[g].subject}    (* not read yet: see MarkStalled *)
  /\ left' = {}
  /\ UNCHANGED <<storeVars, jobVars, rows, seen, grabbedAs, fresh>>

RemoveFails(g) ==
  /\ Visit(g) /\ Failing(g) /\ Faults \cap {"client", "cancel"} # {}
  /\ UNCHANGED <<storeVars, torrent, jobVars, spc, rows, seen, grabbedAs, fresh, cur, items, left>>

-------------------------------------------------------------------------------
(* advanceGrabItems towards downloading.                                   *)

AdvanceItem(i) ==
  /\ spc = "advancing" /\ First(i, left)
  /\ \/ i \in Movies /\ state[i] \in {"downloading", "imported"} /\ UNCHANGED state
     \/ CanTransition(i, "downloading") /\ Transition(i, "downloading")
  /\ left' = left \ {i}
  /\ UNCHANGED <<filed, chosen, lease, banned, candVars, grabVars, torrent, jobVars,
                 spc, snap, rows, seen, grabbedAs, fresh, cur, items>>

AdvanceEnds ==
  /\ spc = "advancing"
  /\ \/ left = {}
     \/ \E i \in left : First(i, left) /\ ~CanTransition(i, "downloading")
     \/ StoreStops
  /\ NextGrab
  /\ UNCHANGED <<storeVars, torrent, jobVars, snap, rows, seen, grabbedAs>>

-------------------------------------------------------------------------------
(* completeGrab: every item to importing, then the row, then the importer. *)

(* Mutant: a grab that completes before its first poll is not caught up.   *)
NextStage_Skip(i) == "importing"

(* What the copy says comes next; the transition checks the state of now.  *)
NextStage(i) == IF i \in fresh THEN "downloading" ELSE "importing"

CompleteItem(i) ==
  /\ spc = "completing" /\ First(i, left)
  /\ \/ i \in fresh /\ fresh' = fresh \ {i} /\ UNCHANGED left
     \/ i \notin fresh /\ left' = left \ {i} /\ UNCHANGED fresh
  /\ \/ state[i] # "importing" /\ CanTransition(i, NextStage(i)) /\ Transition(i, NextStage(i))
     \/ state[i] = "importing" /\ UNCHANGED state
  /\ UNCHANGED <<filed, chosen, lease, banned, candVars, grabVars, torrent, jobVars,
                 spc, snap, rows, seen, grabbedAs, cur, items>>

(* Nothing is left to import: no covered episode is active any more, or    *)
(* the movie has its file.                                                 *)
NothingActive ==
  \/ items = {}
  \/ items \subseteq Movies /\ state[row.subject] = "imported"

CompleteAborts ==
  /\ spc = "completing"
  /\ \/ StoreStops
     \/ items = {} /\ state[row.subject] # "imported"
     \/ \E i \in left : /\ First(i, left) /\ state[i] # "importing"
                        /\ ~CanTransition(i, NextStage(i))
                        /\ ~NothingActive
  /\ NextGrab
  /\ UNCHANGED <<storeVars, torrent, jobVars, snap, rows, seen, grabbedAs>>

(* Imported before, by this process or an earlier one: only the row lags.  *)
CompleteAlready ==
  /\ spc = "completing"
  /\ NothingActive /\ state[row.subject] = "imported"
  /\ WriteRow("imported")
  /\ NextGrab
  /\ UNCHANGED <<itemVars, lease, banned, candVars, grabs, torrent, jobVars,
                 snap, rows, seen, grabbedAs>>

CompleteRow ==
  /\ spc = "completing" /\ left = {} /\ items # {}
  /\ WriteRow("importing")
  /\ SGoto("importing")
  /\ UNCHANGED <<itemVars, lease, banned, candVars, grabs, torrent, jobVars,
                 snap, rows, seen, grabbedAs, fresh, cur, items, left>>

CompleteRowRefused ==
  /\ spc = "completing" /\ left = {} /\ items # {}
  /\ RowRefused("importing")
  /\ NextGrab
  /\ UNCHANGED <<storeVars, torrent, jobVars, snap, rows, seen, grabbedAs>>

-------------------------------------------------------------------------------
(* ImportCompleted.  The importer reads the row and the covered episodes   *)
(* again.  A movie is leased for the whole import, an episode only while   *)
(* it is marked.                                                           *)

MovieImport == row.subject \in Movies

ImportReady ==
  /\ grab[cur].st \in {"importing", "completed"}
  /\ CoveredNow(row) # {}
  /\ MovieImport => lease[row.subject] = Free

ImportBegin ==
  /\ spc = "importing" /\ ImportReady
  /\ left' = CoveredNow(row)
  /\ lease' = IF MovieImport THEN [lease EXCEPT ![row.subject] = Status] ELSE lease
  /\ SGoto("filing")
  /\ UNCHANGED <<itemVars, banned, candVars, grabVars, torrent, jobVars,
                 snap, rows, seen, grabbedAs, fresh, cur, items>>

Markable(i) == state[i] = "importing" /\ (MovieImport \/ lease[i] = Free)

(* The importer lets go of the movie.  It looks at the lease table only    *)
(* now, and finds its row unless the import has outlasted it.              *)
MovieReleased ==
  lease' \in {[lease EXCEPT ![row.subject] = to] :
     to \in IF lease[row.subject] # Status THEN {lease[row.subject]}
           ELSE IF "store" \in Faults THEN {Free, Dead} ELSE {Free}}

ImportItem(i) ==
  /\ spc = "filing" /\ First(i, left) /\ Markable(i)
  /\ MarkImported(i)
  /\ IF MovieImport THEN MovieReleased ELSE UNCHANGED lease
  /\ left' = left \ {i}
  /\ UNCHANGED <<chosen, banned, candVars, grabVars, torrent, jobVars,
                 spc, snap, rows, seen, grabbedAs, fresh, cur, items>>

(* Files that cannot be placed, a transaction that fails or is cut short.  *)
ImportStops == "files" \in Faults \/ StoreStops

(* Any failure of the importer, and the row that records it, best effort.  *)
ImportFails ==
  /\ \/ spc = "importing" /\ (~ImportReady \/ ImportStops)
     \/ spc = "filing" /\ \E i \in left : First(i, left) /\ (~Markable(i) \/ ImportStops)
  /\ IF spc = "filing" /\ MovieImport THEN MovieReleased ELSE UNCHANGED lease
  /\ \/ UpdateGrab(cur, [row EXCEPT !.st = "failed"])
     \/ "store" \in Faults /\ UNCHANGED grab
  /\ left' = items
  /\ SGoto("rejecting")
  /\ UNCHANGED <<itemVars, banned, candVars, grabs, torrent, jobVars,
                 snap, rows, seen, grabbedAs, fresh, cur, items>>

ImportDone ==
  /\ spc = "filing" /\ left = {}
  /\ \/ WriteRow("imported")
     \/ RowRefused("imported") /\ UNCHANGED grab
  /\ NextGrab
  /\ UNCHANGED <<itemVars, lease, banned, candVars, grabs, torrent, jobVars,
                 snap, rows, seen, grabbedAs>>

(* Each item that was to be imported, best effort.                         *)
RejectItem(i) ==
  /\ spc = "rejecting" /\ First(i, left)
  /\ \/ state[i] = "importing" /\ lease[i] = Free /\ Transition(i, "import_failed")
     \/ /\ state[i] # "importing" \/ lease[i] # Free \/ "store" \in Faults
        /\ UNCHANGED state
  /\ left' = left \ {i}
  /\ UNCHANGED <<filed, chosen, lease, banned, candVars, grabVars, torrent, jobVars,
                 spc, snap, rows, seen, grabbedAs, fresh, cur, items>>

RejectDone ==
  /\ spc = "rejecting" /\ left = {}
  /\ NextGrab
  /\ UNCHANGED <<storeVars, torrent, jobVars, snap, rows, seen, grabbedAs>>

-------------------------------------------------------------------------------
(* failGrab, after the torrent is gone.                                    *)

MarkStalled ==
  /\ spc = "failing" /\ items = {row.subject} /\ left = {}
  /\ UpdateGrab(cur, [row EXCEPT !.st = "stalled"])
  /\ left' = CoveredNow(row)
  /\ items' = {}
  /\ UNCHANGED <<itemVars, lease, banned, candVars, grabs, torrent, jobVars,
                 spc, snap, rows, seen, grabbedAs, fresh, cur>>

(* The release is blacklisted for the item before it returns to wanted.    *)
FailItem(i) ==
  /\ spc = "failing" /\ First(i, left)
  /\ Blacklist(i, row.release)
  /\ \/ CanTransition(i, "wanted") /\ (i \in Movies => Active(i)) /\ Transition(i, "wanted")
     \/ i \in Movies /\ state[i] \notin {"grabbed", "downloading"} /\ UNCHANGED state
  /\ left' = left \ {i}
  /\ UNCHANGED <<filed, chosen, lease, candVars, grabVars, torrent, jobVars,
                 spc, snap, rows, seen, grabbedAs, fresh, cur, items>>

(* The item is leased, or is past returning to wanted, a transaction fails *)
(* or the daemon is shutting down: the rest of the items is not visited.   *)
FailItemAborts(i) ==
  /\ spc = "failing" /\ First(i, left)
  /\ \/ Blacklist(i, row.release)
     \/ StoreStops /\ UNCHANGED banned
  /\ \/ StoreStops
     \/ ~CanTransition(i, "wanted") /\ (i \in Movies => state[i] \in {"grabbed", "downloading"})
  /\ NextGrab
  /\ UNCHANGED <<itemVars, lease, candVars, grabVars, torrent, jobVars,
                 snap, rows, seen, grabbedAs>>

(* The row was not written: the grab is still active, its torrent is gone. *)
MarkStalledFails ==
  /\ spc = "failing" /\ items # {} /\ StoreStops
  /\ NextGrab
  /\ UNCHANGED <<storeVars, torrent, jobVars, snap, rows, seen, grabbedAs>>

FailDone ==
  /\ spc = "failing" /\ items = {} /\ left = {}
  /\ SGoto("fallback")
  /\ UNCHANGED <<storeVars, torrent, jobVars, snap, rows, seen, grabbedAs, fresh, cur, items, left>>

-------------------------------------------------------------------------------
(* startFallback.                                                          *)

FailedGrabs(i) ==
  {g \in 1 .. grabs : /\ grab[g].subject = i /\ g > evaluated[i]
                      /\ grab[g].st \in {"stalled", "failed"}}

(* Mutant: off by one. *)
FallbackAllowed_OneMore(i) == Cardinality(FailedGrabs(i)) <= MaxFallbacks + 1

FallbackAllowed(i) == Cardinality(FailedGrabs(i)) <= MaxFallbacks

FallbackStart(r) ==
  LET i == row.subject IN
  /\ spc = "fallback"
  /\ state[i] = "wanted"
  /\ FallbackAllowed(i)
  /\ r \in accepted[i] \ banned[i]
  /\ GrabCheck(Status, i, r)
  /\ SGoto("grabbing")
  /\ UNCHANGED <<snap, rows, seen, grabbedAs, fresh, cur, items, left>>

(* No candidate left, all older than a day, or an error: never an error of *)
(* the poll.                                                               *)
FallbackNone ==
  /\ spc = "fallback"
  /\ NextGrab
  /\ UNCHANGED <<storeVars, torrent, jobVars, snap, rows, seen, grabbedAs>>

FallbackDone ==
  /\ spc = "grabbing" /\ pc[Status] = "idle"
  /\ NextGrab
  /\ UNCHANGED <<storeVars, torrent, jobVars, snap, rows, seen, grabbedAs>>

-------------------------------------------------------------------------------
StatusInit ==
  /\ spc = "idle" /\ snap = {} /\ items = {} /\ fresh = {} /\ left = {} /\ cur = 1
  /\ rows = [g \in GrabIds |-> UnusedRow]
  /\ seen = [r \in Releases |-> "absent"]
  /\ grabbedAs = [i \in Items |-> NoRelease]

VisitGrab(g) ==
  \/ WaitForMissing(g) \/ NotePaused(g) \/ NoteQueued(g) \/ NoteDownloading(g) \/ NoteRefused(g)
  \/ BeginComplete(g) \/ BeginFail(g) \/ RemoveFails(g)

WorkItem(i) ==
  \/ AdvanceItem(i) \/ CompleteItem(i) \/ ImportItem(i) \/ RejectItem(i)
  \/ FailItem(i) \/ FailItemAborts(i)

WorkGrab ==
  \/ AdvanceEnds
  \/ CompleteAborts \/ CompleteAlready \/ CompleteRow \/ CompleteRowRefused
  \/ ImportBegin \/ ImportFails \/ ImportDone \/ RejectDone
  \/ MarkStalled \/ MarkStalledFails \/ FailDone
  \/ FallbackNone \/ FallbackDone

(* The steps of the status loop alone; a started fallback continues with   *)
(* the steps of the stored-release grab.                                   *)
StatusNext ==
  \/ StatusRead \/ StatusPoll \/ PollFails \/ StatusDone
  \/ \E g \in GrabIds : VisitGrab(g)
  \/ \E i \in Items : WorkItem(i)
  \/ WorkGrab
  \/ \E r \in Releases : FallbackStart(r)

StatusTypeOK ==
  /\ spc \in SPC
  /\ snap \in SUBSET GrabIds
  /\ rows \in [GrabIds -> GrabRow]
  /\ seen \in [Releases -> TorrentState]
  /\ grabbedAs \in [Items -> Releases \cup {NoRelease}]
  /\ cur \in GrabIds
  /\ items \in SUBSET Items
  /\ fresh \in SUBSET Items
  /\ left \in SUBSET Items
===============================================================================
