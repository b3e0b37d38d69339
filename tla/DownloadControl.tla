----------------------------- MODULE DownloadControl -----------------------------
(***************************************************************************)
(* Pausing and resuming all downloads (engine/downloads.go) through        *)
(* SetPaused of the client (qbittorrent.go).  The flag is stored first,    *)
(* then the torrents of the active grabs are stopped or started in one     *)
(* request; a mutex keeps this apart from adding a torrent, but not from   *)
(* recording the grab, from polls, or from what the operator does in       *)
(* qBittorrent itself.                                                     *)
(***************************************************************************)
EXTENDS Naturals, FiniteSets

CONSTANTS
  Torrents,
  Changes,      (* bound on pauses and resumes                            *)
  Mishaps       (* bound on failures, crashes, takeovers                  *)

ASSUME ControlAssumption == Changes \in Nat /\ Mishaps \in Nat

VARIABLES
  paused,       (* the stored flag                                        *)
  torrent,      (* [Torrents -> [state, ours, full, ready]] in            *)
                (* qBittorrent: all data is there, and it is verified     *)
  grab,         (* [Torrents -> [row, full]]: the state of the grab's row *)
                (* and whether its recorded progress is full              *)
  item,         (* [Torrents -> {"reserved", "imported", "import_failed"}]*)
                (* what the grab is for                                   *)
  adding,       (* [Torrents -> [pc, paused]]: workers adding a torrent   *)
  control,      (* [pc, want, previous, rows, full, todo, hashes, owned]: *)
                (* the change that runs; full are rows read as such       *)
  settled,      (* torrents the last change asked for when it succeeded,  *)
                (* or that were added since                               *)
  left          (* [changes, mishaps] that may still come                 *)

controlVars == <<paused, torrent, grab, item, adding, control, settled, left>>

NoTorrent == [state |-> "none", ours |-> FALSE, full |-> FALSE, ready |-> FALSE]
NoGrab == [row |-> "none", full |-> FALSE]
NoAdd == [pc |-> "idle", paused |-> FALSE]
NoControl == [pc |-> "idle", want |-> FALSE, previous |-> FALSE, rows |-> {}, full |-> {},
              todo |-> {}, hashes |-> {}, owned |-> {}]

Present(t) == torrent[t].state # "none"
ActiveRows == {t \in Torrents : grab[t].row = "active"}
MutexFree == control.pc = "idle" /\ \A t \in Torrents : adding[t].pc # "add"

ControlInit ==
  /\ paused = FALSE /\ torrent = [t \in Torrents |-> NoTorrent]
  /\ grab = [t \in Torrents |-> NoGrab] /\ item = [t \in Torrents |-> "reserved"]
  /\ adding = [t \in Torrents |-> NoAdd]
  /\ control = NoControl /\ settled = {}
  /\ left = [changes |-> Changes, mishaps |-> Mishaps]

Spending(what) == left[what] > 0 /\ left' = [left EXCEPT ![what] = @ - 1]
GotoControl(pc) == control' = [control EXCEPT !.pc = pc]

-------------------------------------------------------------------------------
(* A search adds a torrent and records the grab.                           *)

(* Mutant: the flag is read without the lock. *)
ReadFlag_Unlocked(t) ==
  /\ adding[t].pc = "idle" /\ ~Present(t) /\ grab[t] = NoGrab
  /\ adding' = [adding EXCEPT ![t] = [pc |-> "add", paused |-> paused]]
  /\ UNCHANGED <<paused, torrent, grab, item, control, settled, left>>

ReadFlag(t) ==
  /\ adding[t].pc = "idle" /\ ~Present(t) /\ grab[t] = NoGrab /\ MutexFree
  /\ adding' = [adding EXCEPT ![t] = [pc |-> "add", paused |-> paused]]
  /\ UNCHANGED <<paused, torrent, grab, item, control, settled, left>>

AddTorrent(t) ==
  /\ adding[t].pc = "add"
  /\ torrent' = [torrent EXCEPT ![t] =
       [NoTorrent EXCEPT !.state = IF adding[t].paused THEN "stopped" ELSE "running",
                         !.ours = TRUE]]
  /\ adding' = [adding EXCEPT ![t].pc = "record"] /\ settled' = settled \cup {t}
  /\ UNCHANGED <<paused, grab, item, control, left>>

RecordGrab(t) ==
  /\ adding[t].pc = "record"
  /\ grab' = [grab EXCEPT ![t].row = "active"] /\ adding' = [adding EXCEPT ![t] = NoAdd]
  /\ UNCHANGED <<paused, torrent, item, control, settled, left>>

-------------------------------------------------------------------------------
(* SetDownloadsPaused.                                                     *)

StoreFlag(want) ==
  /\ MutexFree /\ Spending("changes")
  /\ control' = [NoControl EXCEPT !.pc = "rows", !.want = want, !.previous = paused]
  /\ paused' = want /\ settled' = {}
  /\ UNCHANGED <<torrent, grab, item, adding>>

(* The active rows, and the torrents of those whose recorded progress is   *)
(* not full.                                                               *)
ReadGrabs ==
  /\ control.pc = "rows"
  /\ LET full == {t \in ActiveRows : grab[t].full} IN
     control' = [control EXCEPT !.rows = ActiveRows, !.full = full,
       !.hashes = ActiveRows \ full,
       !.todo = IF control.previous /\ ~control.want THEN ActiveRows ELSE {},
       !.pc = "refresh"]
  /\ UNCHANGED <<paused, torrent, grab, item, adding, settled, left>>

(* Resuming restarts the timers of the grabs: each row is written back as  *)
(* it was read, whatever polls have made of it since.                      *)
RefreshGrab(t) ==
  /\ control.pc = "refresh" /\ t \in control.todo
  /\ grab' = [grab EXCEPT ![t] = [row |-> "active", full |-> t \in control.full]]
  /\ control' = [control EXCEPT !.todo = @ \ {t}]
  /\ UNCHANGED <<paused, torrent, item, adding, settled, left>>

(* The client is asked which of the torrents are there and in one of our   *)
(* categories.  Nothing is asked of it for an empty list, which would mean *)
(* all torrents.                                                           *)
CheckOwned ==
  /\ control.pc = "refresh" /\ control.todo = {}
  /\ control' = [control EXCEPT !.pc = "apply",
       !.owned = {t \in control.hashes : Present(t) /\ torrent[t].ours}]
  /\ UNCHANGED <<paused, torrent, grab, item, adding, settled, left>>

Changed(t) ==
  IF t \in control.owned /\ Present(t)
  THEN [torrent[t] EXCEPT !.state = IF control.want THEN "stopped" ELSE "running"] ELSE torrent[t]

ApplyChange == torrent' = [t \in Torrents |-> Changed(t)]

(* Under its new or its old name the request stops or starts them all.     *)
ApplyPaused ==
  /\ control.pc = "apply" /\ ApplyChange
  /\ settled' = control.hashes
  /\ GotoControl("idle")
  /\ UNCHANGED <<paused, grab, item, adding, left>>

(* Any step may fail, and the client may have acted although it did not    *)
(* answer: the flag goes back to what it was, unless that write fails too. *)
ControlFails ==
  /\ control.pc # "idle" /\ Spending("mishaps")
  /\ paused' \in {paused, control.previous} /\ GotoControl("idle")
  /\ \/ UNCHANGED torrent
     \/ control.pc = "apply" /\ ApplyChange
  /\ UNCHANGED <<grab, item, adding, settled>>

(* The process dies: what was done stays, and the flag with it.  A torrent *)
(* that was added and not recorded stays in the client without a grab.     *)
Crash ==
  /\ control.pc # "idle" \/ \E t \in Torrents : adding[t].pc # "idle"
  /\ Spending("mishaps")
  /\ GotoControl("idle") /\ adding' = [t \in Torrents |-> NoAdd]
  /\ UNCHANGED <<paused, torrent, grab, item, settled>>

-------------------------------------------------------------------------------
(* Polls.                                                                  *)

Polled(t) == grab[t].row = "active" /\ Present(t)

(* A download that is not complete: the row records how far it is.         *)
PollProgress(t) ==
  /\ Polled(t) /\ ~torrent[t].ready
  /\ grab' = [grab EXCEPT ![t].full = torrent[t].full]
  /\ UNCHANGED <<paused, torrent, item, adding, control, settled, left>>

(* Mutant: nothing is polled while downloads are paused. *)
PollImports_Paused(t) ==
  /\ Polled(t) /\ torrent[t].ready /\ item[t] # "import_failed" /\ ~paused
  /\ item' = [item EXCEPT ![t] = "imported"]
  /\ grab' = [grab EXCEPT ![t] = [row |-> "imported", full |-> TRUE]]
  /\ UNCHANGED <<paused, torrent, adding, control, settled, left>>

(* A complete download is imported, unless that was done before, and the   *)
(* row records it.                                                         *)
PollImports(t) ==
  /\ Polled(t) /\ torrent[t].ready /\ item[t] # "import_failed"
  /\ item' = [item EXCEPT ![t] = "imported"]
  /\ grab' = [grab EXCEPT ![t] = [row |-> "imported", full |-> TRUE]]
  /\ UNCHANGED <<paused, torrent, adding, control, settled, left>>

(* The import fails: the row is closed, and what it is for is marked unless *)
(* it is leased.                                                           *)
PollFails(t) ==
  /\ Polled(t) /\ torrent[t].ready /\ item[t] = "reserved" /\ Spending("mishaps")
  /\ item' \in {item, [item EXCEPT ![t] = "import_failed"]}
  /\ grab' = [grab EXCEPT ![t] = [row |-> "failed", full |-> TRUE]]
  /\ UNCHANGED <<paused, torrent, adding, control, settled>>

(* An error before or after the row is written as importing leaves it      *)
(* active: an item is leased, the store fails, the process dies.  Where    *)
(* the import failed before and the row came back there is no item to      *)
(* import for, and every poll ends in an error that writes nothing.        *)
PollErrs(t) ==
  /\ Polled(t) /\ torrent[t].ready /\ item[t] # "import_failed" /\ Spending("mishaps")
  /\ grab' = [grab EXCEPT ![t].full = TRUE]
  /\ UNCHANGED <<paused, torrent, item, adding, control, settled>>

-------------------------------------------------------------------------------
(* qBittorrent by itself.                                                  *)

(* All data has arrived; then it has been verified and moved.              *)
FillTorrent(t) ==
  /\ torrent[t].state = "running" /\ ~torrent[t].full
  /\ torrent' = [torrent EXCEPT ![t].full = TRUE]
  /\ UNCHANGED <<paused, grab, item, adding, control, settled, left>>

FinishTorrent(t) ==
  /\ torrent[t].full /\ ~torrent[t].ready
  /\ torrent' = [torrent EXCEPT ![t].ready = TRUE]
  /\ UNCHANGED <<paused, grab, item, adding, control, settled, left>>

(* The operator takes a torrent over by giving it another category.        *)
TakeOver(t) ==
  /\ Present(t) /\ torrent[t].ours /\ Spending("mishaps")
  /\ torrent' = [torrent EXCEPT ![t].ours = FALSE]
  /\ UNCHANGED <<paused, grab, item, adding, control, settled>>

ChangeStep ==
  \/ ReadGrabs \/ CheckOwned \/ ApplyPaused
  \/ \E t \in Torrents : RefreshGrab(t)

Hand(t) == ReadFlag(t) \/ AddTorrent(t) \/ RecordGrab(t)
PollStep(t) == PollProgress(t) \/ PollImports(t) \/ PollFails(t) \/ PollErrs(t)
Elsewhere(t) == FillTorrent(t) \/ FinishTorrent(t) \/ TakeOver(t)

ControlNext ==
  \/ ChangeStep \/ ControlFails \/ Crash
  \/ \E want \in BOOLEAN : StoreFlag(want)
  \/ \E t \in Torrents : Hand(t) \/ PollStep(t) \/ Elsewhere(t)

ControlSpec == ControlInit /\ [][ControlNext]_controlVars

-------------------------------------------------------------------------------
(* Properties.                                                             *)

TorrentRecords ==
  [state : {"none", "running", "stopped"}, ours : BOOLEAN, full : BOOLEAN, ready : BOOLEAN]
GrabRecords == [row : {"none", "active", "imported", "failed"}, full : BOOLEAN]

ControlTypeOK ==
  /\ paused \in BOOLEAN /\ grab \in [Torrents -> GrabRecords]
  /\ torrent \in [Torrents -> TorrentRecords]
  /\ item \in [Torrents -> {"reserved", "imported", "import_failed"}]
  /\ \A t \in Torrents : adding[t].pc \in {"idle", "add", "record"}
  /\ control.pc \in {"idle", "rows", "refresh", "apply"}
  /\ settled \subseteq Torrents

(* After a pause or a resume that succeeded every active grab it found with *)
(* progress to make, and every grab whose torrent was added since, is in    *)
(* the state the flag says, unless the operator took the torrent over.      *)
PauseReaches ==
  \A t \in ActiveRows \cap settled :
    control.pc = "idle" /\ torrent[t].ours => (torrent[t].state = "stopped") = paused

(* No complete download counts as active.  The exception is real: a resume *)
(* that writes back a row whose import has failed since makes it active    *)
(* with nothing left to import for.                                        *)
FinishedRecorded ==
  \A t \in Torrents : torrent[t].ready => grab[t].row # "active" \/ item[t] = "import_failed"
===============================================================================
