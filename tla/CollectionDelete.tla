---------------------------- MODULE CollectionDelete ----------------------------
(***************************************************************************)
(* Deleting a series with its files and downloads (api/collection.go): the *)
(* episodes are listed and leased, their grabs are read, everything that   *)
(* can refuse is checked, then torrents, grab rows, files and at last the  *)
(* series row go, one after another.  Searches, the status loop with its   *)
(* imports (engine/status.go) and metadata passes go on meanwhile.  A      *)
(* movie goes the same way with its one row.                               *)
(***************************************************************************)
EXTENDS Naturals, FiniteSets

CONSTANTS
  Episodes,
  Failures      (* bound on steps that fail                               *)

ASSUME DeleteAssumption == Failures \in Nat

VARIABLES
  episode,      (* [Episodes -> [row, path]]: row exists, ImportedPath    *)
  lease,        (* [Episodes -> {"free", "search", "delete"}]             *)
  job,          (* [Episodes -> {"none", "active", "imported", "closed"}] *)
  client,       (* episodes whose torrent the client has                  *)
  video,        (* episodes whose file is in the library                  *)
  poll,         (* [pc, rows, at]: the status loop, the active rows it    *)
                (* copied, and the episode whose file it imports          *)
  overtaken,    (* episodes whose closed row the loop wrote back from its *)
                (* copy, or whose file it placed after that row closed    *)
  del,          (* [pc, files, downloads, listed, paths, grabs, todo, at] *)
  removed,      (* the deletion has begun to remove                       *)
  outcome,      (* "none", "refused", "failed" or "done"                  *)
  lapses        (* [failures, expired]                                    *)

deleteVars == <<episode, lease, job, client, video, poll, overtaken, del, removed, outcome, lapses>>

NoDelete == [pc |-> "idle", files |-> FALSE, downloads |-> FALSE, listed |-> {},
             paths |-> {}, grabs |-> {}, todo |-> {}, at |-> CHOOSE e \in Episodes : TRUE]
NoPoll == [pc |-> "idle", rows |-> {}, at |-> NoDelete.at]

Rows == {e \in Episodes : episode[e].row}
Leased == {e \in del.listed : lease[e] = "delete"}
ReleaseAll == lease' = [e \in Episodes |-> IF lease[e] = "delete" THEN "free" ELSE lease[e]]

(* A movie or an episode may have been imported under another root folder. *)
DeleteInit ==
  /\ episode \in [Episodes -> [row : BOOLEAN, path : {"none", "inside", "outside"}]]
  /\ \E e \in Episodes : episode[e].row
  /\ \A e \in Episodes : ~episode[e].row => episode[e].path = "none"
  /\ video = {e \in Episodes : episode[e].path # "none"}
  /\ client \in SUBSET video
  /\ job = [e \in Episodes |-> IF e \in video THEN "imported" ELSE "none"]
  /\ lease = [e \in Episodes |-> "free"] /\ poll = NoPoll /\ overtaken = {}
  /\ del = NoDelete /\ removed = FALSE /\ outcome = "none"
  /\ lapses = [failures |-> Failures, expired |-> FALSE]

-------------------------------------------------------------------------------
(* The deletion.                                                           *)

ListEpisodes(files, downloads) ==
  /\ del.pc = "idle" /\ outcome = "none" /\ Rows # {}
  /\ del' = [NoDelete EXCEPT !.pc = "lock", !.files = files, !.downloads = downloads,
       !.listed = Rows, !.paths = {e \in Rows : episode[e].path # "none"}]
  /\ UNCHANGED <<episode, lease, job, client, video, poll, overtaken, removed, outcome, lapses>>

Refuse ==
  /\ outcome' = "refused" /\ del' = [del EXCEPT !.pc = "idle"] /\ ReleaseAll
  /\ UNCHANGED <<episode, job, client, video, poll, overtaken, removed, lapses>>

(* All leases or none: the first that is taken gives back the others.      *)
LockEpisode(e) ==
  /\ del.pc = "lock" /\ e \in del.listed \ Leased
  /\ \/ /\ lease[e] = "free" /\ lease' = [lease EXCEPT ![e] = "delete"]
        /\ UNCHANGED <<episode, job, client, video, poll, overtaken, del, removed, outcome, lapses>>
     \/ lease[e] # "free" /\ Refuse

(* Mutant: the grabs are read before all episodes are leased. *)
ReadJobs_Early ==
  /\ del.pc = "lock"
  /\ del' = [del EXCEPT !.pc = "check", !.grabs = {e \in del.listed : job[e] # "none"}]
  /\ UNCHANGED <<episode, lease, job, client, video, poll, overtaken, removed, outcome, lapses>>

ReadJobs ==
  /\ del.pc = "lock" /\ Leased = del.listed
  /\ del' = [del EXCEPT !.pc = "check", !.grabs = {e \in del.listed : job[e] # "none"}]
  /\ UNCHANGED <<episode, lease, job, client, video, poll, overtaken, removed, outcome, lapses>>

Outside(e) == episode[e].path = "outside"

(* Everything that can refuse comes before anything is removed.            *)
CheckDelete ==
  /\ del.pc = "check"
  /\ \/ /\ \/ ~del.downloads /\ \E e \in del.grabs : job[e] = "active"
           \/ del.files /\ \E e \in del.paths : Outside(e)
        /\ Refuse
     \/ /\ del.downloads \/ \A e \in del.grabs : job[e] # "active"
        /\ del.files => \A e \in del.paths : ~Outside(e)
        /\ del' = [del EXCEPT !.pc = "torrents", !.todo = IF del.downloads THEN del.grabs ELSE {}]
        /\ UNCHANGED <<episode, lease, job, client, video, poll, overtaken, removed, outcome, lapses>>

(* A torrent that is not there counts as removed; the row of its grab is   *)
(* written next.                                                           *)
RemoveData(e) ==
  /\ del.pc = "torrents" /\ e \in del.todo
  /\ client' = client \ {e} /\ removed' = TRUE
  /\ del' = [del EXCEPT !.pc = "mark", !.at = e]
  /\ UNCHANGED <<episode, lease, job, video, poll, overtaken, outcome, lapses>>

MarkRemoved ==
  /\ del.pc = "mark" /\ job' = [job EXCEPT ![del.at] = "closed"]
  /\ del' = [del EXCEPT !.pc = "torrents", !.todo = @ \ {del.at}]
  /\ UNCHANGED <<episode, lease, client, video, poll, overtaken, removed, outcome, lapses>>

StartFiles ==
  /\ del.pc = "torrents" /\ del.todo = {}
  /\ del' = [del EXCEPT !.pc = "files", !.todo = IF del.files THEN del.paths ELSE {}]
  /\ UNCHANGED <<episode, lease, job, client, video, poll, overtaken, removed, outcome, lapses>>

(* The file goes with its subtitles and the folders it leaves empty.       *)
DeleteFile(e) ==
  /\ del.pc = "files" /\ e \in del.todo
  /\ video' = video \ {e} /\ removed' = TRUE /\ del' = [del EXCEPT !.todo = @ \ {e}]
  /\ UNCHANGED <<episode, lease, job, client, poll, overtaken, outcome, lapses>>

(* With the series go all its episodes, listed or not.                     *)
DeleteRows ==
  /\ del.pc = "files" /\ del.todo = {}
  /\ episode' = [e \in Episodes |-> [row |-> FALSE, path |-> "none"]]
  /\ del' = [del EXCEPT !.pc = "idle"] /\ outcome' = "done" /\ ReleaseAll
  /\ UNCHANGED <<job, client, video, poll, overtaken, removed, lapses>>

Lapse == lapses.failures > 0 /\ lapses' = [lapses EXCEPT !.failures = @ - 1]

(* A step fails and what was removed stays removed, or the process dies    *)
(* and the leases stay until they expire.                                  *)
DeleteFails ==
  /\ del.pc # "idle" /\ Lapse
  /\ del' = [del EXCEPT !.pc = "idle"] /\ outcome' = "failed"
  /\ ReleaseAll \/ UNCHANGED lease
  /\ UNCHANGED <<episode, job, client, video, poll, overtaken, removed>>

(* A lease runs out after five minutes, whoever still works under it.      *)
LeaseExpires(e) ==
  /\ lease[e] # "free" /\ ~lapses.expired /\ lease' = [lease EXCEPT ![e] = "free"]
  /\ lapses' = [lapses EXCEPT !.expired = TRUE]
  /\ UNCHANGED <<episode, job, client, video, poll, overtaken, del, removed, outcome>>

-------------------------------------------------------------------------------
(* The pipeline and the metadata pass.                                     *)

AddEpisode(e) ==
  /\ Rows # {} /\ e \notin Rows /\ job[e] = "none"
  /\ episode' = [episode EXCEPT ![e].row = TRUE]
  /\ UNCHANGED <<lease, job, client, video, poll, overtaken, del, removed, outcome, lapses>>

StartSearch(e) ==
  /\ e \in Rows /\ lease[e] = "free" /\ job[e] \notin {"active", "imported"}
  /\ lease' = [lease EXCEPT ![e] = "search"]
  /\ UNCHANGED <<episode, job, client, video, poll, overtaken, del, removed, outcome, lapses>>

(* The copy a poll may hold is of an older row.                            *)
GrabRelease(e) ==
  /\ lease[e] = "search" /\ e \in Rows
  /\ client' = client \cup {e} /\ job' = [job EXCEPT ![e] = "active"]
  /\ lease' = [lease EXCEPT ![e] = "free"] /\ poll' = [poll EXCEPT !.rows = @ \ {e}]
  /\ UNCHANGED <<episode, video, overtaken, del, removed, outcome, lapses>>

-------------------------------------------------------------------------------
(* The status loop.                                                        *)

PollReads ==
  /\ poll.pc = "idle" /\ poll' = [poll EXCEPT !.rows = {e \in Episodes : job[e] = "active"}]
  /\ UNCHANGED <<episode, lease, job, client, video, overtaken, del, removed, outcome, lapses>>

(* A row is written back whole, as active or as failed, over whatever      *)
(* became of it since it was read.                                         *)
Overtaking(e) == IF job[e] = "closed" THEN overtaken \cup {e} ELSE overtaken

PollWrites(e) ==
  /\ poll.pc = "idle" /\ e \in poll.rows /\ poll' = [poll EXCEPT !.rows = @ \ {e}]
  /\ \/ job' = [job EXCEPT ![e] = "active"] /\ overtaken' = Overtaking(e)
     \/ job' = [job EXCEPT ![e] = "closed"] /\ UNCHANGED overtaken
  /\ UNCHANGED <<episode, lease, client, video, del, removed, outcome, lapses>>

(* Files of episodes are written under no lease; marking takes it.         *)
StartCopy(e) ==
  /\ poll.pc = "idle" /\ e \in poll.rows \cap client \cap Rows
  /\ job' = [job EXCEPT ![e] = "active"] /\ overtaken' = Overtaking(e)
  /\ poll' = [poll EXCEPT !.pc = "copy", !.rows = @ \ {e}, !.at = e]
  /\ UNCHANGED <<episode, lease, client, video, del, removed, outcome, lapses>>

PlaceFile ==
  /\ poll.pc = "copy" /\ poll' = [poll EXCEPT !.pc = "mark"]
  /\ video' = video \cup {poll.at} /\ overtaken' = Overtaking(poll.at)
  /\ UNCHANGED <<episode, lease, job, client, del, removed, outcome, lapses>>

MarkImport ==
  /\ poll.pc = "mark" /\ poll.at \in Rows /\ lease[poll.at] = "free"
  /\ job' = [job EXCEPT ![poll.at] = "imported"] /\ poll' = [poll EXCEPT !.pc = "idle"]
  /\ episode' = [episode EXCEPT ![poll.at].path = "inside"]
  /\ UNCHANGED <<lease, client, video, overtaken, del, removed, outcome, lapses>>

(* An item that is leased or gone fails the import, which closes the row.  *)
ImportRefused ==
  /\ poll.pc = "mark" /\ (poll.at \notin Rows \/ lease[poll.at] # "free")
  /\ job' = [job EXCEPT ![poll.at] = "closed"] /\ poll' = [poll EXCEPT !.pc = "idle"]
  /\ UNCHANGED <<episode, lease, client, video, overtaken, del, removed, outcome, lapses>>

DeletionStep ==
  \/ ReadJobs \/ CheckDelete \/ MarkRemoved \/ StartFiles \/ DeleteRows
  \/ \E e \in Episodes : LockEpisode(e) \/ RemoveData(e) \/ DeleteFile(e)

DeleteNext ==
  \/ DeletionStep \/ DeleteFails
  \/ \E files, downloads \in BOOLEAN : ListEpisodes(files, downloads)
  \/ \E e \in Episodes : LeaseExpires(e) \/ AddEpisode(e) \/ StartSearch(e) \/ GrabRelease(e)
                          \/ PollWrites(e) \/ StartCopy(e)
  \/ PollReads \/ PlaceFile \/ MarkImport \/ ImportRefused

DeleteSpec == DeleteInit /\ [][DeleteNext]_deleteVars

-------------------------------------------------------------------------------
(* Properties.                                                             *)

DeleteTypeOK ==
  /\ episode \in [Episodes -> [row : BOOLEAN, path : {"none", "inside", "outside"}]]
  /\ lease \in [Episodes -> {"free", "search", "delete"}]
  /\ job \in [Episodes -> {"none", "active", "imported", "closed"}]
  /\ client \subseteq Episodes /\ video \subseteq Episodes /\ overtaken \subseteq Episodes
  /\ poll.pc \in {"idle", "copy", "mark"} /\ poll.rows \subseteq Episodes
  /\ del.pc \in {"idle", "lock", "check", "torrents", "mark", "files"}
  /\ outcome \in {"none", "refused", "failed", "done"}

(* Deletion refuses before it touches anything, and one that succeeded     *)
(* while its leases held left, of the episodes it listed, no torrent when  *)
(* asked to remove downloads, no active grab in any case, and no file it   *)
(* knew of when asked to delete files.  Only the status loop can bring     *)
(* back a row or a file, from what it had read before.                     *)
DeletionIsWhole ==
  /\ outcome = "refused" => ~removed
  /\ outcome = "done" /\ ~lapses.expired =>
       /\ del.downloads => del.listed \cap client = {}
       /\ \A e \in del.listed \ overtaken : job[e] # "active"
       /\ del.files => del.paths \cap video \subseteq overtaken
===============================================================================
