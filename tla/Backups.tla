--------------------------------- MODULE Backups ---------------------------------
(***************************************************************************)
(* Scheduled backups (engine/backup.go, store/backup.go): a pass that      *)
(* finds no fresh backup writes a snapshot under a temporary name, renames *)
(* it to the name of its time, and removes all but the newest.  A pass may *)
(* fail or die at any step, and the clock may be set back.                 *)
(***************************************************************************)
EXTENDS Naturals, FiniteSets

CONSTANTS
  End,          (* bound on the clock                                     *)
  Interval,     (* backup_interval                                        *)
  Keep,         (* backup_keep                                            *)
  Troubles      (* bound on failures, crashes and clock settings          *)

ASSUME BackupsAssumption ==
  {End, Interval, Troubles} \subseteq Nat /\ Interval <= End /\ Keep \in Nat \ {0}

VARIABLES
  clock,
  folder,       (* times of the files with a backup's name                *)
  partials,     (* times of the .partial files                            *)
  whole,        (* times of those files, of either kind, that are whole   *)
  pass,         (* [pc, at, prune]: what the running pass still removes   *)
  written,      (* times of all backups ever completed                    *)
  troubles      (* left                                                   *)

backupsVars == <<clock, folder, partials, whole, pass, written, troubles>>

Idle == [pc |-> "idle", at |-> 0, prune |-> {}]
NewerThan(t, times) == {u \in times : u > t}
Newest(n, times) == {t \in times : Cardinality(NewerThan(t, times)) < n}

BackupsInit ==
  /\ clock = Interval /\ folder = {} /\ partials = {} /\ whole = {}
  /\ pass = Idle /\ written = {} /\ troubles = Troubles

-------------------------------------------------------------------------------

(* Partial files of earlier passes are removed first; a fresh backup ends  *)
(* the pass.                                                               *)
StartBackup ==
  LET fresh == \E t \in folder : clock < t + Interval IN
  /\ pass.pc = "idle" /\ partials' = {} /\ whole' = whole \cap folder
  /\ pass' = IF fresh THEN Idle ELSE [Idle EXCEPT !.pc = "reserve", !.at = clock]
  /\ UNCHANGED <<clock, folder, written, troubles>>

(* Mutant: the snapshot is written under its final name. *)
Reserve_Final ==
  /\ pass.pc = "reserve" /\ folder' = folder \cup {pass.at}
  /\ pass' = [pass EXCEPT !.pc = "snapshot"] /\ whole' = whole \ {pass.at}
  /\ UNCHANGED <<clock, partials, written, troubles>>

(* The file is created empty, and must not be there.                       *)
Reserve ==
  /\ pass.pc = "reserve" /\ pass.at \notin partials
  /\ partials' = partials \cup {pass.at} /\ pass' = [pass EXCEPT !.pc = "snapshot"]
  /\ UNCHANGED <<clock, folder, whole, written, troubles>>

Snapshot ==
  /\ pass.pc = "snapshot" /\ whole' = whole \cup {pass.at}
  /\ pass' = [pass EXCEPT !.pc = "rename"]
  /\ UNCHANGED <<clock, folder, partials, written, troubles>>

RenameBackup ==
  /\ pass.pc = "rename"
  /\ folder' = folder \cup {pass.at} /\ partials' = partials \ {pass.at}
  /\ written' = written \cup {pass.at}
  /\ pass' = [pass EXCEPT !.pc = "list"]
  /\ UNCHANGED <<clock, whole, troubles>>

(* All but the Keep newest, by the times in their names.                   *)
ListBackups ==
  /\ pass.pc = "list"
  /\ pass' = [pass EXCEPT !.pc = "prune", !.prune = folder \ Newest(Keep, folder)]
  /\ UNCHANGED <<clock, folder, partials, whole, written, troubles>>

RemoveBackup(t) ==
  /\ pass.pc = "prune" /\ t \in pass.prune
  /\ folder' = folder \ {t} /\ whole' = whole \ {t}
  /\ pass' = [pass EXCEPT !.prune = @ \ {t}]
  /\ UNCHANGED <<clock, partials, written, troubles>>

EndBackup ==
  /\ pass.pc = "prune" /\ pass.prune = {} /\ pass' = Idle
  /\ UNCHANGED <<clock, folder, partials, whole, written, troubles>>

Trouble == troubles > 0 /\ troubles' = troubles - 1

(* A step that fails removes the partial file, a crash leaves it.          *)
BackupFails ==
  /\ pass.pc # "idle" /\ Trouble /\ pass' = Idle
  /\ partials' \in {partials, partials \ {pass.at}}
  /\ whole' = whole \cap (folder \cup partials')
  /\ UNCHANGED <<clock, folder, written>>

TimePasses ==
  /\ clock < End /\ clock' = clock + 1
  /\ UNCHANGED <<folder, partials, whole, pass, written, troubles>>

SetBack ==
  /\ clock > 0 /\ Trouble /\ clock' = clock - 1
  /\ UNCHANGED <<folder, partials, whole, pass, written>>

BackupStep ==
  \/ StartBackup \/ Reserve \/ Snapshot \/ RenameBackup \/ ListBackups \/ EndBackup
  \/ \E t \in folder : RemoveBackup(t)

BackupsNext == BackupStep \/ BackupFails \/ TimePasses \/ SetBack

BackupsSpec == BackupsInit /\ [][BackupsNext]_backupsVars

-------------------------------------------------------------------------------
(* Properties.                                                             *)

BackupsTypeOK ==
  /\ clock \in 0 .. End /\ {folder, partials, whole, written} \subseteq SUBSET (0 .. End)
  /\ pass.pc \in {"idle", "reserve", "snapshot", "rename", "list", "prune"}
  /\ pass.at \in 0 .. End /\ pass.prune \subseteq folder \cup written

(* What has the name of a backup is a whole snapshot, and of all backups   *)
(* that were ever completed the newest ones are kept, wherever passes      *)
(* failed.                                                                 *)
NewestKept == folder \subseteq whole /\ Newest(Keep, written) \subseteq folder
===============================================================================
