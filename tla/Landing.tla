--------------------------------- MODULE Landing ---------------------------------
(***************************************************************************)
(* How the files of one download get into the library                      *)
(* (importer/importer.go, files.go, sidecars.go): each video file is       *)
(* matched to an active episode, or to the movie, what is in its place is  *)
(* recycled, the file is linked, moved or copied there and recorded, and   *)
(* the items are marked imported when all files are in place.  An import   *)
(* that fails closes its grab; one that dies with the process is started   *)
(* again from the first file by a later poll (engine/status.go).           *)
(***************************************************************************)
EXTENDS Naturals, Sequences

CONSTANTS
  Layouts,    (* downloads and settings, see LayoutAssumption             *)
  Setbacks    (* bound on failures and crashes                            *)

NoFile == "no file"

(* walk: the video files in walk order; names: the episode each file names, *)
(* "" when it names none, as a movie's do; size: of these and of the files *)
(* in old, which the library held before; items: the items of the download. *)
ASSUME LayoutAssumption ==
  /\ Setbacks \in Nat
  /\ \A l \in Layouts :
       /\ DOMAIN l = {"walk", "names", "size", "old", "items", "hardlink", "move", "recycle"}
       /\ NoFile \notin DOMAIN l.size
       /\ l.old \in [l.items -> DOMAIN l.size \cup {NoFile}]
       /\ l.walk \in Seq(DOMAIN l.size \cap DOMAIN l.names)

VARIABLES
  layout,     (* the download and the settings                            *)
  download,   (* files still in the download folder                       *)
  shelf,      (* [items -> file or NoFile]: the path each item renders to *)
  part,       (* items with a partial copy beside their path              *)
  bin,        (* files in the recycle folder                              *)
  land,       (* [pc, todo, active, item, filed, marking]                 *)
  status,     (* [items -> {"importing", "imported", "import_failed"}]    *)
  verdict,    (* the grab: "importing", "imported" or "failed"            *)
  erred,      (* the machine refused something during an import           *)
  setbacks    (* left                                                     *)

landingVars == <<layout, download, shelf, part, bin, land, status, verdict, erred, setbacks>>

Files(walk) == {walk[i] : i \in DOMAIN walk}
NoLanding == [pc |-> "idle", todo |-> <<>>, active |-> {}, item |-> "", filed |-> {}]

LandingInit ==
  /\ layout \in Layouts
  /\ download = Files(layout.walk) /\ shelf = layout.old
  /\ part = {} /\ bin = {} /\ land = NoLanding
  /\ status = [i \in layout.items |-> "importing"] /\ setbacks = Setbacks
  /\ verdict = "importing" /\ erred = FALSE

Head1 == Head(land.todo)
NextFile == land' = [land EXCEPT !.pc = "match", !.todo = Tail(@)]

-------------------------------------------------------------------------------
(* Matching.                                                               *)

(* The video files that are in the download still, in walk order.          *)
Videos ==
  LET found[n \in 0 .. Len(layout.walk)] ==
        IF n = 0 THEN <<>>
        ELSE IF layout.walk[n] \in download THEN Append(found[n - 1], layout.walk[n])
        ELSE found[n - 1]
  IN found[Len(layout.walk)]

ActiveItems == {i \in layout.items : status[i] = "importing"}

StartImport ==
  LET active == ActiveItems IN
  /\ verdict = "importing" /\ land.pc = "idle" /\ active # {} /\ Videos # <<>>
  /\ land' = [NoLanding EXCEPT !.pc = "match", !.todo = Videos, !.active = active]
  /\ UNCHANGED <<layout, download, shelf, part, bin, status, verdict, erred, setbacks>>

(* Mutant: an episode that is imported already counts as well. *)
MatchingEpisode_Imported(f) ==
  IF layout.names[f] \in layout.items THEN {layout.names[f]}
  ELSE IF \E i \in land.active : land.active = {i} THEN land.active ELSE {}

(* The episode a file names, if it is active; with a single active item    *)
(* every other file goes to that one, whatever it names.                   *)
MatchingEpisode(f) ==
  IF layout.names[f] \in land.active THEN {layout.names[f]}
  ELSE IF \E i \in land.active : land.active = {i} THEN land.active ELSE {}

(* A file of the same size in its place is taken for the same file, and    *)
(* neither recorded nor given its subtitles.                               *)
SameSize(f, i) == shelf[i] # NoFile /\ layout.size[shelf[i]] = layout.size[f]

Match ==
  /\ land.pc = "match" /\ land.todo # <<>>
  /\ IF MatchingEpisode(Head1) = {} THEN NextFile
     ELSE \E i \in MatchingEpisode(Head1) :
            IF SameSize(Head1, i)
            THEN land' = [land EXCEPT !.todo = Tail(@), !.filed = @ \cup {i}]
            ELSE land' = [land EXCEPT !.item = i,
                            !.pc = IF shelf[i] # NoFile THEN "recycle" ELSE "place"]
  /\ UNCHANGED <<layout, download, shelf, part, bin, status, verdict, erred, setbacks>>

-------------------------------------------------------------------------------
(* Landing a file.                                                         *)

(* Mutant: a file in the recycle folder is overwritten by the next. *)
Recycle_Over ==
  /\ land.pc = "recycle"
  /\ bin' = IF layout.recycle THEN {shelf[land.item]} ELSE bin
  /\ shelf' = [shelf EXCEPT ![land.item] = NoFile]
  /\ land' = [land EXCEPT !.pc = "place"]
  /\ UNCHANGED <<layout, download, part, status, verdict, erred, setbacks>>

(* What was in its place goes to the recycle folder under a free name, or  *)
(* is deleted when there is none.                                          *)
Recycle ==
  /\ land.pc = "recycle"
  /\ bin' = IF layout.recycle THEN bin \cup {shelf[land.item]} ELSE bin
  /\ shelf' = [shelf EXCEPT ![land.item] = NoFile]
  /\ land' = [land EXCEPT !.pc = "place"]
  /\ UNCHANGED <<layout, download, part, status, verdict, erred, setbacks>>

(* Mutant: a part that an earlier import left stands in the way. *)
Place_Exclusive ==
  /\ land.pc = "place"
  /\ IF layout.hardlink \/ layout.move
     THEN /\ shelf' = [shelf EXCEPT ![land.item] = Head1]
          /\ download' = IF layout.hardlink THEN download ELSE download \ {Head1}
          /\ land' = [land EXCEPT !.pc = "record"] /\ UNCHANGED part
     ELSE /\ land.item \notin part /\ part' = part \cup {land.item}
          /\ land' = [land EXCEPT !.pc = "copy"] /\ UNCHANGED <<download, shelf>>
  /\ UNCHANGED <<layout, bin, status, verdict, erred, setbacks>>

(* A hardlink, or a move that takes the file out of the download; else a   *)
(* copy begins beside the path, over what an earlier one may have left.    *)
Place ==
  /\ land.pc = "place"
  /\ IF layout.hardlink \/ layout.move
     THEN /\ shelf' = [shelf EXCEPT ![land.item] = Head1]
          /\ download' = IF layout.hardlink THEN download ELSE download \ {Head1}
          /\ land' = [land EXCEPT !.pc = "record"] /\ UNCHANGED part
     ELSE /\ part' = part \cup {land.item}
          /\ land' = [land EXCEPT !.pc = "copy"] /\ UNCHANGED <<download, shelf>>
  /\ UNCHANGED <<layout, bin, status, verdict, erred, setbacks>>

(* The copy is compared with the file and then renamed into place.         *)
FinishCopy ==
  /\ land.pc = "copy"
  /\ shelf' = [shelf EXCEPT ![land.item] = Head1]
  /\ part' = part \ {land.item}
  /\ land' = [land EXCEPT !.pc = "record"]
  /\ UNCHANGED <<layout, download, bin, status, verdict, erred, setbacks>>

(* The import is recorded and subtitles follow.                            *)
RecordImport ==
  /\ land.pc = "record"
  /\ land' = [land EXCEPT !.pc = "match", !.todo = Tail(@), !.filed = @ \cup {land.item}]
  /\ UNCHANGED <<layout, download, shelf, part, bin, status, verdict, erred, setbacks>>

(* When every active item has a file they are marked imported one by one.  *)
MarkImported(i) ==
  /\ land.pc = "match" /\ land.todo = <<>> /\ land.active \subseteq land.filed
  /\ status[i] = "importing" /\ i \in land.active
  /\ status' = [status EXCEPT ![i] = "imported"]
  /\ land' = IF \A j \in land.active \ {i} : status[j] = "imported" THEN NoLanding ELSE land
  /\ UNCHANGED <<layout, download, shelf, part, bin, verdict, erred, setbacks>>

-------------------------------------------------------------------------------
(* How an import ends.                                                     *)

(* Nothing is left to import: the poll closes the grab.                    *)
CloseGrab ==
  /\ verdict = "importing" /\ land.pc = "idle" /\ ActiveItems = {}
  /\ verdict' = "imported"
  /\ UNCHANGED <<layout, download, shelf, part, bin, land, status, erred, setbacks>>

(* An error closes the grab as failed and marks the items that were not    *)
(* imported yet, but for those that are leased at that moment.             *)
FailImport ==
  /\ verdict' = "failed" /\ land' = NoLanding
  /\ \E marked \in SUBSET ActiveItems :
       status' = [i \in layout.items |-> IF i \in marked THEN "import_failed" ELSE status[i]]

(* The download holds no video at all, or none for an item.                *)
NoMatchingFile ==
  /\ \/ verdict = "importing" /\ land.pc = "idle" /\ ActiveItems # {} /\ Videos = <<>>
     \/ land.pc = "match" /\ land.todo = <<>> /\ ~(land.active \subseteq land.filed)
  /\ FailImport
  /\ UNCHANGED <<layout, download, shelf, part, bin, erred, setbacks>>

(* An error of a file operation, the store or a lease; a copy that fails   *)
(* takes its part with it.                                                 *)
ImportFails ==
  /\ land.pc # "idle" /\ setbacks > 0 /\ setbacks' = setbacks - 1
  /\ FailImport /\ erred' = TRUE
  /\ part' = IF land.pc = "copy" THEN part \ {land.item} ELSE part
  /\ UNCHANGED <<layout, download, shelf, bin>>

(* The process dies: the copy stays where it is, and so do grab and items. *)
ImportDies ==
  /\ land.pc # "idle" /\ setbacks > 0 /\ setbacks' = setbacks - 1
  /\ land' = NoLanding
  /\ UNCHANGED <<layout, download, shelf, part, bin, status, verdict, erred>>

ImportStep ==
  \/ StartImport \/ Match \/ Recycle \/ Place \/ FinishCopy \/ RecordImport
  \/ NoMatchingFile \/ CloseGrab \/ \E i \in layout.items : MarkImported(i)

LandingNext == ImportStep \/ ImportFails \/ ImportDies

LandingSpec == LandingInit /\ [][LandingNext]_landingVars

-------------------------------------------------------------------------------
(* Properties.                                                             *)

LandingTypeOK ==
  /\ download \subseteq Files(layout.walk)
  /\ shelf \in [layout.items -> DOMAIN layout.size \cup {NoFile}]
  /\ part \subseteq layout.items /\ bin \subseteq DOMAIN layout.size
  /\ land.pc \in {"idle", "match", "recycle", "place", "copy", "record"}
  /\ land.active \subseteq layout.items /\ land.filed \subseteq land.active
  /\ status \in [layout.items -> {"importing", "imported", "import_failed"}]
  /\ verdict \in {"importing", "imported", "failed"} /\ erred \in BOOLEAN

(* With a recycle folder no file is ever gone: whatever fails, it is in    *)
(* the download, in the library or in the recycle folder.                  *)
NothingDeleted ==
  layout.recycle =>
    Files(layout.walk) \cup ({layout.old[i] : i \in layout.items} \ {NoFile})
      \subseteq download \cup {shelf[i] : i \in layout.items} \cup bin

(* A file that was moved away cannot be found again by a later import.     *)
Repeatable == layout.hardlink \/ ~layout.move

(* The import has ended, as failed only after an error or for want of a    *)
(* file that was moved away; it is closed as imported with all its items.  *)
ImportSettled ==
  /\ verdict # "importing"
  /\ verdict = "failed" => erred \/ ~Repeatable
  /\ verdict = "imported" => \A i \in layout.items : status[i] = "imported"

(* The importer says that downloading a pack never grants permission to    *)
(* add the files of unmonitored episodes to the library: a file that names *)
(* an episode is in no other episode's place.                              *)
FilesOfOthersStayOut ==
  \A i \in layout.items :
    shelf[i] \in DOMAIN layout.names => layout.names[shelf[i]] \in {i, ""}
===============================================================================
