------------------------------ MODULE ItemStates ------------------------------
(***************************************************************************)
(* The lifecycle of one wanted thing, an episode or a movie, and of one    *)
(* handoff to the download client: src/internal/model/model.go.  Nothing   *)
(* here has state; every other module takes its states and edges from it.  *)
(***************************************************************************)

ItemState == {"unmonitored", "wanted", "searching", "grabbed", "downloading",
              "importing", "imported", "import_failed", "failed"}

(* Mid-flight: the status loop should be watching the item. *)
ActiveState == {"grabbed", "downloading", "importing"}

(* The legal edges, other than staying put. *)
Successors ==
  [s \in ItemState |->
     CASE s = "unmonitored"   -> {"wanted"}
       [] s = "wanted"        -> {"searching", "unmonitored", "failed"}
       [] s = "searching"     -> {"grabbed", "wanted", "failed", "unmonitored"}
       [] s = "grabbed"       -> {"downloading", "wanted", "unmonitored"}
       [] s = "downloading"   -> {"importing", "wanted", "unmonitored"}
       [] s = "importing"     -> {"imported", "import_failed"}
       [] s = "import_failed" -> {"wanted", "failed", "unmonitored"}
       [] s = "imported"      -> {"wanted", "unmonitored"}
       [] s = "failed"        -> {"wanted", "unmonitored"}]

CanTransitionTo(from, to) == from = to \/ to \in Successors[from]

GrabState == {"pending", "downloading", "completed", "importing",
              "imported", "stalled", "removed", "failed"}

(* The states the partial unique index and the status loop select. *)
ActiveGrab == {"pending", "downloading", "completed", "importing"}
===============================================================================
