------------------------------- MODULE Lifecycle -------------------------------
(***************************************************************************)
(* What the pipeline promises about items, seen from outside: an item      *)
(* moves along the legal edges, a season pack reserves its episodes in one *)
(* step, an item is imported only with a file in the library, and a failed *)
(* upgrade search falls back to the file already there.  Who moves an item *)
(* and why is left to the modules that implement this one.                 *)
(***************************************************************************)
EXTENDS ItemStates

CONSTANT Items

VARIABLES state,   (* [Items -> ItemState]                              *)
          filed    (* [Items -> BOOLEAN], imported_path is not empty    *)

lifecycleVars == <<state, filed>>

Init ==
  /\ state \in [Items -> {"unmonitored", "wanted", "imported"}]
  /\ filed \in [Items -> BOOLEAN]
  /\ \A i \in Items : state[i] = "imported" => filed[i]

(* Any legal edge but the one into imported, which needs a file. *)
Move(i) ==
  /\ \E to \in Successors[state[i]] \ {"imported"} : state' = [state EXCEPT ![i] = to]
  /\ UNCHANGED filed

(* The searched item and every other wanted item its release supplies. *)
Reserve(i, others) ==
  /\ state[i] = "searching"
  /\ \A o \in others : state[o] = "wanted"
  /\ state' = [x \in Items |-> IF x \in others \cup {i} THEN "grabbed" ELSE state[x]]
  /\ UNCHANGED filed

Import(i) ==
  /\ state[i] = "importing"
  /\ state' = [state EXCEPT ![i] = "imported"]
  /\ filed' = [filed EXCEPT ![i] = TRUE]

(* A failed upgrade search does not invalidate the existing import. *)
KeepImport(i) ==
  /\ state[i] = "searching"
  /\ filed[i]
  /\ state' = [state EXCEPT ![i] = "imported"]
  /\ UNCHANGED filed

Next ==
  \E i \in Items :
    \/ Move(i)
    \/ \E others \in SUBSET Items : Reserve(i, others)
    \/ Import(i)
    \/ KeepImport(i)

Spec == Init /\ [][Next]_lifecycleVars
===============================================================================
