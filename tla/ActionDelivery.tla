---------------------------- MODULE ActionDelivery ----------------------------
(***************************************************************************)
(* What the plugin's durable outbox promises: an action stays in it until  *)
(* Reelay has recorded it.  An action may reach Reelay more than once, and *)
(* a user may take the same action again later.                            *)
(***************************************************************************)
VARIABLES
  pending,   (* the actions in the outbox                                 *)
  done       (* the actions Reelay has recorded at some time              *)

Init == pending = {} /\ done = {}

Enqueue == pending \subseteq pending' /\ UNCHANGED done
Record == done \subseteq done' /\ UNCHANGED pending
Complete ==
  /\ pending' \subseteq pending /\ pending \ pending' \subseteq done
  /\ UNCHANGED done

Next == Enqueue \/ Record \/ Complete

Spec == Init /\ [][Next]_<<pending, done>>
===============================================================================
