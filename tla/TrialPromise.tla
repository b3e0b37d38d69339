----------------------------- MODULE TrialPromise -----------------------------
(***************************************************************************)
(* What a trial promises its requester: the episodes chosen for it only    *)
(* grow while it is open, it counts only episodes chosen for it as seen,   *)
(* and it ends by one vote, which waits until all of them are seen.        *)
(***************************************************************************)
EXTENDS FiniteSets, Naturals

CONSTANTS Requesters, Parts

VARIABLES
  stage,   (* [Requesters -> {"none", "open", "continue", "stop"}]        *)
  due,     (* [Requesters -> SUBSET Parts]                                *)
  seen     (* [Requesters -> SUBSET Parts]                                *)

Init ==
  /\ stage = [u \in Requesters |-> "none"]
  /\ due = [u \in Requesters |-> {}]
  /\ seen = [u \in Requesters |-> {}]

Start(u) ==
  /\ stage[u] = "none"
  /\ stage' = [stage EXCEPT ![u] = "open"]
  /\ UNCHANGED <<due, seen>>

Choose ==
  /\ due' \in [Requesters -> SUBSET Parts]
  /\ \A u \in Requesters : due[u] \subseteq due'[u] /\ (stage[u] = "open" \/ due'[u] = due[u])
  /\ UNCHANGED <<stage, seen>>

See(u, e) ==
  /\ stage[u] = "open" /\ e \in due[u]
  /\ seen' = [seen EXCEPT ![u] = @ \cup {e}]
  /\ UNCHANGED <<stage, due>>

Vote(u) ==
  /\ stage[u] = "open" /\ due[u] # {} /\ seen[u] = due[u]
  /\ \E decision \in {"continue", "stop"} : stage' = [stage EXCEPT ![u] = decision]
  /\ UNCHANGED <<due, seen>>

Next ==
  \/ Choose
  \/ \E u \in Requesters : Start(u) \/ Vote(u) \/ \E e \in Parts : See(u, e)

Spec == Init /\ [][Next]_<<stage, due, seen>>
===============================================================================
