------------------------------- MODULE ItemLocks -------------------------------
(***************************************************************************)
(* The leased advisory locks on items (store/locks.go).  A lease is a row  *)
(* in item_locks with an owner name and an expiry time; the client keeps   *)
(* an ItemLock value with the same name and time.  Nothing tells a client  *)
(* that its lease has run out, and Release deletes by name alone.          *)
(*                                                                         *)
(* Times are kept as what is left of them, in ticks.                       *)
(***************************************************************************)
EXTENDS Integers

CONSTANTS
  Items,
  Lessees,    (* goroutines that lease items                              *)
  OwnerOf,    (* [Lessees -> Owners], the name each passes to Acquire;    *)
              (* several share one                                        *)
  Owners,
  NoOwner,    (* no row                                                   *)
  TtlOf,      (* [Lessees -> ticks]                                       *)
  Renewers    (* the clients that renew; no caller in the program does    *)

ASSUME LocksAssumption ==
  /\ OwnerOf \in [Lessees -> Owners]
  /\ NoOwner \notin Owners
  /\ TtlOf \in [Lessees -> Nat \ {0}]

VARIABLES
  owner,      (* [Items -> Owners + NoOwner], the rows                    *)
  remaining,  (* [Items -> Nat], what is left of each row's time          *)
  handle,     (* [Lessees -> SUBSET Items], the ItemLock values           *)
  believed,   (* [Lessees -> [Items -> Nat]], what is left of theirs      *)
  robbed      (* history: the handles, as <<client, item>>, whose row     *)
              (* another client may have deleted or renewed by its name   *)

locksVars == <<owner, remaining, handle, believed, robbed>>

LocksInit ==
  /\ owner = [i \in Items |-> NoOwner]
  /\ remaining = [i \in Items |-> 0]
  /\ handle = [c \in Lessees |-> {}]
  /\ believed = [c \in Lessees |-> [i \in Items |-> 0]]
  /\ robbed = {}

Namesakes(c, i) == {<<d, i>> : d \in {d \in Lessees \ {c} : OwnerOf[d] = OwnerOf[c] /\ i \in handle[d]}}

SetLease(c, i) ==
  /\ remaining' = [remaining EXCEPT ![i] = TtlOf[c]]
  /\ believed' = [believed EXCEPT ![c][i] = TtlOf[c]]

(* Mutant: the row is replaced, not ignored. *)
Vacant_Always(i) == TRUE

(* No row, or an expired one, which Acquire deletes first.                 *)
Vacant(i) == owner[i] = NoOwner \/ remaining[i] = 0

Acquire(c, i) ==
  /\ i \notin handle[c]
  /\ Vacant(i)
  /\ owner' = [owner EXCEPT ![i] = OwnerOf[c]]
  /\ handle' = [handle EXCEPT ![c] = @ \cup {i}]
  /\ SetLease(c, i)
  /\ UNCHANGED robbed

Renew(c, i) ==
  /\ c \in Renewers /\ i \in handle[c]
  /\ owner[i] = OwnerOf[c] /\ remaining[i] > 0
  /\ SetLease(c, i) /\ robbed' = robbed \cup Namesakes(c, i)
  /\ UNCHANGED <<owner, handle>>

(* Mutant: deletes the row whoever owns it. *)
Deletes_Any(c, i) == TRUE

(* Release deletes the row that carries its owner name, expired or not.    *)
Deletes(c, i) == owner[i] = OwnerOf[c]

Release(c, i) ==
  /\ i \in handle[c]
  /\ owner' = IF Deletes(c, i) THEN [owner EXCEPT ![i] = NoOwner] ELSE owner
  /\ handle' = [handle EXCEPT ![c] = @ \ {i}]
  /\ believed' = [believed EXCEPT ![c][i] = 0]
  /\ robbed' = (IF Deletes(c, i) THEN robbed \cup Namesakes(c, i) ELSE robbed) \ {<<c, i>>}
  /\ UNCHANGED remaining

(* The DELETE fails, which no caller looks at: the row stays.              *)
ReleaseFails(c, i) ==
  /\ i \in handle[c]
  /\ handle' = [handle EXCEPT ![c] = @ \ {i}]
  /\ believed' = [believed EXCEPT ![c][i] = 0]
  /\ robbed' = robbed \ {<<c, i>>}
  /\ UNCHANGED <<owner, remaining>>

(* The goroutine is gone; its rows stay.                                   *)
HolderDies(c) ==
  /\ handle[c] # {}
  /\ handle' = [handle EXCEPT ![c] = {}]
  /\ believed' = [believed EXCEPT ![c] = [i \in Items |-> 0]]
  /\ robbed' = robbed \ ({c} \X Items)
  /\ UNCHANGED <<owner, remaining>>

OneLess(t) == IF t = 0 THEN 0 ELSE t - 1

LeaseTick ==
  /\ remaining' = [i \in Items |-> OneLess(remaining[i])]
  /\ believed' = [c \in Lessees |-> [i \in Items |-> OneLess(believed[c][i])]]
  /\ UNCHANGED <<owner, handle, robbed>>

LocksNext ==
  \/ \E c \in Lessees, i \in Items :
       Acquire(c, i) \/ Renew(c, i) \/ Release(c, i) \/ ReleaseFails(c, i)
  \/ \E c \in Lessees : HolderDies(c)
  \/ LeaseTick

LocksSpec == LocksInit /\ [][LocksNext]_locksVars

-------------------------------------------------------------------------------
(* Every table and every handle holds a value of its type.                 *)
LocksTypeOK ==
  /\ owner \in [Items -> Owners \cup {NoOwner}]
  /\ remaining \in [Items -> Nat]
  /\ handle \in [Lessees -> SUBSET Items]
  /\ believed \in [Lessees -> [Items -> Nat]]
  /\ robbed \subseteq Lessees \X Items

(* A client that has not released and whose time has not run out takes     *)
(* itself to be entitled to act on the item.                               *)
Entitled(c, i) == i \in handle[c] /\ believed[c][i] > 0

(* Two clients never take themselves to be entitled to one item, whatever  *)
(* expires and however late a stale holder releases - unless a namesake of *)
(* one of them has released or renewed its lease for it.                   *)
LeaseExclusion ==
  \A i \in Items : \A c, d \in Lessees :
    Entitled(c, i) /\ Entitled(d, i) => c = d \/ <<c, i>> \in robbed \/ <<d, i>> \in robbed

(* A live lease has its row: only a namesake's Release or Renew takes it.  *)
LiveLeaseHasRow ==
  \A c \in Lessees, i \in Items :
    Entitled(c, i) /\ <<c, i>> \notin robbed
      => owner[i] = OwnerOf[c] /\ remaining[i] = believed[c][i]
===============================================================================
