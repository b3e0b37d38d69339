----------------------------- MODULE Availability -----------------------------
(***************************************************************************)
(* The library Jellyfin reports and the notices about it: the plugin's     *)
(* synchronisation (Services/SyncService.cs), the handler that takes its   *)
(* messages (api/recommendations.go) and the worker that delivers notices  *)
(* (engine/notifications.go).  The plugin waits for each answer but gives  *)
(* up after its timeout, so a message may be handled after its run ended.  *)
(***************************************************************************)
EXTENDS RequestStore

CONSTANTS
  Tokens,       (* synchronisation tokens, numbers; a run takes a new one *)
  BatchSize     (* items in a message                                     *)

ASSUME AvailabilityAssumption ==
  Tokens \subseteq Nat /\ NoToken \notin Tokens /\ BatchSize \in Nat \ {0}

VARIABLES
  library,    (* SUBSET JellyfinItems, what Jellyfin holds                *)
  run,        (* [pc, token, todo]: the plugin's synchronisation          *)
  wire,       (* SUBSET [token, batch, complete]: requests on their way   *)
  worker,     (* [pc, id, key, sent]: the notification worker             *)
  posted      (* [Keys -> Nat]: notices the endpoint has accepted         *)

libraryVars == <<library, run, wire>>
workerVars == <<worker, posted>>
availVars == <<libraryVars, workerVars>>

NoRun == [pc |-> "idle", token |-> NoToken, todo |-> {}]
Resting == [pc |-> "idle", id |-> 0, key |-> CHOOSE k \in Keys : TRUE, sent |-> FALSE]

TokensInUse == {item[i].token : i \in JellyfinItems} \cup {m.token : m \in wire}
Present == {i \in JellyfinItems : item[i].present}

-------------------------------------------------------------------------------
(* A run takes a snapshot of the library, sends it batch by batch and then *)
(* says that it is complete.                                               *)

BeginSync(t) ==
  /\ run.pc = "idle"
  /\ t \in Tokens \ TokensInUse /\ \A s \in Tokens \ TokensInUse : t <= s
  /\ run' = [pc |-> "send", token |-> t, todo |-> library]
  /\ UNCHANGED <<tables, library, wire, workerVars>>

SendBatch(batch) ==
  /\ run.pc = "send" /\ batch # {} /\ batch \subseteq run.todo
  /\ Cardinality(batch) = AtMost(BatchSize, Cardinality(run.todo))
  /\ wire' = wire \cup {[token |-> run.token, batch |-> batch, complete |-> FALSE]}
  /\ run' = [run EXCEPT !.pc = "wait", !.todo = @ \ batch]
  /\ UNCHANGED <<tables, library, workerVars>>

SendComplete ==
  /\ run.pc = "send" /\ run.todo = {}
  /\ wire' = wire \cup {[token |-> run.token, batch |-> {}, complete |-> TRUE]}
  /\ run' = [run EXCEPT !.pc = "last"]
  /\ UNCHANGED <<tables, library, workerVars>>

(* The answer lets the run go on, if it still waits for it.                *)
Handled(m) ==
  /\ wire' = wire \ {m}
  /\ run' = IF run.token # m.token THEN run
            ELSE IF m.complete THEN NoRun ELSE [run EXCEPT !.pc = "send"]

HandleBatch(m) ==
  /\ m \in wire /\ ~m.complete
  /\ UpsertItems(m.batch, m.token) /\ Handled(m)
  /\ UNCHANGED <<recVars, subjectVars, requestVars, notice, library, workerVars>>

HandleComplete(m) ==
  /\ m \in wire /\ m.complete
  /\ CompleteSync(m.token) /\ Handled(m)
  /\ UNCHANGED <<recVars, subjectVars, requestVars, library, workerVars>>

(* A request is lost or refused: the run ends with an error.               *)
LoseMessage(m) ==
  /\ m \in wire
  /\ wire' = wire \ {m}
  /\ run' = IF run.token = m.token THEN NoRun ELSE run
  /\ UNCHANGED <<tables, library, workerVars>>

(* The plugin's timeout ends the run; its message is still on its way, and *)
(* the next run may start before it is handled.                            *)
GiveUp ==
  /\ run.pc \in {"wait", "last"}
  /\ run' = NoRun
  /\ UNCHANGED <<tables, library, wire, workerVars>>

ChangeLibrary(i) ==
  /\ library' = IF i \in library THEN library \ {i} ELSE library \cup {i}
  /\ UNCHANGED <<tables, run, wire, workerVars>>

-------------------------------------------------------------------------------
(* The worker: claim, post, finish.                                        *)

Claim(k) ==
  /\ worker.pc = "idle"
  /\ ClaimNotification(k)
  /\ worker' = [pc |-> "post", id |-> notice[k].id, key |-> k, sent |-> FALSE]
  /\ UNCHANGED <<recVars, subjectVars, requestVars, item, libraryVars, posted>>

(* The endpoint accepts the notice or refuses it.  The worker hears of     *)
(* that only if the answer comes within its ten seconds: a notice that was *)
(* accepted without an answer counts as failed and is posted again.        *)
Post(accepted, answered) ==
  /\ worker.pc = "post"
  /\ worker' = [worker EXCEPT !.pc = "finish", !.sent = accepted /\ answered]
  /\ posted' = IF accepted THEN [posted EXCEPT ![worker.key] = @ + 1] ELSE posted
  /\ UNCHANGED <<tables, libraryVars>>

(* Mutant: a refused notice counts as delivered. *)
Finish_Any ==
  /\ worker.pc = "finish"
  /\ FinishNotification(worker.id, FALSE)
  /\ worker' = Resting
  /\ UNCHANGED <<recVars, subjectVars, requestVars, item, libraryVars, posted>>

Finish ==
  /\ worker.pc = "finish"
  /\ FinishNotification(worker.id, ~worker.sent)
  /\ worker' = Resting
  /\ UNCHANGED <<recVars, subjectVars, requestVars, item, libraryVars, posted>>

(* The process dies or the row cannot be written; the claim runs out.      *)
Abandon ==
  /\ worker.pc # "idle"
  /\ worker' = Resting
  /\ UNCHANGED <<tables, libraryVars, posted>>

(* A claim or a delay is over.  A post takes ten seconds at most and a     *)
(* claim lasts a minute, so the worker's own claim does not run out.       *)
ComeDue(k) ==
  /\ notice[k].st = "waiting"
  /\ worker.pc = "idle" \/ worker.key # k
  /\ notice' = [notice EXCEPT ![k].st = "due"]
  /\ UNCHANGED <<recVars, subjectVars, requestVars, item, availVars>>

AvailStep ==
  \/ \E t \in Tokens : BeginSync(t)
  \/ \E batch \in SUBSET run.todo : SendBatch(batch)
  \/ SendComplete
  \/ \E m \in wire : HandleBatch(m) \/ HandleComplete(m)

WorkerStep == (\E k \in Keys : Claim(k)) \/ Finish
===============================================================================
