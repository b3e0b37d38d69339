------------------------------- MODULE Discover -------------------------------
(***************************************************************************)
(* Recommendations between Reelay and Jellyfin: the generator              *)
(* (recommendation/service.go) and the plugin's action monitor with its    *)
(* durable outbox and its virtual library (Services/ActionMonitor.cs,      *)
(* ActionOutbox.cs, VirtualLibraryManager.cs).  A mark a user puts on a    *)
(* virtual title becomes an action with an id made of the recommendation's *)
(* number and the choice.                                                  *)
(***************************************************************************)
EXTENDS ActionApi, Sequences, SequencesExt

VARIABLES
  generation,   (* [pc, user, excluded]: the generator                    *)
  outbox,       (* Seq([rid, aid, act]), written through to disk          *)
  monitor,      (* one check: [pc, back, queue, users, user, media,       *)
                (* listed, todo, acted, h]                                *)
  shown,        (* SUBSET Keys, virtual titles on disk                    *)
  mark,         (* [Keys -> {"", "request", "rate", "dismiss"}]           *)
  recorded      (* ids of actions Reelay has recorded, ever               *)

pluginVars == <<outbox, monitor, shown, mark>>
discoverVars == <<generation, pluginVars, recorded>>

NoGeneration == [pc |-> "idle", user |-> CHOOSE u \in Users : TRUE, excluded |-> {}]
NoCheck == [pc |-> "idle", back |-> "idle", queue |-> <<>>, users |-> {},
            user |-> CHOOSE u \in Users : TRUE, media |-> "series", listed |-> {}, todo |-> {},
            acted |-> FALSE, h |-> CHOOSE h \in Handlers : TRUE]

MarkActs == {"request", "rate", "dismiss"}
Of(u, media) == {u} \X (IF media = "movie" THEN Movies ELSE {Show})
Active(u, media) == {k \in Of(u, media) : recs[k].st = "active"}
Action(k, act) == [rid |-> recs[k].id, aid |-> <<recs[k].id, act>>, act |-> act]

(* The action ids the tables hold, kept for good: a rating's row has that  *)
(* of the last time the title was rated.                                   *)
Remember ==
  LET rating == {h \in Handlers : /\ call[h].pc = "record" /\ call[h].act = "rate"
                                  /\ call'[h].pc = "ok" /\ RecOf(call[h].rid) \in rated'} IN
  recorded' = recorded \cup {f.aid : f \in feedback'} \cup {call[h].aid : h \in rating}

-------------------------------------------------------------------------------
(* Reading what to leave out and replacing the list are far apart: the     *)
(* metadata provider is asked in between.                                  *)

GenerateRead(u) ==
  /\ generation.pc = "idle"
  /\ generation' = [pc |-> "rank", user |-> u, excluded |-> Excluded(u)]
  /\ UNCHANGED <<tables, call, pluginVars, recorded>>

GenerateReplace(offered) ==
  LET u == generation.user IN
  /\ generation.pc = "rank" /\ offered \subseteq Titles \ generation.excluded
  /\ Replace(u, Titles, offered)
  /\ generation' = NoGeneration
  /\ UNCHANGED <<feedback, rated, subjectVars, requestVars, syncVars, call, pluginVars, recorded>>

GenerateFail ==
  /\ generation.pc = "rank" /\ generation' = NoGeneration
  /\ UNCHANGED <<tables, call, pluginVars, recorded>>

(* Recommendations nobody acted on expire.                                 *)
Prune(k) ==
  /\ generation.pc = "idle" /\ recs[k].st = "active"
  /\ recs' = [recs EXCEPT ![k] = NoRec]
  /\ UNCHANGED <<feedback, rated, subjectVars, requestVars, syncVars, call,
                 generation, pluginVars, recorded>>

-------------------------------------------------------------------------------
(* A check sends what the outbox held, then turns marks into actions user  *)
(* by user.  The first error ends it until the next minute.                *)

Mark(k, act) ==
  /\ k \in shown /\ mark[k] = ""
  /\ mark' = [mark EXCEPT ![k] = act]
  /\ UNCHANGED <<tables, call, generation, outbox, monitor, shown, recorded>>

BeginCheck(enabled) ==
  /\ monitor.pc = "idle"
  /\ monitor' = [NoCheck EXCEPT !.pc = "flush", !.queue = outbox, !.users = enabled]
  /\ UNCHANGED <<tables, call, generation, outbox, shown, mark, recorded>>

(* An action goes to a handler; the check waits and then goes on.          *)
Send(h, a) ==
  /\ Receive(h, a.rid, a.aid, a.act, NoScope)
  /\ monitor' = [monitor EXCEPT !.pc = "sent", !.back = monitor.pc, !.h = h,
       !.queue = IF monitor.pc = "scan" THEN <<a>> ELSE @,
       !.todo = {r \in @ : r.id # a.rid}, !.acted = monitor.pc = "scan"]

SendQueued(h) ==
  /\ monitor.pc = "flush" /\ monitor.queue # <<>>
  /\ Send(h, Head(monitor.queue))
  /\ UNCHANGED <<tables, generation, outbox, shown, mark, recorded>>

(* The titles of a user are gone through movies first, then series.        *)
ListActive(u, media) ==
  LET listed == {[key |-> k, id |-> recs[k].id] : k \in Active(u, media)} IN
  /\ monitor.pc = "flush" /\ monitor.queue = <<>> /\ monitor.media # media
  /\ IF media = "movie" THEN u \in monitor.users ELSE u = monitor.user
  /\ monitor' = [monitor EXCEPT !.pc = "scan", !.users = @ \ {u}, !.user = u, !.media = media,
       !.listed = listed, !.acted = FALSE,
       !.todo = {r \in listed : r.key \in shown /\ mark[r.key] # ""}]
  /\ UNCHANGED <<tables, call, generation, outbox, shown, mark, recorded>>

(* The action is on disk before it is sent.                                *)
SendMark(h, r) ==
  LET a == [rid |-> r.id, aid |-> <<r.id, mark[r.key]>>, act |-> mark[r.key]] IN
  /\ monitor.pc = "scan" /\ r \in monitor.todo
  /\ outbox' = IF \E i \in DOMAIN outbox : outbox[i].aid = a.aid
               THEN outbox ELSE Append(outbox, a)
  /\ Send(h, a)
  /\ UNCHANGED <<tables, generation, shown, mark, recorded>>

(* What is left of a list without the actions of an id.                    *)
RemoveAll(list, aid) ==
  LET kept[n \in 0 .. Len(list)] ==
        IF n = 0 THEN <<>>
        ELSE IF list[n].aid = aid THEN kept[n - 1] ELSE Append(kept[n - 1], list[n])
  IN kept[Len(list)]

Without(a) == RemoveAll(outbox, a.aid)

(* Mutant: an answer completes its action whatever it says. *)
Answered_Any ==
  /\ monitor.pc = "sent" /\ call[monitor.h].pc \in {"ok", "error"}
  /\ outbox' = Without(Head(monitor.queue))
  /\ monitor' = [monitor EXCEPT !.queue = Tail(@), !.pc = monitor.back]
  /\ Return(monitor.h)
  /\ UNCHANGED <<tables, generation, shown, mark, recorded>>

(* Mutant: an action that was done stays in the outbox. *)
Answered_Kept ==
  /\ monitor.pc = "sent" /\ call[monitor.h].pc \in {"ok", "error"}
  /\ monitor' = [monitor EXCEPT !.queue = Tail(@), !.pc = monitor.back]
  /\ Return(monitor.h)
  /\ UNCHANGED <<tables, generation, outbox, shown, mark, recorded>>

Answered ==
  /\ monitor.pc = "sent" /\ call[monitor.h].pc \in {"ok", "error"}
  /\ IF call[monitor.h].pc = "ok"
     THEN /\ outbox' = Without(Head(monitor.queue))
          /\ monitor' = [monitor EXCEPT !.queue = Tail(@), !.pc = monitor.back]
     ELSE monitor' = NoCheck /\ UNCHANGED outbox
  /\ Return(monitor.h)
  /\ UNCHANGED <<tables, generation, shown, mark, recorded>>

(* An answer is lost, the client's timeout ends, or the plugin restarts;   *)
(* the handler of a client that is gone goes on until it notices.          *)
LoseAnswer ==
  /\ monitor.pc # "idle"
  /\ monitor' = NoCheck
  /\ UNCHANGED <<tables, call, generation, outbox, shown, mark, recorded>>

(* A handler nobody waits for any more.                                    *)
Forget(h) ==
  /\ call[h].pc \in {"ok", "error"} /\ (monitor.pc # "sent" \/ monitor.h # h)
  /\ Return(h)
  /\ UNCHANGED <<tables, generation, pluginVars, recorded>>

(* The virtual movies or series of the user become what was listed, or     *)
(* what is active now when the check acted on something; a title that      *)
(* is gone takes its mark with it.                                         *)
RefreshVirtual ==
  LET own == Of(monitor.user, monitor.media)
      offered == IF monitor.acted THEN Active(monitor.user, monitor.media)
                 ELSE {r.key : r \in monitor.listed} IN
  /\ monitor.pc = "scan" /\ monitor.todo = {}
  /\ shown' = (shown \ own) \cup offered
  /\ mark' = [k \in Keys |-> IF k \in shown' THEN mark[k] ELSE ""]
  /\ monitor' = IF monitor.users = {} /\ monitor.media = "series" THEN NoCheck
                ELSE [monitor EXCEPT !.pc = "flush", !.listed = {}]
  /\ UNCHANGED <<tables, call, generation, outbox, recorded>>

MonitorStep(enabled) ==
  \/ BeginCheck(enabled) \/ Answered \/ RefreshVirtual
  \/ \E h \in Handlers : SendQueued(h) \/ \E r \in monitor.todo : SendMark(h, r)
  \/ \E u \in Users, media \in {"movie", "series"} : ListActive(u, media)
===============================================================================
