------------------------------- MODULE EngineLoops -------------------------------
(***************************************************************************)
(* How work asked for over the API reaches an engine loop (engine.go       *)
(* Trigger and Run), and how the loop's events reach the browsers          *)
(* (events.go, api/live.go).  A trigger goes through a channel of one, an  *)
(* event into the buffer of each subscriber under a read lock; neither     *)
(* waits for its receiver.                                                 *)
(***************************************************************************)
EXTENDS Naturals, FiniteSets

CONSTANTS
  Works,        (* things to do, each asked for once                      *)
  Clients,
  MaxClients,
  Buffer        (* 32 in the code                                         *)

ASSUME LoopsAssumption == MaxClients \in Nat /\ Buffer \in Nat \ {0}

VARIABLES
  work,         (* [Works -> {"none", "due", "done"}] in the store        *)
  asked,        (* stored, its trigger not yet sent                       *)
  trigger,      (* the channel holds a trigger                            *)
  loop,         (* [pc, batch, sending]: sending, the clients Publish has *)
                (* not come to, while it holds the read lock              *)
  browser,      (* [Clients -> [state, buffered]]                         *)
  stopping      (* the context is cancelled                               *)

loopsVars == <<work, asked, trigger, loop, browser, stopping>>

Subscribed == {c \in Clients : browser[c].state = "subscribed"}

LoopsInit ==
  /\ work = [w \in Works |-> "none"] /\ asked = {} /\ trigger = FALSE
  /\ loop = [pc |-> "waiting", batch |-> {}, sending |-> {}]
  /\ browser = [c \in Clients |-> [state |-> "away", buffered |-> 0]]
  /\ stopping = FALSE

-------------------------------------------------------------------------------
(* Triggers and the loop.                                                  *)

StoreWork(w) ==
  /\ work[w] = "none"
  /\ work' = [work EXCEPT ![w] = "due"] /\ asked' = asked \cup {w}
  /\ UNCHANGED <<trigger, loop, browser, stopping>>

Trigger(w) ==
  /\ w \in asked /\ asked' = asked \ {w} /\ trigger' = TRUE
  /\ UNCHANGED <<work, loop, browser, stopping>>

GotoLoop(pc) == loop' = [loop EXCEPT !.pc = pc]

Wake ==
  /\ loop.pc = "waiting" /\ trigger /\ trigger' = FALSE /\ GotoLoop("reading")
  /\ UNCHANGED <<work, asked, browser, stopping>>

(* The timer, which no property counts on.                                 *)
TickLoop ==
  /\ loop.pc = "waiting" /\ GotoLoop("reading")
  /\ UNCHANGED <<work, asked, trigger, browser, stopping>>

ReadWork ==
  /\ loop.pc = "reading"
  /\ loop' = [loop EXCEPT !.pc = "handling", !.batch = {w \in Works : work[w] = "due"}]
  /\ UNCHANGED <<work, asked, trigger, browser, stopping>>

(* One thing is done and published: the read lock is taken.                *)
Handle(w) ==
  /\ loop.pc = "handling" /\ w \in loop.batch
  /\ work' = [work EXCEPT ![w] = "done"]
  /\ loop' = [pc |-> "publishing", batch |-> loop.batch \ {w}, sending |-> Subscribed]
  /\ UNCHANGED <<asked, trigger, browser, stopping>>

(* Mutant: Publish waits for the client. *)
SendEvent_Blocking(c) ==
  /\ loop.pc = "publishing" /\ c \in loop.sending /\ browser[c].buffered < Buffer
  /\ loop' = [loop EXCEPT !.sending = @ \ {c}]
  /\ browser' = [browser EXCEPT ![c].buffered = @ + 1]
  /\ UNCHANGED <<work, asked, trigger, stopping>>

SendEvent(c) ==
  /\ loop.pc = "publishing" /\ c \in loop.sending
  /\ loop' = [loop EXCEPT !.sending = @ \ {c}]
  /\ browser' = IF browser[c].buffered < Buffer
               THEN [browser EXCEPT ![c].buffered = @ + 1] ELSE browser
  /\ UNCHANGED <<work, asked, trigger, stopping>>

EndPublish ==
  /\ loop.pc = "publishing" /\ loop.sending = {} /\ GotoLoop("handling")
  /\ UNCHANGED <<work, asked, trigger, browser, stopping>>

(* The pass is over, or cancelled.                                         *)
EndPass ==
  /\ loop.pc = "handling" /\ (loop.batch = {} \/ stopping)
  /\ loop' = [loop EXCEPT !.pc = "waiting", !.batch = {}]
  /\ UNCHANGED <<work, asked, trigger, browser, stopping>>

Shutdown ==
  /\ ~stopping /\ stopping' = TRUE
  /\ UNCHANGED <<work, asked, trigger, loop, browser>>

LoopEnds ==
  /\ stopping /\ loop.pc = "waiting" /\ GotoLoop("ended")
  /\ UNCHANGED <<work, asked, trigger, browser, stopping>>

-------------------------------------------------------------------------------
(* Browsers.  Subscribing and leaving take the write lock.                 *)

Subscribe(c) ==
  /\ browser[c].state = "away" /\ loop.pc # "publishing"
  /\ Cardinality(Subscribed) < MaxClients
  /\ browser' = [browser EXCEPT ![c].state = "subscribed"]
  /\ UNCHANGED <<work, asked, trigger, loop, stopping>>

ReadEvent(c) ==
  /\ browser[c].state = "subscribed" /\ browser[c].buffered > 0
  /\ browser' = [browser EXCEPT ![c].buffered = @ - 1]
  /\ UNCHANGED <<work, asked, trigger, loop, stopping>>

Unsubscribe(c) ==
  /\ browser[c].state = "subscribed" /\ loop.pc # "publishing"
  /\ browser' = [browser EXCEPT ![c] = [state |-> "closed", buffered |-> 0]]
  /\ UNCHANGED <<work, asked, trigger, loop, stopping>>

LoopStep ==
  \/ Wake \/ ReadWork \/ EndPublish \/ EndPass \/ LoopEnds
  \/ \E w \in Works : Trigger(w) \/ Handle(w)
  \/ \E c \in Clients : SendEvent(c)

LoopsNext ==
  \/ LoopStep \/ TickLoop \/ Shutdown
  \/ \E w \in Works : StoreWork(w)
  \/ \E c \in Clients : Subscribe(c) \/ ReadEvent(c) \/ Unsubscribe(c)

LoopsSpec == LoopsInit /\ [][LoopsNext]_loopsVars

-------------------------------------------------------------------------------
(* Properties.                                                             *)

LoopsTypeOK ==
  /\ work \in [Works -> {"none", "due", "done"}] /\ asked \subseteq Works
  /\ trigger \in BOOLEAN /\ stopping \in BOOLEAN
  /\ loop \in [pc : {"waiting", "reading", "handling", "publishing", "ended"},
               batch : SUBSET Works, sending : SUBSET Clients]
  /\ browser \in [Clients -> [state : {"away", "subscribed", "closed"}, buffered : 0 .. Buffer]]

Due(w) == work[w] = "due"

(* What becomes of it, unless the engine stops.                            *)
DoneOrStopped(w) == work[w] = "done" \/ stopping
===============================================================================
