-------------------------------- MODULE Indexers --------------------------------
(***************************************************************************)
(* An indexer client and its circuit breaker (indexer/breaker.go, tpb,     *)
(* torznab).  The engine's searches and grabs and the operator's live      *)
(* searches call it at once.  Time passes in ticks of the cooldown.        *)
(***************************************************************************)
EXTENDS Naturals

CONSTANTS
  Threshold,    (* consecutive failures that open the breaker             *)
  Cooldown,     (* ticks the breaker stays open                           *)
  MaxRetries,   (* further attempts of a tpb request                      *)
  Kinds,        (* kinds of indexer: "tpb", "torznab"                     *)
  Outages, Hangups, Impatience
                (* bounds: how often the indexer goes down, a client hangs *)
                (* up, and a refused call is counted                      *)

ASSUME IndexersAssumption ==
  /\ Threshold \in Nat \ {0} /\ Cooldown \in Nat \ {0} /\ MaxRetries \in Nat
  /\ Outages \in Nat /\ Hangups \in Nat /\ Impatience \in Nat

VARIABLES
  kind,       (* of this indexer                                          *)
  breaker,    (* [failures, open]: consecutive failures, at the threshold *)
              (* no longer counted, and ticks until the cooldown ends     *)
  request,    (* [Callers -> [op, attempt]], op "" when there is none     *)
  answers,    (* whether the indexer answers                              *)
  chances     (* [outages, hangups, impatience] that are left             *)

indexerVars == <<kind, breaker, request, answers, chances>>

(* Two searches of the engine, which leave an unhealthy indexer out, and   *)
(* the operator's search page, which calls it straight away.               *)
Callers == {"search", "recent", "page"}
Ops == {"search", "fetch"}
NoRequest == [op |-> "", attempt |-> 0]

IndexerInit ==
  /\ kind \in Kinds
  /\ breaker = [failures |-> 0, open |-> 0]
  /\ request = [c \in Callers |-> NoRequest]
  /\ answers = TRUE
  /\ chances = [outages |-> Outages, hangups |-> Hangups, impatience |-> Impatience]

Use(chance) == chances[chance] > 0 /\ chances' = [chances EXCEPT ![chance] = @ - 1]
AtMost(n, m) == IF n <= m THEN n ELSE m

-------------------------------------------------------------------------------
(* The breaker.                                                            *)

Allow == breaker.open = 0

(* Mutant: a success ends the cooldown but the failures stay counted. *)
Success_Counted == breaker' = [breaker EXCEPT !.open = 0]

Success == breaker' = [failures |-> 0, open |-> 0]

(* The count survives the cooldown: after it one failure is enough.        *)
Failure ==
  LET n == AtMost(breaker.failures + 1, Threshold) IN
  breaker' = [failures |-> n, open |-> IF n >= Threshold THEN Cooldown ELSE breaker.open]

-------------------------------------------------------------------------------
(* Calls.                                                                  *)

(* A call begins when the breaker lets it through; queryIndexers has asked *)
(* Healthy before, which changes nothing.  Only torznab fetches files.     *)
Begin(c, op) ==
  /\ request[c].op = "" /\ Allow
  /\ op = "fetch" => kind = "torznab" /\ c = "search"
  /\ request' = [request EXCEPT ![c] = [op |-> op, attempt |-> 0]]
  /\ UNCHANGED <<kind, breaker, answers, chances>>

(* A call that is refused changes nothing, except that a torznab search    *)
(* counts its own refusal as a failure.  The engine's searches get there   *)
(* when the breaker opens after they asked whether it is healthy.          *)
Refused(c) ==
  /\ request[c].op = "" /\ ~Allow /\ kind = "torznab"
  /\ Use("impatience") /\ Failure
  /\ UNCHANGED <<kind, request, answers>>

Ended(c) == request' = [request EXCEPT ![c] = NoRequest]

(* An answer, results or none, a file or a refusal to hand it out.         *)
Answer(c) ==
  /\ request[c].op # "" /\ answers
  /\ Success /\ Ended(c)
  /\ UNCHANGED <<kind, answers, chances>>

(* A server error or no answer: tpb tries again, up to MaxRetries times    *)
(* and past a breaker that has opened meanwhile.                           *)
Retry(c) ==
  /\ request[c].op # "" /\ ~answers
  /\ kind = "tpb" /\ request[c].attempt < MaxRetries
  /\ request' = [request EXCEPT ![c].attempt = @ + 1]
  /\ UNCHANGED <<kind, breaker, answers, chances>>

(* The last attempt failed, or an error that is not retried: a status like *)
(* 429, a page that is no feed.                                            *)
GiveUp(c) ==
  /\ request[c].op # "" /\ ~answers
  /\ Failure /\ Ended(c)
  /\ UNCHANGED <<kind, answers, chances>>

(* The operator leaves the page: a search whose context is cancelled       *)
(* counts as a failure of the indexer.                                     *)
HangUp(c) ==
  /\ c = "page" /\ request[c].op = "search"
  /\ Use("hangups")
  /\ Failure /\ Ended(c)
  /\ UNCHANGED <<kind, answers>>

-------------------------------------------------------------------------------
(* The indexer and time.                                                   *)

GoDown ==
  /\ answers /\ Use("outages")
  /\ answers' = FALSE
  /\ UNCHANGED <<kind, breaker, request>>

ComeBack ==
  /\ ~answers /\ answers' = TRUE
  /\ UNCHANGED <<kind, breaker, request, chances>>

Tick ==
  /\ breaker.open > 0 /\ breaker' = [breaker EXCEPT !.open = @ - 1]
  /\ UNCHANGED <<kind, request, answers, chances>>

Ask(c) == \E op \in Ops : Begin(c, op)
Finish(c) == Answer(c) \/ Retry(c) \/ GiveUp(c)

IndexerNext ==
  \/ \E c \in Callers : Ask(c) \/ Refused(c) \/ Finish(c) \/ HangUp(c)
  \/ GoDown \/ ComeBack \/ Tick

IndexerSpec == IndexerInit /\ [][IndexerNext]_indexerVars

-------------------------------------------------------------------------------
(* Properties.                                                             *)

IndexerTypeOK ==
  /\ kind \in Kinds
  /\ breaker \in [failures : 0 .. Threshold, open : 0 .. Cooldown]
  /\ request \in [Callers -> [op : Ops \cup {""}, attempt : 0 .. MaxRetries]]
  /\ answers \in BOOLEAN

(* The engine's searches find no failure left on the indexer's account.    *)
Recovered == breaker.failures = 0
===============================================================================
