------------------------------ MODULE ClientSession ------------------------------
(***************************************************************************)
(* The session every call to qBittorrent shares (qbittorrent/transport.go): *)
(* a call logs in when there is no session, and once more when its request *)
(* is refused because the session ended.  Logging in holds a mutex; sending *)
(* does not, so several calls meet an ended session at once, and a refusal *)
(* may come from a session that has been replaced since.                   *)
(***************************************************************************)
EXTENDS Naturals

CONSTANTS
  Calls,      (* calls made at a time                                     *)
  Expiries,   (* bound on sessions that end                               *)
  BadLogins,  (* bound on logins that fail                                *)
  CallBound   (* bound on calls                                           *)

ASSUME SessionAssumption == Expiries \in Nat /\ BadLogins \in Nat /\ CallBound \in Nat

VARIABLES
  loggedIn,   (* the client's fields: whether it has a session, and which *)
  generation,
  valid,      (* whether qBittorrent still accepts the session of that    *)
              (* generation                                               *)
  mutex,      (* calls in the login: at most one                          *)
  callAt,     (* [Calls -> where the call is]                             *)
  retried,    (* [Calls -> whether it logged in again]                    *)
  stale,      (* [Calls -> the generation it began with]                  *)
  sentIn,     (* [Calls -> the generation its request carries]            *)
  startedAt,  (* [Calls -> sessions that had ended when it began]         *)
  logins,     (* logins that succeeded                                    *)
  expired,    (* sessions that ended                                      *)
  failed,     (* logins that failed                                       *)
  made        (* calls made                                               *)

account == <<loggedIn, generation, valid>>
counters == <<logins, expired, failed, made>>
sessionVars == <<account, mutex, callAt, retried, stale, sentIn, startedAt, counters>>

Outcomes == {"ok", "auth_error", "login_failed", "lost"}

SessionInit ==
  /\ loggedIn = FALSE /\ generation = 0 /\ valid = FALSE /\ mutex = {}
  /\ callAt = [c \in Calls |-> "idle"] /\ retried = [c \in Calls |-> FALSE]
  /\ stale = [c \in Calls |-> 0] /\ sentIn = [c \in Calls |-> 0]
  /\ startedAt = [c \in Calls |-> 0]
  /\ logins = 0 /\ expired = 0 /\ failed = 0 /\ made = 0

Goto(c, pc) == callAt' = [callAt EXCEPT ![c] = pc]

-------------------------------------------------------------------------------
(* A call.                                                                 *)

StartCall(c) ==
  /\ callAt[c] \in {"idle"} \cup Outcomes /\ made < CallBound
  /\ Goto(c, "ensure") /\ made' = made + 1
  /\ retried' = [retried EXCEPT ![c] = FALSE] /\ startedAt' = [startedAt EXCEPT ![c] = expired]
  /\ stale' = [stale EXCEPT ![c] = 0] /\ sentIn' = [sentIn EXCEPT ![c] = 0]
  /\ UNCHANGED <<account, mutex, logins, expired, failed>>

EnsureLogin(c) ==
  /\ callAt[c] = "ensure" /\ mutex = {}
  /\ \/ /\ loggedIn /\ Goto(c, "send") /\ stale' = [stale EXCEPT ![c] = generation]
        /\ UNCHANGED mutex
     \/ ~loggedIn /\ mutex' = {c} /\ Goto(c, "login") /\ UNCHANGED stale
  /\ UNCHANGED <<account, retried, sentIn, startedAt, counters>>

(* The request carries the session of the moment it is sent.               *)
Send(c) ==
  /\ callAt[c] = "send" /\ Goto(c, "sent")
  /\ sentIn' = [sentIn EXCEPT ![c] = generation]
  /\ UNCHANGED <<account, mutex, retried, stale, startedAt, counters>>

Accepted(c) == sentIn[c] = generation /\ valid

Receive(c) ==
  /\ callAt[c] = "sent"
  /\ \/ Accepted(c) /\ Goto(c, "ok")
     \/ ~Accepted(c) /\ ~retried[c] /\ Goto(c, "refused")
     \/ ~Accepted(c) /\ retried[c] /\ Goto(c, "auth_error")
  /\ UNCHANGED <<account, mutex, retried, stale, sentIn, startedAt, counters>>

(* The request or its answer is lost, or the call runs out of time.        *)
Lose(c) ==
  /\ callAt[c] = "sent" /\ Goto(c, "lost")
  /\ UNCHANGED <<account, mutex, retried, stale, sentIn, startedAt, counters>>

SendAgain(c) == Goto(c, "send") /\ UNCHANGED <<loggedIn, mutex>>
LoginAgain(c) == loggedIn' = FALSE /\ mutex' = {c} /\ Goto(c, "login")

(* Mutant: whoever was refused logs in, whatever the session is by now. *)
Reauthenticate_Always(c) ==
  /\ callAt[c] = "refused" /\ mutex = {} /\ LoginAgain(c)
  /\ retried' = [retried EXCEPT ![c] = TRUE]
  /\ UNCHANGED <<generation, valid, stale, sentIn, startedAt, counters>>

(* Mutant: a session that is still held counts as a new one. *)
Reauthenticate_Held(c) ==
  /\ callAt[c] = "refused" /\ mutex = {}
  /\ (loggedIn /\ SendAgain(c)) \/ (~loggedIn /\ LoginAgain(c))
  /\ retried' = [retried EXCEPT ![c] = TRUE]
  /\ UNCHANGED <<generation, valid, stale, sentIn, startedAt, counters>>

(* Another call may have replaced the session in which this one was        *)
(* refused; then it sends again at once.                                   *)
Reauthenticate(c) ==
  LET replaced == loggedIn /\ generation # stale[c] IN
  /\ callAt[c] = "refused" /\ mutex = {}
  /\ (replaced /\ SendAgain(c)) \/ (~replaced /\ LoginAgain(c))
  /\ retried' = [retried EXCEPT ![c] = TRUE]
  /\ UNCHANGED <<generation, valid, stale, sentIn, startedAt, counters>>

Login(c) ==
  /\ callAt[c] = "login" /\ Goto(c, "send")
  /\ loggedIn' = TRUE /\ generation' = generation + 1 /\ valid' = TRUE
  /\ logins' = logins + 1 /\ mutex' = {}
  /\ stale' = [stale EXCEPT ![c] = IF retried[c] THEN stale[c] ELSE generation + 1]
  /\ UNCHANGED <<retried, sentIn, startedAt, expired, failed, made>>

(* Wrong credentials, a ban, a login that is lost: the call ends, and the  *)
(* next one logs in again.                                                 *)
LoginFails(c) ==
  /\ callAt[c] = "login" /\ failed < BadLogins
  /\ failed' = failed + 1 /\ mutex' = {}
  /\ Goto(c, "login_failed")
  /\ UNCHANGED <<account, retried, stale, sentIn, startedAt, logins, expired, made>>

(* qBittorrent ends a session after an hour, or when it restarts.          *)
Expire ==
  /\ valid /\ expired < Expiries
  /\ valid' = FALSE /\ expired' = expired + 1
  /\ UNCHANGED <<loggedIn, generation, mutex, callAt, retried, stale, sentIn, startedAt,
                 logins, failed, made>>

SessionNext ==
  \/ \E c \in Calls :
       \/ StartCall(c) \/ EnsureLogin(c) \/ Send(c) \/ Receive(c) \/ Lose(c)
       \/ Reauthenticate(c) \/ Login(c) \/ LoginFails(c)
  \/ Expire

SessionSpec == SessionInit /\ [][SessionNext]_sessionVars

-------------------------------------------------------------------------------
(* Properties.                                                             *)

SessionTypeOK ==
  /\ loggedIn \in BOOLEAN /\ generation \in Nat /\ valid \in BOOLEAN
  /\ mutex \subseteq Calls
  /\ callAt \in [Calls -> Outcomes \cup {"idle", "ensure", "send", "sent", "refused", "login"}]
  /\ retried \in [Calls -> BOOLEAN]
  /\ stale \in [Calls -> Nat] /\ sentIn \in [Calls -> Nat] /\ startedAt \in [Calls -> Nat]
  /\ logins \in Nat /\ expired \in Nat /\ failed \in Nat /\ made \in Nat

(* However many calls are refused in one session, one of them logs in: a   *)
(* client never logs in more often than sessions ended, plus the first.    *)
OneLoginPerSession == logins <= 1 + expired

(* That a session had ended before a call began never fails it: an         *)
(* authentication error without a failed login takes a session that ended  *)
(* during the call.                                                        *)
ExpiryIsInvisible ==
  \A c \in Calls : callAt[c] = "auth_error" => expired > startedAt[c]
===============================================================================
