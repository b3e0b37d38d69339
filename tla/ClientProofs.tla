----------------------------- MODULE ClientProofs ------------------------------
(***************************************************************************)
(* What is proved of the download client: its session, for any number of   *)
(* calls, of sessions that end and of logins that fail; and the pause of all *)
(* downloads, for any number of torrents, changes, failures and crashes.   *)
(***************************************************************************)
EXTENDS ClientSession, DownloadControl, TLAPS

-------------------------------------------------------------------------------
(* The session.                                                            *)

(* Who logs in does so alone, while there is no session on either side.    *)
LoginAlone ==
  /\ \A c \in Calls : callAt[c] = "login" => mutex = {c} /\ ~loggedIn
  /\ ~loggedIn => ~valid

(* Generations count logins, and ended sessions but for the one that lives.*)
GenerationCounts ==
  /\ logins = generation
  /\ generation = expired + (IF valid THEN 1 ELSE 0)

(* What a call remembers is older than the session of now; a refusal in    *)
(* the session of now means that it has ended; the second attempt is made  *)
(* in a session that began after the call.                                 *)
CallRemembers(c) ==
  /\ startedAt[c] <= expired
  /\ stale[c] <= generation /\ sentIn[c] <= generation
  /\ callAt[c] = "ensure" => ~retried[c]
  /\ callAt[c] \in {"send", "sent", "refused"} /\ ~retried[c] => startedAt[c] <= stale[c]
  /\ callAt[c] = "send" /\ retried[c] => startedAt[c] < generation
  /\ callAt[c] = "sent" => stale[c] <= sentIn[c]
  /\ callAt[c] = "sent" /\ retried[c] => startedAt[c] < sentIn[c]
  /\ callAt[c] = "refused" =>
       ~retried[c] /\ (stale[c] = generation => ~valid)
  /\ callAt[c] = "auth_error" => startedAt[c] < expired

SessionInv ==
  /\ SessionTypeOK
  /\ LoginAlone
  /\ GenerationCounts
  /\ \A c \in Calls : CallRemembers(c)

LEMMA SessionTypes == SessionTypeOK /\ [SessionNext]_sessionVars => SessionTypeOK'
<1> SUFFICES ASSUME SessionTypeOK, [SessionNext]_sessionVars PROVE SessionTypeOK'
  OBVIOUS
<1> USE SessionAssumption DEF SessionTypeOK, Outcomes, Goto, account, counters
<1>1. ASSUME NEW c \in Calls, StartCall(c) PROVE SessionTypeOK'
  BY <1>1 DEF StartCall
<1>2. ASSUME NEW c \in Calls, EnsureLogin(c) PROVE SessionTypeOK'
  BY <1>2 DEF EnsureLogin
<1>3. ASSUME NEW c \in Calls, Send(c) PROVE SessionTypeOK'
  BY <1>3 DEF Send
<1>4. ASSUME NEW c \in Calls, Receive(c) PROVE SessionTypeOK'
  BY <1>4 DEF Receive
<1>5. ASSUME NEW c \in Calls, Lose(c) PROVE SessionTypeOK'
  BY <1>5 DEF Lose
<1>6. ASSUME NEW c \in Calls, Reauthenticate(c) PROVE SessionTypeOK'
  BY <1>6 DEF Reauthenticate, SendAgain, LoginAgain
<1>7. ASSUME NEW c \in Calls, Login(c) PROVE SessionTypeOK'
  BY <1>7 DEF Login
<1>8. ASSUME NEW c \in Calls, LoginFails(c) PROVE SessionTypeOK'
  BY <1>8 DEF LoginFails
<1>9. CASE Expire
  <2>1. valid' \in BOOLEAN
    BY <1>9, Zenon DEF Expire
  <2>2. /\ expired' \in Nat
        /\ UNCHANGED <<loggedIn, generation, mutex, callAt, retried, stale, sentIn, startedAt,
                      logins, failed, made>>
    BY <1>9 DEF Expire
  <2>3. QED
    BY <2>1, <2>2
<1>10. CASE UNCHANGED sessionVars
  BY <1>10 DEF sessionVars
<1>11. QED
  BY <1>1, <1>2, <1>3, <1>4, <1>5, <1>6, <1>7, <1>8, <1>9, <1>10 DEF SessionNext

(* Only one call is in the login: the mutex is taken when it is free.      *)
LEMMA LoginAloneStep == SessionInv /\ [SessionNext]_sessionVars => LoginAlone'
<1> SUFFICES ASSUME SessionInv, [SessionNext]_sessionVars PROVE LoginAlone'
  OBVIOUS
<1> USE SessionAssumption
    DEF SessionInv, SessionTypeOK, Goto, account, counters, LoginAlone, CallRemembers, Outcomes
<1>1. ASSUME NEW c \in Calls, StartCall(c) PROVE LoginAlone'
  BY <1>1 DEF StartCall
<1>2. ASSUME NEW c \in Calls, EnsureLogin(c) PROVE LoginAlone'
  BY <1>2 DEF EnsureLogin
<1>3. ASSUME NEW c \in Calls, Send(c) PROVE LoginAlone'
  BY <1>3 DEF Send
<1>4. ASSUME NEW c \in Calls, Receive(c) PROVE LoginAlone'
  BY <1>4 DEF Receive, Accepted
<1>5. ASSUME NEW c \in Calls, Lose(c) PROVE LoginAlone'
  BY <1>5 DEF Lose
<1>6. ASSUME NEW c \in Calls, Reauthenticate(c) PROVE LoginAlone'
  BY <1>6 DEF Reauthenticate, SendAgain, LoginAgain
<1>7. ASSUME NEW c \in Calls, Login(c) PROVE LoginAlone'
  BY <1>7 DEF Login
<1>8. ASSUME NEW c \in Calls, LoginFails(c) PROVE LoginAlone'
  BY <1>8 DEF LoginFails
<1>9. CASE Expire
  BY <1>9 DEF Expire
<1>10. CASE UNCHANGED sessionVars
  BY <1>10 DEF sessionVars
<1>11. QED
  BY <1>1, <1>2, <1>3, <1>4, <1>5, <1>6, <1>7, <1>8, <1>9, <1>10 DEF SessionNext

(* Only a login makes a generation, and only where no session is valid.    *)
LEMMA GenerationStep == SessionInv /\ [SessionNext]_sessionVars => GenerationCounts'
<1> SUFFICES ASSUME SessionInv, [SessionNext]_sessionVars PROVE GenerationCounts'
  OBVIOUS
<1> USE SessionAssumption
    DEF SessionInv, SessionTypeOK, Goto, account, counters, LoginAlone, GenerationCounts
<1>1. ASSUME NEW c \in Calls, StartCall(c) PROVE GenerationCounts'
  BY <1>1 DEF StartCall
<1>2. ASSUME NEW c \in Calls, EnsureLogin(c) PROVE GenerationCounts'
  BY <1>2 DEF EnsureLogin
<1>3. ASSUME NEW c \in Calls, Send(c) PROVE GenerationCounts'
  BY <1>3 DEF Send
<1>4. ASSUME NEW c \in Calls, Receive(c) PROVE GenerationCounts'
  BY <1>4 DEF Receive, Accepted
<1>5. ASSUME NEW c \in Calls, Lose(c) PROVE GenerationCounts'
  BY <1>5 DEF Lose
<1>6. ASSUME NEW c \in Calls, Reauthenticate(c) PROVE GenerationCounts'
  BY <1>6 DEF Reauthenticate, SendAgain, LoginAgain
<1>7. ASSUME NEW c \in Calls, Login(c) PROVE GenerationCounts'
  BY <1>7 DEF Login
<1>8. ASSUME NEW c \in Calls, LoginFails(c) PROVE GenerationCounts'
  BY <1>8 DEF LoginFails
<1>9. CASE Expire
  BY <1>9 DEF Expire
<1>10. CASE UNCHANGED sessionVars
  BY <1>10 DEF sessionVars
<1>11. QED
  BY <1>1, <1>2, <1>3, <1>4, <1>5, <1>6, <1>7, <1>8, <1>9, <1>10 DEF SessionNext

(* What a call remembers stays true when it moves itself, and when another *)
(* call or the server does.                                                *)
LEMMA CallStep ==
  ASSUME SessionInv, [SessionNext]_sessionVars, NEW d \in Calls
  PROVE  CallRemembers(d)'
<1> USE SessionAssumption DEF SessionInv, SessionTypeOK, Goto, account, counters
<1>m. /\ expired <= expired' /\ generation <= generation'
      /\ generation = generation' => (valid' => valid)
      /\ expired' \in Nat /\ generation' \in Nat
  BY DEF SessionNext, StartCall, EnsureLogin, Send, Receive, Lose, Reauthenticate, SendAgain,
         LoginAgain, Login, LoginFails, Expire, sessionVars
<1>o. ASSUME callAt'[d] = callAt[d], retried'[d] = retried[d], stale'[d] = stale[d],
            sentIn'[d] = sentIn[d], startedAt'[d] = startedAt[d] PROVE CallRemembers(d)'
  BY <1>o, <1>m DEF CallRemembers
<1>1. ASSUME NEW c \in Calls, StartCall(c) PROVE CallRemembers(d)'
  <2>1. CASE d = c
    BY <1>1, <2>1 DEF StartCall, CallRemembers, LoginAlone, GenerationCounts, Outcomes
  <2>2. CASE d # c
    BY <1>1, <2>2, <1>o DEF StartCall
  <2>3. QED
    BY <2>1, <2>2
<1>2. ASSUME NEW c \in Calls, EnsureLogin(c) PROVE CallRemembers(d)'
  <2>1. CASE d = c
    BY <1>2, <2>1 DEF EnsureLogin, CallRemembers, LoginAlone, GenerationCounts, Outcomes
  <2>2. CASE d # c
    BY <1>2, <2>2, <1>o DEF EnsureLogin
  <2>3. QED
    BY <2>1, <2>2
<1>3. ASSUME NEW c \in Calls, Send(c) PROVE CallRemembers(d)'
  <2>1. CASE d = c
    BY <1>3, <2>1 DEF Send, CallRemembers, LoginAlone, GenerationCounts, Outcomes
  <2>2. CASE d # c
    BY <1>3, <2>2, <1>o DEF Send
  <2>3. QED
    BY <2>1, <2>2
<1>4. ASSUME NEW c \in Calls, Receive(c) PROVE CallRemembers(d)'
  <2>1. CASE d = c
    BY <1>4, <2>1 DEF Receive, Accepted, CallRemembers, LoginAlone, GenerationCounts, Outcomes
  <2>2. CASE d # c
    BY <1>4, <2>2, <1>o DEF Receive, Accepted
  <2>3. QED
    BY <2>1, <2>2
<1>5. ASSUME NEW c \in Calls, Lose(c) PROVE CallRemembers(d)'
  <2>1. CASE d = c
    BY <1>5, <2>1 DEF Lose, CallRemembers, LoginAlone, GenerationCounts, Outcomes
  <2>2. CASE d # c
    BY <1>5, <2>2, <1>o DEF Lose
  <2>3. QED
    BY <2>1, <2>2
<1>6. ASSUME NEW c \in Calls, Reauthenticate(c) PROVE CallRemembers(d)'
  <2>1. CASE d = c
    BY <1>6, <2>1 DEF Reauthenticate, SendAgain, LoginAgain, CallRemembers, LoginAlone,
                     GenerationCounts, Outcomes
  <2>2. CASE d # c
    BY <1>6, <2>2, <1>o DEF Reauthenticate, SendAgain, LoginAgain
  <2>3. QED
    BY <2>1, <2>2
<1>7. ASSUME NEW c \in Calls, Login(c) PROVE CallRemembers(d)'
  <2>1. CASE d = c
    BY <1>7, <2>1 DEF Login, CallRemembers, LoginAlone, GenerationCounts, Outcomes
  <2>2. CASE d # c
    BY <1>7, <2>2, <1>o DEF Login
  <2>3. QED
    BY <2>1, <2>2
<1>8. ASSUME NEW c \in Calls, LoginFails(c) PROVE CallRemembers(d)'
  <2>1. CASE d = c
    BY <1>8, <2>1 DEF LoginFails, CallRemembers, LoginAlone, GenerationCounts, Outcomes
  <2>2. CASE d # c
    BY <1>8, <2>2, <1>o DEF LoginFails
  <2>3. QED
    BY <2>1, <2>2
<1>9. CASE Expire
  BY <1>9, <1>o DEF Expire
<1>10. CASE UNCHANGED sessionVars
  BY <1>10, <1>o DEF sessionVars
<1>11. QED
  BY <1>1, <1>2, <1>3, <1>4, <1>5, <1>6, <1>7, <1>8, <1>9, <1>10 DEF SessionNext

(* The session's invariant holds of every behaviour.                       *)
THEOREM SessionInvariant == SessionSpec => []SessionInv
<1>1. SessionInit => SessionInv
  <2> SUFFICES ASSUME SessionInit PROVE SessionInv
    OBVIOUS
  <2>1. loggedIn \in BOOLEAN /\ valid \in BOOLEAN /\ ~valid
    BY Zenon DEF SessionInit
  <2>2. retried \in [Calls -> BOOLEAN]
    BY Zenon DEF SessionInit
  <2>3. SessionTypeOK
    BY <2>1, <2>2 DEF SessionInit, SessionTypeOK, Outcomes
  <2>4. LoginAlone
    BY <2>1, Zenon DEF SessionInit, LoginAlone
  <2>5. GenerationCounts
    <3>1. logins = 0 /\ generation = 0 /\ expired = 0
      BY Zenon DEF SessionInit
    <3>2. QED
      BY <2>1, <3>1 DEF GenerationCounts
  <2>6. ASSUME NEW c \in Calls PROVE CallRemembers(c)
    <3>1. /\ startedAt[c] = 0 /\ stale[c] = 0 /\ sentIn[c] = 0 /\ expired = 0 /\ generation = 0
          /\ callAt[c] = "idle"
      BY Zenon DEF SessionInit
    <3>2. QED
      BY <3>1 DEF CallRemembers
  <2>7. QED
    BY <2>3, <2>4, <2>5, <2>6 DEF SessionInv
<1>2. SessionInv /\ [SessionNext]_sessionVars => SessionInv'
  BY SessionTypes, LoginAloneStep, GenerationStep, CallStep DEF SessionInv
<1>3. QED
  BY <1>1, <1>2, PTL DEF SessionSpec

(* A client logs in once, and once more per session that ended, however    *)
(* many calls are refused in it (transport.go, reauthenticate).            *)
THEOREM LoginsAreBounded == SessionSpec => []OneLoginPerSession
<1>1. SessionInv => OneLoginPerSession
  BY DEF SessionInv, SessionTypeOK, GenerationCounts, OneLoginPerSession
<1>2. QED
  BY <1>1, SessionInvariant, PTL

(* A call fails with an authentication error only if a session ended       *)
(* during it (transport.go, do).                                           *)
THEOREM ExpiryStaysInvisible == SessionSpec => []ExpiryIsInvisible
<1>1. SessionInv => ExpiryIsInvisible
  BY DEF SessionInv, SessionTypeOK, CallRemembers, ExpiryIsInvisible
<1>2. QED
  BY <1>1, SessionInvariant, PTL

-------------------------------------------------------------------------------
(* Pausing and resuming.                                                   *)

ControlTypes ==
  /\ paused \in BOOLEAN
  /\ torrent \in [Torrents -> TorrentRecords]
  /\ grab \in [Torrents -> GrabRecords]
  /\ adding \in [Torrents -> [pc : {"idle", "add", "record"}, paused : BOOLEAN]]
  /\ control \in [pc : {"idle", "rows", "refresh", "apply"}, want : BOOLEAN, previous : BOOLEAN,
                  rows : SUBSET Torrents, full : SUBSET Torrents, todo : SUBSET Torrents,
                  hashes : SUBSET Torrents, owned : SUBSET Torrents]
  /\ item \in [Torrents -> {"reserved", "imported", "import_failed"}]
  /\ settled \subseteq Torrents

Changing == control.pc # "idle"

(* A torrent is added only while no change runs and under the flag of the  *)
(* moment, and no grab is active without its torrent.                      *)
HandOff ==
  \A t \in Torrents :
    /\ adding[t].pc = "add" => ~Changing /\ ~Present(t) /\ adding[t].paused = paused
    /\ adding[t].pc = "record" => Present(t)
    /\ grab[t].row = "active" => Present(t)

(* What a running change knows: which rows it read, whose torrents are     *)
(* there, and which of them are still ours at most.                        *)
Known ==
  /\ Changing => paused = control.want /\ settled = {}
  /\ control.todo \subseteq control.rows
  /\ control.hashes \subseteq control.rows
  /\ \A t \in control.rows : Present(t)
  /\ control.pc = "apply" => \A t \in control.hashes : torrent[t].ours => t \in control.owned

Reached == \A t \in settled : torrent[t].ours => (torrent[t].state = "stopped") = paused

ControlInv == ControlTypes /\ HandOff /\ Known /\ Reached

-------------------------------------------------------------------------------

LEMMA ControlStarts == ControlInit => ControlInv
<1> SUFFICES ASSUME ControlInit PROVE ControlInv
  OBVIOUS
<1>1. /\ \A t \in Torrents : torrent[t] = NoTorrent /\ adding[t] = NoAdd /\ grab[t] = NoGrab
      /\ control = NoControl /\ settled = {} /\ paused = FALSE
  BY DEF ControlInit
<1>2. ControlTypes
  <2>1. NoTorrent \in TorrentRecords /\ NoGrab \in GrabRecords
    BY DEF NoTorrent, NoGrab, TorrentRecords, GrabRecords
  <2>2. adding \in [Torrents -> [pc : {"idle", "add", "record"}, paused : BOOLEAN]]
    BY DEF ControlInit, NoAdd
  <2>3. control \in [pc : {"idle", "rows", "refresh", "apply"}, want : BOOLEAN, previous : BOOLEAN,
                     rows : SUBSET Torrents, full : SUBSET Torrents, todo : SUBSET Torrents,
                     hashes : SUBSET Torrents, owned : SUBSET Torrents]
    BY DEF ControlInit, NoControl
  <2> QED
    BY <2>1, <2>2, <2>3 DEF ControlInit, ControlTypes
<1>3. HandOff
  BY <1>1 DEF HandOff, NoAdd, NoGrab
<1>4. control.pc = "idle" /\ control.todo = {} /\ control.rows = {} /\ control.hashes = {}
  BY <1>1 DEF NoControl
<1>5. Known /\ Reached
  BY <1>1, <1>4 DEF Known, Reached, Changing
<1> QED
  BY <1>2, <1>3, <1>5 DEF ControlInv

(* Adding a torrent and recording its grab.                                *)
LEMMA AddingSteps ==
  ASSUME ControlInv, NEW t \in Torrents, Hand(t)
  PROVE  ControlInv'
<1> USE DEF ControlInv
<1>1. CASE ReadFlag(t)
  <2>1. ControlTypes'
    BY <1>1 DEF ControlTypes, ReadFlag
  <2>2. HandOff'
    BY <1>1, <2>1 DEF ControlTypes, HandOff, ReadFlag, Changing, Present, MutexFree
  <2>3. Known' /\ Reached'
    BY <1>1 DEF Known, Reached, ReadFlag, Changing, Present
  <2> QED
    BY <2>1, <2>2, <2>3
<1>2. CASE AddTorrent(t)
  <2>1. ~Changing /\ ~Present(t) /\ adding[t].paused = paused
    BY <1>2 DEF HandOff, AddTorrent
  <2> DEFINE new == [NoTorrent EXCEPT !.state = IF adding[t].paused THEN "stopped" ELSE "running",
                                      !.ours = TRUE]
  <2>2. new \in TorrentRecords /\ new.state # "none" /\ (new.state = "stopped") = paused
    BY <2>1 DEF NoTorrent, TorrentRecords, ControlTypes
  <2>3. torrent' = [torrent EXCEPT ![t] = new]
    BY <1>2 DEF AddTorrent
  <2> HIDE DEF new
  <2>4. ControlTypes'
    BY <1>2, <2>2, <2>3 DEF ControlTypes, AddTorrent
  <2>5. \A u \in Torrents : u # t => torrent'[u] = torrent[u]
    BY <2>3 DEF ControlTypes
  <2>6. Present(t)' /\ (torrent'[t].state = "stopped") = paused
    BY <2>2, <2>3 DEF ControlTypes, Present
  <2>7. HandOff'
    BY <1>2, <2>1, <2>4, <2>5, <2>6 DEF ControlTypes, HandOff, AddTorrent, Changing, Present
  <2>8. t \notin control.rows
    BY <2>1 DEF Known
  <2>9. Known'
    BY <1>2, <2>1, <2>5, <2>8 DEF ControlTypes, Known, AddTorrent, Changing, Present
  <2>10. Reached'
    BY <1>2, <2>5, <2>6 DEF ControlTypes, Reached, AddTorrent
  <2> QED
    BY <2>4, <2>7, <2>9, <2>10
<1>3. CASE RecordGrab(t)
  <2>1. grab' \in [Torrents -> GrabRecords]
        /\ \A u \in Torrents : u # t => grab'[u] = grab[u]
    BY <1>3, ZenonT(30) DEF ControlTypes, RecordGrab, GrabRecords
  <2>2. ControlTypes'
    BY <1>3, <2>1 DEF ControlTypes, RecordGrab, NoAdd
  <2>3. HandOff'
    BY <1>3, <2>1, <2>2 DEF ControlTypes, HandOff, RecordGrab, NoAdd, Changing, Present
  <2>4. Known' /\ Reached'
    BY <1>3 DEF Known, Reached, RecordGrab, Changing, Present
  <2> QED
    BY <2>2, <2>3, <2>4
<1> QED
  BY <1>1, <1>2, <1>3 DEF Hand

(* A change up to its request to the client.                               *)
LEMMA PreparingSteps ==
  ASSUME ControlInv,
         \/ \E want \in BOOLEAN : StoreFlag(want)
         \/ ReadGrabs \/ CheckOwned \/ \E t \in Torrents : RefreshGrab(t)
  PROVE  ControlInv'
<1> USE DEF ControlInv
<1>1. ASSUME NEW want \in BOOLEAN, StoreFlag(want)
      PROVE  ControlInv'
  <2>1. ControlTypes'
    BY <1>1 DEF ControlTypes, StoreFlag, NoControl
  <2>2. HandOff'
    BY <1>1 DEF ControlTypes, HandOff, StoreFlag, MutexFree, Changing, Present
  <2>3. Known' /\ Reached'
    BY <1>1 DEF Known, Reached, StoreFlag, NoControl, Changing, Present
  <2> QED
    BY <2>1, <2>2, <2>3
<1>2. CASE ReadGrabs
  <2>1. ControlTypes'
    BY <1>2 DEF ControlTypes, ReadGrabs, ActiveRows
  <2>2. HandOff'
    BY <1>2 DEF ControlTypes, HandOff, ReadGrabs, Changing, Present
  <2>3. Known' /\ Reached'
    BY <1>2 DEF ControlTypes, HandOff, Known, Reached, ReadGrabs, ActiveRows, Changing, Present
  <2> QED
    BY <2>1, <2>2, <2>3
<1>3. CASE CheckOwned
  <2>1. ControlTypes'
    BY <1>3 DEF ControlTypes, CheckOwned
  <2>2. HandOff'
    BY <1>3 DEF ControlTypes, HandOff, CheckOwned, Changing, Present
  <2>3. Known' /\ Reached'
    BY <1>3 DEF ControlTypes, Known, Reached, CheckOwned, Changing, Present
  <2> QED
    BY <2>1, <2>2, <2>3
<1>4. ASSUME NEW t \in Torrents, RefreshGrab(t)
      PROVE  ControlInv'
  <2>1. ControlTypes'
    <3>1. ASSUME NEW full \in BOOLEAN, (t \in control.full) = full
          PROVE  grab' \in [Torrents -> GrabRecords]
      <4>1. grab' = [grab EXCEPT ![t] = [row |-> "active", full |-> full]]
        BY <1>4, <3>1, ZenonT(30) DEF RefreshGrab
      <4>2. [row |-> "active", full |-> full] \in GrabRecords
        BY DEF GrabRecords
      <4> QED
        BY <4>1, <4>2 DEF ControlTypes
    <3>2. (t \in control.full) = TRUE \/ (t \in control.full) = FALSE
      OBVIOUS
    <3>4. grab' \in [Torrents -> GrabRecords]
      BY <3>1, <3>2, Zenon
    <3> QED
      BY <1>4, <3>4 DEF ControlTypes, RefreshGrab
  <2>2. HandOff'
    BY <1>4 DEF ControlTypes, HandOff, Known, RefreshGrab, Changing, Present
  <2>3. Known' /\ Reached'
    BY <1>4 DEF ControlTypes, Known, Reached, RefreshGrab, Changing, Present
  <2> QED
    BY <2>1, <2>2, <2>3
<1> QED
  BY <1>1, <1>2, <1>3, <1>4

(* What the request does to torrents, whether or not it is answered.       *)
LEMMA ChangeReaches ==
  ASSUME ControlInv, ApplyChange, control.pc = "apply"
  PROVE  /\ torrent' \in [Torrents -> TorrentRecords]
         /\ \A t \in Torrents : /\ Present(t)' = Present(t)
                                /\ torrent'[t].ours = torrent[t].ours
         /\ \A t \in control.hashes :
              torrent'[t].ours => (torrent'[t].state = "stopped") = paused
<1>1. \A t \in Torrents : torrent'[t] = Changed(t) /\ torrent[t] \in TorrentRecords
  BY DEF ControlInv, ControlTypes, ApplyChange
<1>2. \A t \in Torrents : Changed(t) \in TorrentRecords
  BY <1>1 DEF Changed, TorrentRecords
<1>3. torrent' \in [Torrents -> TorrentRecords]
  BY <1>2 DEF ApplyChange
<1>4. \A t \in Torrents : Present(t)' = Present(t) /\ torrent'[t].ours = torrent[t].ours
  BY <1>1 DEF Changed, Present, TorrentRecords
<1>5. ASSUME NEW t \in control.hashes, torrent'[t].ours
      PROVE  (torrent'[t].state = "stopped") = paused
  <2>1. t \in Torrents
    BY DEF ControlInv, ControlTypes
  <2>2. t \in control.owned /\ Present(t) /\ paused = control.want
    BY <1>4, <1>5, <2>1 DEF ControlInv, Known, Changing
  <2> QED
    BY <1>1, <2>1, <2>2 DEF Changed, ControlInv, ControlTypes, TorrentRecords
<1> QED
  BY <1>3, <1>4, <1>5

(* The end of a change: the client's answer, a failure, a crash.           *)
LEMMA EndingSteps ==
  ASSUME ControlInv, ApplyPaused \/ ControlFails \/ Crash
  PROVE  ControlInv'
<1> USE DEF ControlInv
<1>1. CASE ApplyPaused
  <2>1. control.pc = "apply" /\ ApplyChange
    BY <1>1 DEF ApplyPaused
  <2>2. ControlTypes'
    BY <1>1, <2>1, ChangeReaches DEF ControlTypes, ApplyPaused, GotoControl
  <2>3. HandOff'
    BY <1>1, <2>1, ChangeReaches DEF ControlTypes, HandOff, ApplyPaused, GotoControl, Changing
  <2>4. Known'
    BY <1>1, <2>1, ChangeReaches DEF ControlTypes, Known, ApplyPaused, GotoControl, Changing
  <2>5. Reached'
    BY <1>1, <2>1, ChangeReaches DEF ControlTypes, Reached, ApplyPaused, GotoControl
  <2> QED
    BY <2>2, <2>3, <2>4, <2>5
<1>2. CASE ControlFails
  <2>1. Changing /\ settled' = {} /\ control' = [control EXCEPT !.pc = "idle"]
        /\ paused' \in BOOLEAN /\ UNCHANGED <<grab, item, adding>>
    BY <1>2 DEF ControlFails, GotoControl, Known, Changing, ControlTypes
  <2>2. /\ \A t \in Torrents : Present(t)' = Present(t) /\ torrent'[t].ours = torrent[t].ours
        /\ torrent' \in [Torrents -> TorrentRecords]
    <3>1. CASE UNCHANGED torrent
      BY <3>1 DEF ControlTypes, Present
    <3>2. CASE control.pc = "apply" /\ ApplyChange
      BY <3>2, ChangeReaches
    <3> QED
      BY <1>2, <3>1, <3>2 DEF ControlFails
  <2>3. ControlTypes'
    BY <2>1, <2>2 DEF ControlTypes
  <2>4. HandOff'
    BY <2>1, <2>2 DEF ControlTypes, HandOff, Changing
  <2>5. Known'
    BY <2>1, <2>2 DEF ControlTypes, Known, Changing
  <2>6. Reached'
    BY <2>1 DEF Reached
  <2> QED
    BY <2>3, <2>4, <2>5, <2>6
<1>3. CASE Crash
  <2>1. /\ control' = [control EXCEPT !.pc = "idle"] /\ adding' = [t \in Torrents |-> NoAdd]
        /\ UNCHANGED <<paused, torrent, grab, item, settled>>
    BY <1>3 DEF Crash, GotoControl
  <2>2. ControlTypes'
    BY <2>1 DEF ControlTypes, NoAdd
  <2>3. HandOff'
    BY <2>1 DEF HandOff, NoAdd, Present
  <2>4. Known' /\ Reached'
    BY <2>1 DEF ControlTypes, Known, Reached, Changing, Present
  <2> QED
    BY <2>2, <2>3, <2>4
<1> QED
  BY <1>1, <1>2, <1>3

(* Polls write rows of grabs that have a torrent.                          *)
LEMMA PollSteps ==
  ASSUME ControlInv, NEW t \in Torrents, PollStep(t)
  PROVE  ControlInv'
<1> USE DEF ControlInv
<1>1. /\ Present(t) /\ UNCHANGED <<paused, torrent, adding, control, settled>>
      /\ \A u \in Torrents : u # t => grab'[u] = grab[u]
      /\ grab' \in [Torrents -> GrabRecords]
  <2>1. CASE PollProgress(t) \/ PollErrs(t)
    <3>1. \E full \in BOOLEAN : grab' = [grab EXCEPT ![t].full = full]
      BY <2>1, ZenonT(30) DEF PollProgress, PollErrs, ControlTypes, TorrentRecords
    <3>2. PICK full \in BOOLEAN : grab' = [grab EXCEPT ![t].full = full]
      BY <3>1
    <3>3. grab' \in [Torrents -> GrabRecords] /\ \A u \in Torrents : u # t => grab'[u] = grab[u]
      BY <3>2, ZenonT(30) DEF ControlTypes, GrabRecords
    <3> QED
      BY <2>1, <3>3 DEF PollProgress, PollErrs, Polled
  <2>2. CASE PollImports(t) \/ PollFails(t)
    <3>1. \E row \in {"imported", "failed"} : grab' = [grab EXCEPT ![t] = [row |-> row, full |-> TRUE]]
      BY <2>2, ZenonT(30) DEF PollImports, PollFails
    <3>2. PICK row \in {"imported", "failed"} :
               grab' = [grab EXCEPT ![t] = [row |-> row, full |-> TRUE]]
      BY <3>1
    <3>3. [row |-> row, full |-> TRUE] \in GrabRecords
      BY DEF GrabRecords
    <3>4. grab' \in [Torrents -> GrabRecords] /\ \A u \in Torrents : u # t => grab'[u] = grab[u]
      BY <3>2, <3>3 DEF ControlTypes
    <3> QED
      BY <2>2, <3>4 DEF PollImports, PollFails, Polled
  <2> QED
    BY <2>1, <2>2 DEF PollStep
<1>2. item' \in [Torrents -> {"reserved", "imported", "import_failed"}]
  BY ZenonT(30) DEF ControlTypes, PollStep, PollProgress, PollImports, PollFails, PollErrs
<1>3. ControlTypes'
  BY <1>1, <1>2 DEF ControlTypes
<1>4. HandOff'
  BY <1>1 DEF HandOff, Changing, Present
<1>5. Known' /\ Reached'
  BY <1>1 DEF Known, Reached, Changing, Present
<1> QED
  BY <1>3, <1>4, <1>5

(* Downloads that fill and finish, and the operator in qBittorrent.        *)
LEMMA OutsideSteps ==
  ASSUME ControlInv, NEW t \in Torrents, Elsewhere(t)
  PROVE  ControlInv'
<1> USE DEF ControlInv
<1>1. /\ torrent' \in [Torrents -> TorrentRecords]
      /\ \A u \in Torrents : /\ torrent'[u].state = torrent[u].state
                             /\ torrent'[u].ours => torrent[u].ours
      /\ UNCHANGED <<paused, grab, item, adding, control, settled>>
  <2>1. CASE FillTorrent(t)
    BY <2>1, ZenonT(30) DEF ControlTypes, TorrentRecords, FillTorrent
  <2>2. CASE FinishTorrent(t)
    BY <2>2, ZenonT(30) DEF ControlTypes, TorrentRecords, FinishTorrent
  <2>3. CASE TakeOver(t)
    BY <2>3, ZenonT(30) DEF ControlTypes, TorrentRecords, TakeOver
  <2> QED
    BY <2>1, <2>2, <2>3 DEF Elsewhere
<1>2. \A u \in Torrents : Present(u)' = Present(u)
  BY <1>1 DEF Present
<1>3. ControlTypes'
  BY <1>1 DEF ControlTypes
<1>4. HandOff'
  BY <1>1, <1>2 DEF ControlTypes, HandOff, Changing
<1>5. Known'
  BY <1>1, <1>2 DEF ControlTypes, Known, Changing
<1>6. Reached'
  BY <1>1 DEF ControlTypes, Reached
<1> QED
  BY <1>3, <1>4, <1>5, <1>6

LEMMA ControlStep == ControlInv /\ [ControlNext]_controlVars => ControlInv'
<1> SUFFICES ASSUME ControlInv, [ControlNext]_controlVars PROVE ControlInv'
  OBVIOUS
<1>1. CASE UNCHANGED controlVars
  BY <1>1 DEF controlVars, ControlInv, ControlTypes, HandOff, Known, Reached, Changing, Present
<1>2. CASE \E t \in Torrents : Hand(t)
  BY <1>2, AddingSteps
<1>3. CASE \/ \E want \in BOOLEAN : StoreFlag(want)
           \/ ReadGrabs \/ CheckOwned \/ \E t \in Torrents : RefreshGrab(t)
  BY <1>3, PreparingSteps
<1>4. CASE ApplyPaused \/ ControlFails \/ Crash
  BY <1>4, EndingSteps
<1>5. CASE \E t \in Torrents : PollStep(t)
  BY <1>5, PollSteps
<1>6. CASE \E t \in Torrents : Elsewhere(t)
  BY <1>6, OutsideSteps
<1> QED
  BY <1>1, <1>2, <1>3, <1>4, <1>5, <1>6 DEF ControlNext, ChangeStep

-------------------------------------------------------------------------------

(* The inductive invariant: hand-offs and changes exclude each other, and  *)
(* a change knows which torrents are still ours at most.                   *)
THEOREM ControlInvariant == ControlSpec => []ControlInv
  BY ControlStarts, ControlStep, PTL DEF ControlSpec

(* After a pause or a resume that succeeded, every active grab it found    *)
(* with progress to make, and every one whose torrent was added since, is  *)
(* in the state the flag says, whatever hand-offs, polls, failed imports,  *)
(* takeovers, failures and crashes came in between (engine/downloads.go).  *)
THEOREM PauseReachesAll == ControlSpec => []PauseReaches
<1>1. ControlInv => PauseReaches
  BY DEF ControlInv, Reached, PauseReaches
<1> QED
  BY <1>1, ControlInvariant, PTL
===============================================================================
