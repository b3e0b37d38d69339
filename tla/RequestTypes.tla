------------------------------ MODULE RequestTypes ------------------------------
(***************************************************************************)
(* The domains of the tables, handlers, passes, notices and the plugin's   *)
(* state, for any number of users, titles, handlers, passes and failures,  *)
(* with the lemmas about numbers and lists they rest on.                   *)
(***************************************************************************)
EXTENDS TrialProofs, WellFoundedInduction

-------------------------------------------------------------------------------
(* Numbers and lists.  A set of numbers has a smallest, and of the numbers *)
(* for which something is not so, that one is the case to refute.          *)

LEMMA SmallestOf ==
  ASSUME NEW S \in SUBSET Nat, S # {}
  PROVE  \E n \in S : \A m \in S : n <= m
<1> DEFINE R == OpToRel(<, Nat)
<1>1. IsWellFoundedOn(R, Nat)
  BY NatLessThanWellFounded, Zenon
<1>2. \A m, n \in Nat : m < n => <<m, n>> \in R
  BY DEF OpToRel
<1> HIDE DEF R
<1>3. PICK n \in S : \A m \in S : ~(<<m, n>> \in R)
  BY <1>1, WFMin
<1>4. \A m \in S : ~(m < n)
  BY <1>2, <1>3
<1>5. QED
  BY <1>4

LEMMA FiniteHasLargest ==
  ASSUME NEW ids \in SUBSET Nat, IsFiniteSet(ids), ids # {}
  PROVE  \E n \in ids : \A m \in ids : m <= n
<1> DEFINE HasLargest(S) == \E n \in S : \A m \in S : m <= n
           bad == {c \in Nat : \E S \in SUBSET ids : S # {} /\ Cardinality(S) = c /\ ~HasLargest(S)}
<1>1. SUFFICES ASSUME ~HasLargest(ids) PROVE FALSE
  OBVIOUS
<1>2. Cardinality(ids) \in bad
  BY <1>1, FS_CardinalityType
<1>3. PICK c \in bad : \A d \in bad : c <= d
  <2>1. bad \in SUBSET Nat
    OBVIOUS
  <2> HIDE DEF bad
  <2>2. QED
    BY <1>2, <2>1, SmallestOf
<1>4. PICK S \in SUBSET ids : S # {} /\ Cardinality(S) = c /\ ~HasLargest(S)
  BY <1>3
<1>5. PICK x \in S : TRUE
  BY <1>4
<1>6. IsFiniteSet(S) /\ IsFiniteSet(S \ {x}) /\ Cardinality(S \ {x}) = c - 1
      /\ c \in Nat /\ Cardinality(S \ {x}) \in Nat
  BY <1>4, <1>5, FS_Subset, FS_RemoveElement, FS_CardinalityType
<1>7. S \ {x} # {}
  <2> SUFFICES ASSUME S = {x} PROVE FALSE
    BY <1>5
  <2>1. x \in Nat
    BY <1>5
  <2>2. QED
    BY <1>4, <2>1
<1>8. HasLargest(S \ {x})
  <2> SUFFICES ASSUME ~HasLargest(S \ {x}) PROVE FALSE
    OBVIOUS
  <2>1. Cardinality(S \ {x}) \in bad
    BY <1>6, <1>7
  <2>2. c <= c - 1
    BY <1>3, <1>6, <2>1
  <2>3. QED
    BY <1>6, <2>2
<1>9. PICK n \in S \ {x} : \A m \in S \ {x} : m <= n
  BY <1>8
<1>10. HasLargest(S)
  <2>1. x \in Nat /\ n \in Nat
    BY <1>5, <1>9
  <2>2. CASE x <= n
    BY <1>9, <2>2
  <2>3. CASE ~(x <= n)
    <3>1. \A m \in S : m \in Nat /\ m <= x
      BY <1>9, <2>1, <2>3
    <3>2. QED
      BY <1>5, <3>1
  <2>4. QED
    BY <2>2, <2>3
<1>11. QED
  BY <1>4, <1>10

LEMMA LargestOfFinite ==
  ASSUME NEW ids \in SUBSET Nat, IsFiniteSet(ids)
  PROVE  Largest(ids) \in Nat /\ \A m \in ids : m <= Largest(ids)
<1>1. \E n \in ids \cup {0} : \A m \in ids : m <= n
  BY FiniteHasLargest
<1>2. Largest(ids) \in ids \cup {0} /\ \A m \in ids : m <= Largest(ids)
  BY <1>1 DEF Largest
<1>3. ids \cup {0} \subseteq Nat
  OBVIOUS
<1>4. QED
  BY <1>2, <1>3, Zenon

LEMMA AppendedEntries ==
  ASSUME NEW A, NEW s \in Seq(A), NEW a \in A
  PROVE  /\ Append(s, a) \in Seq(A)
         /\ {Append(s, a)[i] : i \in DOMAIN Append(s, a)} = {s[i] : i \in DOMAIN s} \cup {a}
<1>1. /\ Append(s, a) \in Seq(A) /\ Len(s) \in Nat /\ DOMAIN s = 1 .. Len(s)
      /\ DOMAIN Append(s, a) = 1 .. (Len(s) + 1)
      /\ \A i \in 1 .. Len(s) : Append(s, a)[i] = s[i]
      /\ Append(s, a)[Len(s) + 1] = a
  OBVIOUS
<1>2. QED
  BY <1>1

(* The entries that RemoveAll keeps are those of other ids.                *)
LEMMA KeptEntries ==
  ASSUME NEW A, NEW list \in Seq(A), NEW aid
  PROVE  /\ RemoveAll(list, aid) \in Seq(A)
         /\ \A x : (\E i \in DOMAIN RemoveAll(list, aid) : RemoveAll(list, aid)[i] = x)
                   <=> (\E i \in DOMAIN list : list[i].aid # aid /\ list[i] = x)
<1> DEFINE next(f, n) == IF n = 0 THEN <<>>
                         ELSE IF list[n].aid = aid THEN f[n - 1] ELSE Append(f[n - 1], list[n])
           Upto(n) == \E f : f = [m \in 0 .. n |-> next(f, m)]
           long == {n \in Nat : ~Upto(n)}
           kept == CHOOSE f : f = [m \in 0 .. Len(list) |-> next(f, m)]
           left(n) == {list[i] : i \in {i \in 1 .. n : list[i].aid # aid}}
           Right(n) == kept[n] \in Seq(A) /\ {kept[n][i] : i \in DOMAIN kept[n]} = left(n)
           wrong == {n \in 0 .. Len(list) : ~Right(n)}
<1>1. RemoveAll(list, aid) = kept[Len(list)]
  BY DEF RemoveAll
<1>2. Len(list) \in Nat /\ DOMAIN list = 1 .. Len(list) /\ \A i \in 1 .. Len(list) : list[i] \in A
  OBVIOUS
<1>3. Upto(0)
  <2>1. [m \in 0 .. 0 |-> <<>>] = [m \in 0 .. 0 |-> next([i \in 0 .. 0 |-> <<>>], m)]
    OBVIOUS
  <2>2. QED
    BY <2>1
<1>4. ASSUME NEW n \in Nat, Upto(n) PROVE Upto(n + 1)
  <2>1. PICK f : f = [m \in 0 .. n |-> next(f, m)]
    BY <1>4
  <2> DEFINE g == [m \in 0 .. (n + 1) |-> IF m = n + 1 THEN next(f, n + 1) ELSE f[m]]
  <2>2. \A m \in 0 .. n : g[m] = f[m] /\ f[m] = next(f, m)
    <3> SUFFICES ASSUME NEW m \in 0 .. n PROVE g[m] = f[m] /\ f[m] = next(f, m)
      OBVIOUS
    <3>1. f[m] = next(f, m)
      <4> HIDE DEF next
      <4> QED
        BY <2>1
    <3>2. m \in 0 .. (n + 1) /\ m # n + 1
      OBVIOUS
    <3>3. g[m] = f[m]
      <4> HIDE DEF next
      <4> QED
        BY <3>2
    <3>4. QED
      BY <3>1, <3>3
  <2>3. \A m \in 0 .. (n + 1) : g[m] = next(g, m)
    <3>1. g[0] = next(g, 0)
      <4>1. 0 \in 0 .. n
        OBVIOUS
      <4>2. next(f, 0) = <<>> /\ next(g, 0) = <<>>
        OBVIOUS
      <4> HIDE DEF g, next
      <4>3. QED
        BY <2>2, <4>1, <4>2
    <3>2. ASSUME NEW m \in 0 .. n, m # 0 PROVE g[m] = next(g, m)
      <4>1. m - 1 \in 0 .. n
        BY <3>2
      <4>2. QED
        BY <2>2, <3>2, <4>1
    <3>3. g[n + 1] = next(g, n + 1)
      <4>1. n \in 0 .. n /\ (n + 1) - 1 = n
        OBVIOUS
      <4>2. g[n] = f[n]
        BY <2>2, <4>1
      <4>3. g[n + 1] = next(f, n + 1)
        OBVIOUS
      <4>4. QED
        BY <4>1, <4>2, <4>3
    <3> HIDE DEF g, next
    <3>4. QED
      BY <3>1, <3>2, <3>3
  <2>4. g = [m \in 0 .. (n + 1) |-> next(g, m)]
    <3> HIDE DEF next
    <3>1. g = [m \in 0 .. (n + 1) |-> g[m]]
      OBVIOUS
    <3>2. QED
      BY <2>3, <3>1
  <2>5. QED
    BY <2>4
<1>5. long = {}
  <2> SUFFICES ASSUME long # {} PROVE FALSE
    OBVIOUS
  <2> HIDE DEF Upto
  <2>1. PICK n \in long : \A m \in long : n <= m
    <3>1. long \in SUBSET Nat
      OBVIOUS
    <3> HIDE DEF long
    <3>2. QED
      BY <3>1, SmallestOf
  <2>2. n \in Nat /\ ~Upto(n) /\ n # 0
    BY <1>3
  <2>3. n - 1 \in Nat /\ Upto(n - 1)
    BY <2>1, <2>2
  <2>4. QED
    BY <1>4, <2>2, <2>3
<1>6. kept = [m \in 0 .. Len(list) |-> next(kept, m)]
  <2>1. Upto(Len(list))
    BY <1>2, <1>5
  <2> HIDE DEF next
  <2>2. QED
    BY <2>1
<1>7. \A m \in 0 .. Len(list) : kept[m] = next(kept, m)
  <2> HIDE DEF next, kept
  <2> QED
    BY <1>6
<1> HIDE DEF kept
<1>8. Right(0)
  <2>1. kept[0] = <<>>
    BY <1>2, <1>7
  <2>2. <<>> \in Seq(A) /\ DOMAIN <<>> = {} /\ left(0) = {}
    OBVIOUS
  <2>3. QED
    BY <2>1, <2>2
<1>9. ASSUME NEW n \in Nat, n + 1 \in 0 .. Len(list), Right(n) PROVE Right(n + 1)
  <2>1. n + 1 # 0 /\ (n + 1) - 1 = n /\ list[n + 1] \in A
    BY <1>2, <1>9
  <2>2. kept[n + 1] = IF list[n + 1].aid = aid THEN kept[n] ELSE Append(kept[n], list[n + 1])
    BY <1>7, <1>9, <2>1
  <2>3. left(n + 1) = left(n) \cup (IF list[n + 1].aid = aid THEN {} ELSE {list[n + 1]})
    BY <2>1
  <2>a. kept[n] \in Seq(A)
    BY <1>9
  <2> HIDE DEF left
  <2>4. CASE list[n + 1].aid = aid
    BY <1>9, <2>2, <2>3, <2>4
  <2>5. CASE list[n + 1].aid # aid
    <3> DEFINE s == kept[n]
               a == list[n + 1]
    <3>0. s \in Seq(A) /\ a \in A
      BY <2>1, <2>a
    <3> HIDE DEF s, a
    <3>b. /\ Append(s, a) \in Seq(A)
          /\ {Append(s, a)[i] : i \in DOMAIN Append(s, a)} = {s[i] : i \in DOMAIN s} \cup {a}
      BY <3>0, AppendedEntries, SMTT(30)
    <3>1. /\ Append(kept[n], list[n + 1]) \in Seq(A)
          /\ {Append(kept[n], list[n + 1])[i] : i \in DOMAIN Append(kept[n], list[n + 1])}
               = {kept[n][i] : i \in DOMAIN kept[n]} \cup {list[n + 1]}
      BY <3>b DEF s, a
    <3>2. QED
      BY <1>9, <2>2, <2>3, <2>5, <3>1
  <2>6. QED
    BY <2>4, <2>5
<1>10. wrong = {}
  <2> SUFFICES ASSUME wrong # {} PROVE FALSE
    OBVIOUS
  <2> HIDE DEF Right
  <2>1. PICK n \in wrong : \A m \in wrong : n <= m
    <3>1. wrong \in SUBSET Nat
      BY <1>2
    <3> HIDE DEF wrong
    <3>2. QED
      BY <3>1, SmallestOf
  <2>2. n \in 0 .. Len(list) /\ ~Right(n) /\ n # 0
    BY <1>8
  <2>3. n - 1 \in Nat /\ n - 1 \in 0 .. Len(list) /\ (n - 1) + 1 = n
    BY <1>2, <2>2
  <2>4. Right(n - 1)
    BY <1>2, <2>1, <2>3
  <2>5. QED
    BY <1>9, <2>2, <2>3, <2>4
<1>11. Right(Len(list))
  <2>1. Len(list) \in 0 .. Len(list)
    BY <1>2
  <2> HIDE DEF Right
  <2>2. QED
    BY <1>10, <2>1
<1>12. left(Len(list)) = {list[i] : i \in {i \in DOMAIN list : list[i].aid # aid}}
  BY <1>2
<1>13. QED
  BY <1>1, <1>11, <1>12

-------------------------------------------------------------------------------
(* The domains.  A handler that serves no recommendation has any key.      *)

AnyKey == Keys \cup {CHOOSE k \in Keys : TRUE}
AnyUser == Users \cup {CHOOSE u \in Users : TRUE}
ActionIds == Nat \X {"", "request", "rate", "dismiss", "undo"}

RecRows == [id : Nat, st : RecStatus]
SeriesRows == [mode : MonitorMode, status : {"missing", "following", "paused"}]
RequestRows == [st : {"none", "open", "withdrawn"}, mode : RequestMode, seasons : SUBSET Nat]
NoticeRows == [id : Nat, st : {"none", "due", "waiting", "delivered"}]
AskRows == [mode : RequestMode, seasons : SUBSET Nat, trial : TrialScope \cup {""}]
CallRows == [pc : {"idle", "told", "rules", "subject", "update", "track", "scope", "record",
                   "force", "ok", "error"},
             k : AnyKey, rid : Nat, aid : ActionIds,
             act : {"", "request", "rate", "dismiss", "undo", "retry", "patch"},
             ask : AskRows, told : BOOLEAN, row : SeriesRows, todo : SUBSET (Movies \cup Episodes)]
PassRows == [pc : {"idle", "seasons", "limits", "fetch", "prepare", "ids", "store"},
             row : SeriesRows, sel : SUBSET Nat, limit : Nat, eps : SUBSET Episodes,
             begun : SUBSET Episodes, aired : SUBSET Episodes,
             ids : SUBSET Episodes, todo : SUBSET Episodes]
ActionRows == [rid : Nat \ {0}, aid : ActionIds, act : MarkActs]
ListedRows == [key : Keys, id : Nat \ {0}]
CheckRows == [pc : {"idle", "flush", "scan", "sent"}, back : {"idle", "flush", "scan"},
              queue : Seq(ActionRows), users : SUBSET Users, user : AnyUser,
              media : {"movie", "series"},
              listed : SUBSET ListedRows, todo : SUBSET ListedRows, acted : BOOLEAN, h : Handlers]
GenerationRows == [pc : {"idle", "rank"}, user : AnyUser, excluded : SUBSET Titles]
WorkerRows == [pc : {"idle", "post", "finish"}, id : Nat, key : AnyKey, sent : BOOLEAN]

RecTypes ==
  /\ recs \in [Keys -> RecRows]
  /\ \A k \in Keys : recs[k].st = "active" => recs[k].id > 0
TableTypes ==
  /\ RecTypes
  /\ movie \in [Movies -> Phase] /\ episode \in [Episodes -> Phase]
  /\ series \in SeriesRows /\ selected \in SUBSET Nat
  /\ request \in [Keys -> RequestRows]
(* Which choices a handler serves where, and that one on a recommendation  *)
(* has the number of a row.                                                *)
RecActs == {"request", "rate", "dismiss", "undo"}
CallFits(h) ==
  /\ call[h].pc \in {"told", "rules", "subject", "track", "scope"} => call[h].act = "request"
  /\ call[h].pc = "record" => call[h].act \in RecActs
  /\ call[h].pc = "update" => call[h].act \in {"request", "patch"}
  /\ call[h].act \in RecActs => call[h].rid > 0
CallTypes == call \in [Handlers -> CallRows] /\ \A h \in Handlers : CallFits(h)
NoticeTypes ==
  /\ notice \in [Keys -> NoticeRows] /\ worker \in WorkerRows /\ posted \in [Keys -> Nat]
PluginTypes ==
  /\ outbox \in Seq(ActionRows) /\ monitor \in CheckRows
  /\ mark \in [Keys -> MarkActs \cup {""}]
  /\ \A r \in monitor.todo : mark[r.key] \in MarkActs
  /\ monitor.pc = "sent" => monitor.queue # <<>>

GenerationTypes ==
  generation \in GenerationRows /\ (generation.pc = "rank" => generation.user \in Users)

SystemTypes ==
  /\ budget \in [Kinds -> Nat] /\ scenario \in Scenarios
  /\ TableTypes /\ NoticeTypes /\ PluginTypes /\ GenerationTypes
  /\ CallTypes /\ pass \in [Passes -> PassRows]

-------------------------------------------------------------------------------
(* Finite tables and the numbers of new rows.                              *)

LEMMA FinitelyMany ==
  ASSUME NEW S, IsFiniteSet(S), NEW f
  PROVE  IsFiniteSet({f[x] : x \in S})
<1> DEFINE T == {f[x] : x \in S}
           g == [x \in S |-> f[x]]
<1>1. g \in Surjection(S, T)
  BY DEF Surjection
<1> HIDE DEF g, T
<1>2. IsFiniteSet(T)
  BY <1>1, FS_Surjection
<1>3. QED
  BY <1>2 DEF T

LEMMA KeysAreFinite == IsFiniteSet(Keys)
<1>1. IsFiniteSet(Users) /\ IsFiniteSet(Movies \cup {Show})
  BY TablesAssumption, FS_AddElement
<1>2. QED
  BY <1>1, FS_Product DEF Keys, Titles

(* New rows get numbers above those in use, each its own.                  *)
LEMMA FreshIds ==
  ASSUME NEW table, \A k \in Keys : table[k].id \in Nat,
         NEW keys \in SUBSET Keys, NEW id \in NewIds(table, keys)
  PROVE  /\ \A k \in keys : id[k] \in Nat /\ id[k] > 0
         /\ \A k \in keys, j \in Keys : table[j].id < id[k]
         /\ \A j, k \in keys : id[j] = id[k] => j = k
<1> DEFINE used == {table[k].id : k \in Keys}
           number == [k \in Keys |-> table[k].id]
           top == Largest(used)
<1>1. used = {number[k] : k \in Keys} /\ used \in SUBSET Nat
  OBVIOUS
<1>2. IsFiniteSet({number[k] : k \in Keys})
  <2> HIDE DEF number
  <2> QED
    BY KeysAreFinite, FinitelyMany
<1>3. top \in Nat /\ \A m \in used : m <= top
  <2> HIDE DEF number
  <2>1. IsFiniteSet(used) /\ used \in SUBSET Nat
    BY <1>1, <1>2
  <2> HIDE DEF used
  <2>2. QED
    BY <2>1, LargestOfFinite
<1>4. IsFiniteSet(keys) /\ Cardinality(keys) \in Nat
  BY KeysAreFinite, FS_Subset, FS_CardinalityType
<1>5. /\ id \in [keys -> (top + 1) .. (top + Cardinality(keys))]
      /\ \A j, k \in keys : id[j] = id[k] => j = k
  BY DEF NewIds
<1>6. \A k \in Keys : table[k].id \in used
  OBVIOUS
<1> HIDE DEF used, top
<1>7. QED
  BY <1>3, <1>4, <1>5, <1>6

(* The largest limit among open trials is a number.                        *)
LEMMA TrialLimitIsNat ==
  ASSUME TrialInv PROVE TrialEpisodeLimit \in Nat
<1> DEFINE limit == [u \in Users |-> Largest({1, trial[u].limit})]
           open == {v \in Users : Undecided(v) /\ Open(<<v, Show>>)}
<1>1. \A u \in Users : trial[u].limit \in Nat
  BY DEF TrialInv, TrialTypes, TrialRows
<1>2. ASSUME NEW u \in Users PROVE limit[u] \in Nat
  <2>1. {1, trial[u].limit} \in SUBSET Nat /\ IsFiniteSet({1, trial[u].limit})
    <3>1. IsFiniteSet({1}) /\ {1, trial[u].limit} = {1} \cup {trial[u].limit}
      BY FS_Singleton
    <3>2. QED
      BY <1>1, <3>1, FS_AddElement
  <2>2. QED
    BY <2>1, LargestOfFinite
<1>3. {limit[u] : u \in open} \in SUBSET Nat
  <2> HIDE DEF limit
  <2> QED
    BY <1>2
<1>4. IsFiniteSet({limit[u] : u \in open})
  <2>1. IsFiniteSet(open)
    BY TablesAssumption, FS_Subset
  <2> HIDE DEF limit, open
  <2>2. QED
    BY <2>1, FinitelyMany
<1>5. Largest({limit[u] : u \in open}) \in Nat
  <2> HIDE DEF limit, open
  <2> QED
    BY <1>3, <1>4, LargestOfFinite
<1>6. {limit[u] : u \in open} = {Largest({1, trial[u].limit}) : u \in open}
  OBVIOUS
<1>7. QED
  BY <1>5, <1>6 DEF TrialEpisodeLimit

-------------------------------------------------------------------------------
(* What the steps do to handlers.                                          *)

OthersRest(h) == \A g \in Handlers \ {h} : call'[g] = call[g]

(* A handler goes on with the recommendation and the choice it serves.     *)
Serves(h) ==
  /\ call' \in [Handlers -> CallRows] /\ OthersRest(h)
  /\ call'[h].k = call[h].k /\ call'[h].rid = call[h].rid /\ call'[h].aid = call[h].aid
  /\ call'[h].act = call[h].act /\ call'[h].ask = call[h].ask

(* A handler that was idle takes a request.                                *)
Takes(h, row) ==
  /\ call \in [Handlers -> CallRows] /\ row \in CallRows
  /\ call[h].pc = "idle" /\ call' = [call EXCEPT ![h] = row]

LEMMA IdleIsTyped ==
  /\ Idle \in CallRows
  /\ Idle.pc = "idle" /\ Idle.rid = 0 /\ Idle.act = "" /\ Idle.row = NoRow /\ Idle.todo = {}
  /\ Idle.aid \in ActionIds /\ Idle.ask = NoScope /\ Idle.told = FALSE /\ Idle.k \in AnyKey
  /\ NoRow \in SeriesRows /\ NoRow.mode = "none" /\ NoScope \in AskRows
<1>1. NoScope \in AskRows
  BY DEF NoScope, AskRows, RequestMode, TrialScope
<1>2. NoRow \in SeriesRows /\ NoRow.mode = "none"
  BY DEF NoRow, SeriesRows, MonitorMode
<1>3. <<0, "">> \in ActionIds
  BY DEF ActionIds
<1> HIDE DEF NoScope, NoRow
<1>4. /\ Idle.pc = "idle" /\ Idle.rid = 0 /\ Idle.act = "" /\ Idle.row = NoRow /\ Idle.todo = {}
      /\ Idle.aid = <<0, "">> /\ Idle.ask = NoScope /\ Idle.told = FALSE
      /\ Idle.k = CHOOSE k \in Keys : TRUE
  BY DEF Idle
<1>5. Idle \in CallRows
  BY <1>1, <1>2, <1>3, Zenon DEF Idle, CallRows, AnyKey
<1>6. QED
  BY <1>1, <1>2, <1>3, <1>4, <1>5, Zenon DEF AnyKey

LEMMA CallTakes ==
  ASSUME NEW h \in Handlers, NEW row, Takes(h, row)
  PROVE  call' \in [Handlers -> CallRows] /\ OthersRest(h) /\ call'[h] = row
  BY DEF Takes, OthersRest

LEMMA CallServes ==
  ASSUME call \in [Handlers -> CallRows], NEW h \in Handlers, NEW row \in CallRows,
         call' = [call EXCEPT ![h] = row],
         row.k = call[h].k, row.rid = call[h].rid, row.aid = call[h].aid,
         row.act = call[h].act, row.ask = call[h].ask
  PROVE  Serves(h) /\ call'[h] = row
  BY DEF Serves, OthersRest

LEMMA StepServes ==
  ASSUME call \in [Handlers -> CallRows], NEW h \in Handlers,
         NEW pc \in {"idle", "told", "rules", "subject", "update", "track", "scope", "record",
                     "force", "ok", "error"}, Step(h, pc)
  PROVE  /\ Serves(h) /\ call'[h].pc = pc
         /\ call'[h].told = call[h].told /\ call'[h].row = call[h].row
<1> DEFINE row == [call[h] EXCEPT !.pc = pc]
<1>1. /\ row \in CallRows /\ row.k = call[h].k /\ row.rid = call[h].rid /\ row.aid = call[h].aid
      /\ row.act = call[h].act /\ row.ask = call[h].ask /\ row.pc = pc
      /\ row.told = call[h].told /\ row.row = call[h].row
  BY DEF CallRows
<1>2. call' = [call EXCEPT ![h] = row]
  BY DEF Step
<1> HIDE DEF row
<1>3. QED
  BY <1>1, <1>2, CallServes

LEMMA ModesAreTyped ==
  ASSUME NEW c \in CallRows
  PROVE  /\ RequestedMode(c) \in RequestMode
         /\ ~c.told /\ c.k[2] = Show => SeriesMode(c) \in MonitorMode
         /\ \A have : Widens(have, SeriesMode(c)) => SeriesMode(c) \in MonitorMode \ {"none"}
<1>1. c.ask.mode \in RequestMode
  BY DEF CallRows, AskRows
<1>2. RequestMode = {"future_only", "latest_season", "all", ""}
      /\ MonitorMode = {"none", "future_only", "latest_season", "all"}
  BY DEF RequestMode, MonitorMode
<1>3. RequestedMode(c) \in RequestMode
  BY <1>1, <1>2 DEF RequestedMode
<1>4. ~c.told /\ c.k[2] = Show => SeriesMode(c) \in MonitorMode
  BY <1>1, <1>2 DEF SeriesMode, RequestedMode
<1>5. \A have : Widens(have, SeriesMode(c)) => SeriesMode(c) \in MonitorMode \ {"none"}
  BY <1>2 DEF Widens
<1>6. QED
  BY <1>3, <1>4, <1>5

LEMMA ReadSeriesServes ==
  ASSUME SystemTypes, NEW h \in Handlers, ReadSeries(h)
  PROVE  /\ Serves(h) /\ UNCHANGED tables
         /\ call'[h].told = call[h].told /\ call[h].k[2] = Show
         /\ \/ call'[h].pc = "track" /\ call'[h].row = call[h].row
            \/ call'[h].pc = "update" /\ call'[h].row = [series EXCEPT !.mode = SeriesMode(call[h])]
               /\ SeriesMode(call[h]) \in MonitorMode \ {"none"}
<1>1. call \in [Handlers -> CallRows] /\ call[h] \in CallRows /\ series \in SeriesRows
  BY DEF SystemTypes, CallTypes, TableTypes
<1> DEFINE widens == series.status = "following" /\ Widens(series.mode, SeriesMode(call[h]))
           next == [series EXCEPT !.mode = SeriesMode(call[h])]
           row == [call[h] EXCEPT !.pc = IF widens THEN "update" ELSE "track",
                                  !.row = IF widens THEN next ELSE @]
<1>2. call' = [call EXCEPT ![h] = row] /\ UNCHANGED tables /\ call[h].k[2] = Show
  BY <1>1 DEF ReadSeries
<1>3. widens => SeriesMode(call[h]) \in MonitorMode \ {"none"} /\ next \in SeriesRows
  BY <1>1, ModesAreTyped DEF SeriesRows
<1> HIDE DEF widens, next
<1>4. /\ row \in CallRows /\ row.k = call[h].k /\ row.rid = call[h].rid /\ row.aid = call[h].aid
      /\ row.act = call[h].act /\ row.ask = call[h].ask /\ row.told = call[h].told
      /\ row.pc = (IF widens THEN "update" ELSE "track")
      /\ row.row = (IF widens THEN next ELSE call[h].row)
  BY <1>1, <1>3 DEF CallRows
<1> HIDE DEF row
<1>5. Serves(h) /\ call'[h] = row
  BY <1>1, <1>2, <1>4, CallServes
<1>6. QED
  BY <1>2, <1>3, <1>4, <1>5 DEF next

LEMMA ReadRecordedServes ==
  ASSUME SystemTypes, NEW h \in Handlers, ReadRecorded(h)
  PROVE  Serves(h) /\ call'[h].row = call[h].row /\ call'[h].pc \in {"error", "rules", "subject"}
         /\ UNCHANGED tables /\ call[h].pc = "told"
<1>1. call \in [Handlers -> CallRows] /\ call[h] \in CallRows
  BY DEF SystemTypes, CallTypes
<1> DEFINE known == {f \in feedback : f.aid = call[h].aid}
           pc == CASE \E f \in known : f.act # "request" \/ f.key # call[h].k -> "error"
                   [] known = {} /\ call[h].k[2] = Show -> "rules"
                   [] OTHER -> "subject"
           row == [call[h] EXCEPT !.told = (known # {}), !.pc = pc]
<1>2. call' = [call EXCEPT ![h] = row] /\ UNCHANGED tables /\ call[h].pc = "told"
  BY <1>1 DEF ReadRecorded
<1>3. pc \in {"error", "rules", "subject"} /\ (known # {}) \in BOOLEAN
  OBVIOUS
<1> HIDE DEF pc, known
<1>4. /\ row \in CallRows /\ row.k = call[h].k /\ row.rid = call[h].rid /\ row.aid = call[h].aid
      /\ row.act = call[h].act /\ row.ask = call[h].ask /\ row.row = call[h].row /\ row.pc = pc
  BY <1>1, <1>3 DEF CallRows
<1> HIDE DEF row
<1>5. Serves(h) /\ call'[h] = row
  BY <1>1, <1>2, <1>4, CallServes
<1>6. QED
  BY <1>2, <1>3, <1>4, <1>5

LEMMA ForceSearchServes ==
  ASSUME SystemTypes, NEW h \in Handlers, NEW s \in call[h].todo, ForceSearch(h, s)
  PROVE  Serves(h) /\ call'[h].row = call[h].row /\ call[h].pc = "force"
         /\ call'[h].pc \in {"force", "error"}
<1>1. call \in [Handlers -> CallRows] /\ call[h] \in CallRows
  BY DEF SystemTypes, CallTypes
<1> DEFINE row == [call[h] EXCEPT !.todo = @ \ {s}]
<1>2. call[h].pc = "force" /\ (Answer(h, "error") \/ call' = [call EXCEPT ![h] = row])
  BY <1>1 DEF ForceSearch
<1>3. /\ row \in CallRows /\ row.k = call[h].k /\ row.rid = call[h].rid /\ row.aid = call[h].aid
      /\ row.act = call[h].act /\ row.ask = call[h].ask /\ row.row = call[h].row
      /\ row.pc = call[h].pc
  BY <1>1 DEF CallRows
<1> HIDE DEF row
<1>4. CASE Answer(h, "error")
  BY <1>1, <1>2, <1>4, StepServes DEF Answer
<1>5. CASE call' = [call EXCEPT ![h] = row]
  BY <1>1, <1>2, <1>3, <1>5, CallServes
<1>6. QED
  BY <1>2, <1>4, <1>5

(* Every other step of a handler only moves it on.                         *)
LEMMA HandlerServes ==
  ASSUME SystemTypes, NEW h \in Handlers, HandlerStep(h) \/ Fail(h)
  PROVE  Serves(h) /\ call[h].pc # "idle"
<1>0. call \in [Handlers -> CallRows]
  BY DEF SystemTypes, CallTypes
<1> USE DEF Answer
<1>1. CASE ReadRecorded(h) \/ ReadSeries(h)
  BY <1>1, ReadRecordedServes, ReadSeriesServes DEF ReadSeries
<1>2. CASE CheckRules(h) \/ RequestMovie(h) \/ CreateSeries(h)
  BY <1>0, <1>2, StepServes DEF CheckRules, RequestMovie, CreateSeries
<1>3. CASE UpdateSeries(h) \/ TrackRequest(h) \/ SelectSeasons(h)
  BY <1>0, <1>3, StepServes DEF UpdateSeries, TrackRequest, SelectSeasons
<1>4. CASE BeginTrial(h)
  BY <1>0, <1>4, StepServes DEF BeginTrial
<1>5. CASE Reopen(h) \/ Fail(h)
  BY <1>0, <1>5, StepServes DEF Reopen, Fail
<1>6. CASE Record(h)
  <2>1. call[h].act \in RecActs
    BY <1>6 DEF SystemTypes, CallTypes, CallFits, Record
  <2>2. Step(h, "ok") \/ Step(h, "error")
    BY <1>6, <2>1 DEF Record, RecActs
  <2>3. QED
    BY <1>0, <1>6, <2>2, StepServes DEF Record
<1>7. ASSUME NEW s \in call[h].todo, ForceSearch(h, s) PROVE Serves(h) /\ call[h].pc # "idle"
  BY <1>7, ForceSearchServes
<1>8. QED
  BY <1>1, <1>2, <1>3, <1>4, <1>5, <1>6, <1>7 DEF HandlerStep

LEMMA HandlerFits ==
  ASSUME SystemTypes, NEW h \in Handlers, HandlerStep(h) \/ Fail(h)
  PROVE  CallFits(h)'
<1>0. call \in [Handlers -> CallRows] /\ CallFits(h)
  BY DEF SystemTypes, CallTypes
<1>a. Serves(h)
  BY HandlerServes
<1> USE DEF Answer, CallFits
<1>1. CASE ReadRecorded(h)
  BY <1>0, <1>1, <1>a, ReadRecordedServes DEF Serves
<1>2. CASE ReadSeries(h)
  BY <1>0, <1>2, <1>a, ReadSeriesServes DEF Serves, ReadSeries
<1>3. CASE CheckRules(h)
  BY <1>0, <1>3, <1>a, StepServes DEF Serves, CheckRules
<1>4. CASE RequestMovie(h) \/ CreateSeries(h)
  BY <1>0, <1>4, <1>a, StepServes DEF Serves, RequestMovie, CreateSeries
<1>5. CASE UpdateSeries(h)
  BY <1>0, <1>5, <1>a, StepServes DEF Serves, UpdateSeries
<1>6. CASE TrackRequest(h) \/ SelectSeasons(h) \/ BeginTrial(h)
  BY <1>0, <1>6, <1>a, StepServes DEF Serves, TrackRequest, SelectSeasons, BeginTrial, RecActs
<1>7. CASE Record(h)
  <2>1. Step(h, "ok") \/ Step(h, "error")
    BY <1>0, <1>7 DEF Record, RecActs
  <2>2. QED
    BY <1>0, <1>a, <2>1, StepServes DEF Serves
<1>8. CASE Reopen(h) \/ Fail(h)
  BY <1>0, <1>8, <1>a, StepServes DEF Serves, Reopen, Fail
<1>9. ASSUME NEW s \in call[h].todo, ForceSearch(h, s) PROVE CallFits(h)'
  BY <1>0, <1>9, <1>a, ForceSearchServes DEF Serves
<1>10. QED
  BY <1>1, <1>2, <1>3, <1>4, <1>5, <1>6, <1>7, <1>8, <1>9 DEF HandlerStep

(* A handler takes an action on a recommendation by the number of its row. *)
LEMMA ReceiveTakes ==
  ASSUME SystemTypes, NEW h \in Handlers, NEW rid \in Nat \ {0}, NEW aid \in ActionIds,
         NEW act \in RecActs, NEW ask \in AskRows, Receive(h, rid, aid, act, ask)
  PROVE  /\ Takes(h, call'[h]) /\ CallFits(h)' /\ call'[h].aid = aid
         /\ \/ call'[h].pc = "error" /\ call'[h].act = ""
            \/ /\ call'[h].pc = IF act = "request" THEN "told" ELSE "record"
               /\ call'[h].rid = rid /\ call'[h].act = act /\ call'[h].ask = ask
               /\ call'[h].k \in Keys /\ recs[call'[h].k].id = rid
<1>1. call \in [Handlers -> CallRows] /\ call[h].pc = "idle"
  BY DEF SystemTypes, CallTypes, Receive, Free
<1> DEFINE refused == [Idle EXCEPT !.pc = "error", !.aid = aid]
           taken == [Idle EXCEPT !.pc = IF act = "request" THEN "told" ELSE "record",
                       !.k = RecOf(rid), !.rid = rid, !.aid = aid, !.act = act, !.ask = ask]
<1>2. CASE ~HasRec(rid)
  <2>1. call' = [call EXCEPT ![h] = refused]
    BY <1>2 DEF Receive
  <2>2. refused \in CallRows /\ refused.pc = "error" /\ refused.act = "" /\ refused.aid = aid
    BY IdleIsTyped DEF CallRows
  <2> HIDE DEF refused
  <2>3. call'[h] = refused
    BY <1>1, <2>1
  <2>4. QED
    BY <1>1, <2>1, <2>2, <2>3 DEF Takes, CallFits, RecActs
<1>3. CASE HasRec(rid)
  <2>1. call' = [call EXCEPT ![h] = taken]
    BY <1>3 DEF Receive
  <2>2. RecOf(rid) \in Keys /\ recs[RecOf(rid)].id = rid
    BY <1>3 DEF HasRec, RecOf
  <2>3. /\ taken \in CallRows /\ taken.k = RecOf(rid) /\ taken.rid = rid /\ taken.aid = aid
        /\ taken.act = act /\ taken.ask = ask
        /\ taken.pc = IF act = "request" THEN "told" ELSE "record"
    BY <2>2, IdleIsTyped DEF CallRows, AnyKey, RecActs
  <2> HIDE DEF taken
  <2>4. call'[h] = taken
    BY <1>1, <2>1
  <2>5. Takes(h, call'[h])
    BY <1>1, <2>1, <2>3, <2>4 DEF Takes
  <2>6. CallFits(h)'
    BY <2>3, <2>4 DEF CallFits, RecActs
  <2>7. QED
    BY <2>2, <2>3, <2>4, <2>5, <2>6
<1>4. QED
  BY <1>2, <1>3

LEMMA RetryTakes ==
  ASSUME SystemTypes, NEW h \in Handlers, NEW k \in Keys, ReceiveRetry(h, k)
  PROVE  /\ Takes(h, call'[h]) /\ CallFits(h)' /\ call'[h].act = "retry"
         /\ call'[h].pc \in {"error", "force"} /\ call'[h].todo = RetryTodo(k)
         /\ call'[h].row = NoRow
<1>1. call \in [Handlers -> CallRows] /\ call[h].pc = "idle"
  BY DEF SystemTypes, CallTypes, ReceiveRetry, Free
<1> DEFINE pc == IF RetryTodo(k) = {} THEN "error" ELSE "force"
           row == [Idle EXCEPT !.pc = pc, !.k = k, !.act = "retry", !.todo = RetryTodo(k)]
<1>2. call' = [call EXCEPT ![h] = row]
  BY DEF ReceiveRetry
<1>3. RetryTodo(k) \in SUBSET (Movies \cup Episodes)
  BY DEF RetryTodo, Stored, Keys, Titles
<1>4. /\ row \in CallRows /\ row.pc \in {"error", "force"} /\ row.act = "retry"
      /\ row.todo = RetryTodo(k) /\ row.row = NoRow
  BY <1>3, IdleIsTyped DEF CallRows, AnyKey
<1> HIDE DEF row
<1>5. call'[h] = row
  BY <1>1, <1>2
<1>6. QED
  BY <1>1, <1>2, <1>4, <1>5 DEF Takes, CallFits, RecActs

LEMMA PatchTakes ==
  ASSUME SystemTypes, NEW h \in Handlers, NEW p \in Patches, ReceivePatch(h, p)
  PROVE  /\ Takes(h, call'[h]) /\ CallFits(h)' /\ call'[h].act = "patch"
         /\ call'[h].pc = "update" /\ call'[h].row = Patched(series, p)
<1>1. call \in [Handlers -> CallRows] /\ call[h].pc = "idle" /\ series \in SeriesRows
  BY DEF SystemTypes, CallTypes, TableTypes, ReceivePatch, Free
<1>2. Patched(series, p) \in SeriesRows
  BY <1>1, AsksAssumption DEF Patched, SeriesRows, MonitorMode
<1> DEFINE row == [Idle EXCEPT !.pc = "update", !.act = "patch", !.row = Patched(series, p)]
<1>3. call' = [call EXCEPT ![h] = row]
  BY DEF ReceivePatch
<1>4. /\ row \in CallRows /\ row.pc = "update" /\ row.act = "patch"
      /\ row.row = Patched(series, p)
  BY <1>2, IdleIsTyped DEF CallRows
<1> HIDE DEF row
<1>5. call'[h] = row
  BY <1>1, <1>3
<1>6. QED
  BY <1>1, <1>3, <1>4, <1>5 DEF Takes, CallFits, RecActs

LEMMA ReturnIdles ==
  ASSUME SystemTypes, NEW h \in Handlers, Return(h)
  PROVE  call' \in [Handlers -> CallRows] /\ OthersRest(h) /\ call'[h] = Idle /\ CallFits(h)'
<1>1. call \in [Handlers -> CallRows] /\ Idle \in CallRows
  BY IdleIsTyped DEF SystemTypes, CallTypes
<1>2. call' \in [Handlers -> CallRows] /\ OthersRest(h) /\ call'[h] = Idle
  BY <1>1 DEF Return, OthersRest
<1>3. CallFits(h)'
  BY <1>2, IdleIsTyped DEF CallFits, RecActs
<1>4. QED
  BY <1>2, <1>3

(* What the plugin sends is an action of its outbox or of a mark.          *)
MarkAction(r) == [rid |-> r.id, aid |-> <<r.id, mark[r.key]>>, act |-> mark[r.key]]

LEMMA ActionsAreTyped ==
  ASSUME SystemTypes
  PROVE  /\ monitor.queue # <<>> => Head(monitor.queue) \in ActionRows
         /\ \A r \in monitor.todo : MarkAction(r) \in ActionRows
         /\ \A a \in ActionRows : /\ a.rid \in Nat \ {0} /\ a.aid \in ActionIds
                                  /\ a.act \in RecActs /\ a.act \in MarkActs
<1>1. monitor.queue \in Seq(ActionRows) /\ monitor.todo \in SUBSET ListedRows
  BY DEF SystemTypes, PluginTypes, CheckRows
<1>2. monitor.queue # <<>> => Head(monitor.queue) \in ActionRows
  BY <1>1
<1>3. ASSUME NEW r \in monitor.todo PROVE MarkAction(r) \in ActionRows
  <2>1. mark[r.key] \in MarkActs /\ r.id \in Nat \ {0}
    BY <1>1 DEF SystemTypes, PluginTypes, ListedRows
  <2>2. <<r.id, mark[r.key]>> \in ActionIds
    BY <2>1 DEF ActionIds, MarkActs
  <2>3. QED
    BY <2>1, <2>2 DEF MarkAction, ActionRows
<1>4. \A a \in ActionRows : /\ a.rid \in Nat \ {0} /\ a.aid \in ActionIds
                            /\ a.act \in RecActs /\ a.act \in MarkActs
  BY DEF ActionRows, MarkActs, RecActs
<1>5. QED
  BY <1>2, <1>3, <1>4

LEMMA SendTakes ==
  ASSUME SystemTypes, NEW h \in Handlers, NEW a \in ActionRows, Send(h, a)
  PROVE  /\ Takes(h, call'[h]) /\ CallFits(h)' /\ call'[h].aid = a.aid
         /\ \/ call'[h].pc = "error" /\ call'[h].act = ""
            \/ /\ call'[h].pc = IF a.act = "request" THEN "told" ELSE "record"
               /\ call'[h].rid = a.rid /\ call'[h].act = a.act /\ call'[h].ask = NoScope
               /\ call'[h].k \in Keys /\ recs[call'[h].k].id = a.rid
<1>1. a.rid \in Nat \ {0} /\ a.aid \in ActionIds /\ a.act \in RecActs
  BY ActionsAreTyped
<1> DEFINE rid == a.rid
           aid == a.aid
           act == a.act
<1>2. /\ rid \in Nat \ {0} /\ aid \in ActionIds /\ act \in RecActs /\ NoScope \in AskRows
      /\ Receive(h, rid, aid, act, NoScope)
  BY <1>1, IdleIsTyped DEF Send
<1> HIDE DEF rid, aid, act
<1>3. /\ Takes(h, call'[h]) /\ CallFits(h)' /\ call'[h].aid = aid
      /\ \/ call'[h].pc = "error" /\ call'[h].act = ""
         \/ /\ call'[h].pc = IF act = "request" THEN "told" ELSE "record"
            /\ call'[h].rid = rid /\ call'[h].act = act /\ call'[h].ask = NoScope
            /\ call'[h].k \in Keys /\ recs[call'[h].k].id = rid
  BY <1>2, ReceiveTakes
<1>4. QED
  BY <1>3 DEF rid, aid, act

(* The steps of the plugin's monitor, by what they do to handlers.         *)
LEMMA MonitorCalls ==
  ASSUME SystemTypes, NEW enabled, MonitorStep(enabled)
  PROVE  \/ UNCHANGED call
         \/ \E h \in Handlers, a \in ActionRows : Send(h, a)
         \/ Answered
<1>1. CASE BeginCheck(enabled) \/ RefreshVirtual \/ \E u \in Users, media \in {"movie", "series"} : ListActive(u, media)
  BY <1>1 DEF BeginCheck, RefreshVirtual, ListActive
<1>2. ASSUME NEW h \in Handlers, SendQueued(h) PROVE \E a \in ActionRows : Send(h, a)
  BY <1>2, ActionsAreTyped DEF SendQueued
<1>3. ASSUME NEW h \in Handlers, NEW r \in monitor.todo, SendMark(h, r)
      PROVE  \E a \in ActionRows : Send(h, a)
  <2>1. Send(h, MarkAction(r))
    BY <1>3 DEF SendMark, MarkAction
  <2>2. QED
    BY <2>1, ActionsAreTyped
<1>4. QED
  BY <1>1, <1>2, <1>3 DEF MonitorStep

LEMMA UserTakes ==
  ASSUME SystemTypes, NEW h \in Handlers, NEW k \in Keys, NEW act \in scenario.acts,
         NEW ask \in scenario.asks, UserActs(h, k, act, ask)
  PROVE  /\ act \in RecActs /\ ask \in AskRows /\ recs[k].id \in Nat \ {0}
         /\ <<100 + budget["post"], act>> \in ActionIds
         /\ Receive(h, recs[k].id, <<100 + budget["post"], act>>, act, ask)
<1>1. act \in RecActs /\ ask \in Asks
  BY ScenariosAssumption DEF SystemTypes, RecActs
<1>2. ask \in AskRows
  BY <1>1, AsksAssumption DEF AskRows
<1>3. recs[k].id \in Nat \ {0}
  BY DEF SystemTypes, TableTypes, RecTypes, RecRows, UserActs
<1>4. budget["post"] \in Nat
  BY DEF SystemTypes, Kinds
<1>5. <<100 + budget["post"], act>> \in ActionIds
  <2>1. 100 + budget["post"] \in Nat
    BY <1>4
  <2>2. QED
    BY <1>1, <2>1, Zenon DEF ActionIds, RecActs
<1>6. QED
  BY <1>1, <1>2, <1>3, <1>5 DEF UserActs

LEMMA CallTypesStep ==
  ASSUME SystemTypes, [Next]_vars PROVE CallTypes'
<1>0. CallTypes
  BY DEF SystemTypes
<1> USE DEF tables, recVars, subjectVars, requestVars, syncVars
<1>a. ASSUME UNCHANGED call PROVE CallTypes'
  BY <1>0, <1>a DEF CallTypes, CallFits
<1>b. ASSUME NEW h \in Handlers, call' \in [Handlers -> CallRows], OthersRest(h), CallFits(h)'
      PROVE  CallTypes'
  BY <1>0, <1>b DEF CallTypes, CallFits, OthersRest
<1>c. ASSUME NEW h \in Handlers, Takes(h, call'[h]), CallFits(h)' PROVE CallTypes'
  BY <1>b, <1>c, CallTakes
<1>d. ASSUME NEW h \in Handlers, Return(h) PROVE CallTypes'
  BY <1>b, <1>d, ReturnIdles
<1>1. ASSUME NEW h \in Handlers, NEW k \in Keys, UserRetries(h, k) PROVE CallTypes'
  BY <1>1, <1>c, RetryTakes DEF UserRetries
<1>2. ASSUME NEW h \in Handlers, NEW k \in Keys, NEW act \in scenario.acts,
             NEW ask \in scenario.asks, UserActs(h, k, act, ask)
      PROVE  CallTypes'
  <2> DEFINE rid == recs[k].id
             aid == <<100 + budget["post"], act>>
  <2>1. act \in RecActs /\ ask \in AskRows /\ rid \in Nat \ {0} /\ aid \in ActionIds
        /\ Receive(h, rid, aid, act, ask)
    BY <1>2, UserTakes
  <2> HIDE DEF rid, aid
  <2>2. Takes(h, call'[h]) /\ CallFits(h)'
    BY <2>1, ReceiveTakes
  <2>3. QED
    BY <1>c, <2>2
<1>3. ASSUME NEW h \in Handlers, NEW patch \in Patches, OperatorPatches(h, patch)
      PROVE  CallTypes'
  BY <1>3, <1>c, PatchTakes DEF OperatorPatches
<1>4. ASSUME NEW h \in Handlers, Handle(h) \/ HandlerFails(h) PROVE CallTypes'
  BY <1>4, <1>b, HandlerServes, HandlerFits DEF Handle, HandlerFails, Serves
<1>5. ASSUME NEW h \in Handlers, ForgetCall(h) PROVE CallTypes'
  BY <1>5, <1>d DEF ForgetCall, Forget
<1>6. CASE \E k \in Keys : UserCancels(k)
  BY <1>6, <1>a DEF UserCancels, CancelRequest
<1>7. CASE \E u \in Users, decision \in {"continue", "stop"} : UserVotes(u, decision)
  BY <1>7, <1>a DEF UserVotes, Vote
<1>8. CASE \E u \in Users, e \in Episodes : UserWatches(u, e)
  BY <1>8, <1>a DEF UserWatches, Playback
<1>9. ASSUME NEW p \in Passes, RunPass(p) \/ PassAborts(p) \/ \E e \in Episodes : PassSkips(p, e)
      PROVE  CallTypes'
  BY <1>9, <1>a DEF RunPass, PassAborts, PassSkips
<1>10. CASE \E e \in Episodes : ProviderAnnounces(e) \/ EpisodeAirs(e)
  BY <1>10, <1>a DEF ProviderAnnounces, EpisodeAirs
<1>11. CASE \E s \in Movies \cup Episodes : Acquire(s)
  BY <1>11, <1>a DEF Acquire
<1>12. CASE SyncStep \/ SyncFault \/ Notify \/ NotifyFault
  BY <1>12, <1>a DEF SyncStep, SyncFault, Notify, NotifyFault
<1>13. CASE Generate \/ PluginFault
  BY <1>13, <1>a DEF Generate, GenerateRead, GenerateFail, GenerateReplace, Prune,
                    PluginFault, LoseAnswer, Mark
<1>14. CASE Monitor
  <2>1. CASE \E h \in Handlers, a \in ActionRows : Send(h, a)
    BY <1>c, <2>1, SendTakes
  <2>2. CASE Answered
    <3>1. monitor.h \in Handlers /\ Return(monitor.h)
      BY <2>2 DEF Answered, SystemTypes, PluginTypes, CheckRows
    <3>2. QED
      BY <1>d, <3>1
  <2>3. QED
    BY <1>14, <1>a, <2>1, <2>2, MonitorCalls DEF Monitor
<1>15. CASE UNCHANGED vars
  BY <1>15, <1>a DEF vars
<1>16. QED
  BY <1>1, <1>2, <1>3, <1>4, <1>5, <1>6, <1>7, <1>8, <1>9, <1>10, <1>11, <1>12, <1>13, <1>14,
     <1>15 DEF Next

-------------------------------------------------------------------------------
(* What the steps do to recommendations.                                   *)

LEMMA StatusMoves ==
  ASSUME RecTypes, NEW k \in Keys, NEW st \in RecStatus, st = "active" => recs[k].id > 0,
         recs' = [recs EXCEPT ![k].st = st]
  PROVE  /\ RecTypes' /\ recs'[k].st = st /\ recs'[k].id = recs[k].id
         /\ \A j \in Keys \ {k} : recs'[j] = recs[j]
<1> DEFINE row == [recs[k] EXCEPT !.st = st]
<1>1. recs \in [Keys -> RecRows] /\ recs[k] \in RecRows
  BY DEF RecTypes
<1>2. row \in RecRows /\ row.st = st /\ row.id = recs[k].id
  BY <1>1 DEF RecRows
<1>3. recs' = [recs EXCEPT ![k] = row]
  OBVIOUS
<1> HIDE DEF row
<1>4. recs' \in [Keys -> RecRows] /\ recs'[k] = row /\ \A j \in Keys \ {k} : recs'[j] = recs[j]
  BY <1>1, <1>2, <1>3
<1>5. QED
  BY <1>2, <1>4 DEF RecTypes

(* Acting on a recommendation, or rating it, takes it off the list.        *)
LEMMA TakenOff ==
  ASSUME RecTypes, NEW k \in Keys, NEW st \in {"requested", "dismissed"},
         recs' = IF recs[k].id = 0 THEN recs ELSE [recs EXCEPT ![k].st = st]
  PROVE  /\ RecTypes' /\ recs'[k].st # "active" /\ recs'[k].id = recs[k].id
         /\ \A j \in Keys \ {k} : recs'[j] = recs[j]
<1>1. CASE recs[k].id = 0
  BY <1>1 DEF RecTypes
<1>2. CASE recs[k].id # 0
  <2>1. recs' = [recs EXCEPT ![k].st = st] /\ st \in RecStatus /\ st # "active"
    BY <1>2 DEF RecStatus
  <2>2. QED
    BY <2>1, StatusMoves
<1>3. QED
  BY <1>1, <1>2

(* A handler records an action, a rating or an undo on the row it was      *)
(* sent for, or nothing.                                                   *)
Recorded(h) ==
  \E k \in Keys :
    /\ call[h].pc = "record" /\ recs[k].id = call[h].rid /\ call[h].rid > 0
    /\ k = RecOf(call[h].rid)
    /\ \/ /\ call[h].act = "undo" /\ CanUndo(k) /\ UndoDismissal(k) /\ UNCHANGED rated
       \/ call[h].act = "rate" /\ RecordRating(k) /\ UNCHANGED feedback
       \/ /\ call[h].act \in {"request", "dismiss"}
          /\ RecordAction(k, call[h].aid, call[h].act) /\ UNCHANGED rated

LEMMA RecordRecords ==
  ASSUME SystemTypes, NEW h \in Handlers, Record(h)
  PROVE  /\ \/ Recorded(h) /\ Step(h, "ok")
            \/ UNCHANGED recVars /\ Step(h, "error")
         /\ UNCHANGED <<subjectVars, requestVars, syncVars>>
<1>1. call[h].act \in RecActs /\ call[h].rid > 0 /\ call[h].pc = "record"
  BY DEF SystemTypes, CallTypes, CallFits, Record, RecActs
<1>2. CASE ~HasRec(call[h].rid)
  BY <1>2 DEF Record, Answer
<1>3. CASE HasRec(call[h].rid)
  <2> DEFINE k == RecOf(call[h].rid)
  <2>1. k \in Keys /\ recs[k].id = call[h].rid
    BY <1>3 DEF HasRec, RecOf
  <2>2. CASE call[h].act = "undo"
    <3>1. IF CanUndo(k) THEN UndoDismissal(k) /\ Answer(h, "ok") /\ UNCHANGED rated
          ELSE Answer(h, "error") /\ UNCHANGED recVars
      BY <1>3, <2>2 DEF Record
    <3> HIDE DEF k
    <3>2. CASE CanUndo(k)
      BY <1>1, <2>1, <2>2, <3>1, <3>2 DEF Recorded, Answer, Record, k
    <3>3. CASE ~CanUndo(k)
      BY <3>1, <3>3 DEF Answer, Record
    <3>4. QED
      BY <3>2, <3>3
  <2>3. CASE call[h].act = "rate"
    <3>1. RecordRating(k) /\ Answer(h, "ok") /\ UNCHANGED feedback
      BY <1>3, <2>3 DEF Record
    <3> HIDE DEF k
    <3>2. QED
      BY <1>1, <2>1, <2>3, <3>1 DEF Recorded, Answer, Record, k
  <2>4. CASE call[h].act \in {"request", "dismiss"}
    <3>1. RecordAction(k, call[h].aid, call[h].act) /\ Answer(h, "ok") /\ UNCHANGED rated
      BY <1>3, <2>4 DEF Record
    <3> HIDE DEF k
    <3>2. QED
      BY <1>1, <2>1, <2>4, <3>1 DEF Recorded, Answer, Record, k
  <2>5. QED
    BY <1>1, <2>2, <2>3, <2>4 DEF RecActs
<1>4. QED
  BY <1>2, <1>3

LEMMA RecordedTypes ==
  ASSUME SystemTypes, NEW h \in Handlers, Recorded(h)
  PROVE  RecTypes'
<1>1. PICK k \in Keys :
        /\ call[h].pc = "record" /\ recs[k].id = call[h].rid /\ call[h].rid > 0
        /\ \/ /\ call[h].act = "undo" /\ CanUndo(k) /\ UndoDismissal(k) /\ UNCHANGED rated
           \/ call[h].act = "rate" /\ RecordRating(k) /\ UNCHANGED feedback
           \/ /\ call[h].act \in {"request", "dismiss"}
              /\ RecordAction(k, call[h].aid, call[h].act) /\ UNCHANGED rated
  BY DEF Recorded
<1>2. RecTypes
  BY DEF SystemTypes, TableTypes
<1>3. CASE UndoDismissal(k)
  BY <1>1, <1>2, <1>3, StatusMoves DEF UndoDismissal, RecStatus
<1>4. CASE RecordRating(k)
  BY <1>2, <1>4, TakenOff DEF RecordRating
<1>5. CASE RecordAction(k, call[h].aid, call[h].act)
  <2>1. CASE recs' = recs
    BY <1>2, <2>1 DEF RecTypes
  <2>2. CASE recs' # recs
    <3> DEFINE st == IF call[h].act = "request" THEN "requested" ELSE "dismissed"
    <3>1. recs' = IF recs[k].id = 0 THEN recs ELSE [recs EXCEPT ![k].st = st]
      BY <1>5, <2>2 DEF RecordAction
    <3>2. st \in {"requested", "dismissed"}
      OBVIOUS
    <3> HIDE DEF st
    <3>3. QED
      BY <1>2, <3>1, <3>2, TakenOff
  <2>3. QED
    BY <2>1, <2>2
<1>6. QED
  BY <1>1, <1>3, <1>4, <1>5

(* A new list keeps what was acted on; a new row has a number of its own.  *)
LEMMA ReplacedRows ==
  ASSUME RecTypes, NEW u \in Users, NEW offered \in SUBSET Titles, Replace(u, Titles, offered)
  PROVE  /\ RecTypes'
         /\ \A k \in Keys : \/ recs'[k] = recs[k]
                            \/ recs'[k] = NoRec
                            \/ /\ k[1] = u /\ k[2] \in offered /\ recs[k].id = 0
                               /\ recs'[k].id > 0 /\ \A j \in Keys : recs[j].id < recs'[k].id
                               /\ \A j \in Keys \ {k} : recs'[j].id # recs'[k].id
<1> DEFINE new == {<<u, t>> : t \in {t \in offered : recs[<<u, t>>].id = 0}}
<1>1. PICK id \in NewIds(recs, new) :
        recs' = [k \in Keys |->
          IF k \in new THEN [id |-> id[k], st |-> "active"]
          ELSE IF k[1] = u /\ k[2] \in Titles \ offered /\ recs[k].st = "active" THEN NoRec
          ELSE recs[k]]
  BY DEF Replace
<1>2. new \in SUBSET Keys /\ \A k \in new : k[1] = u /\ k[2] \in offered /\ recs[k].id = 0
  <2> SUFFICES ASSUME NEW k \in new
               PROVE  k \in Keys /\ k[1] = u /\ k[2] \in offered /\ recs[k].id = 0
    OBVIOUS
  <2>1. PICK t \in offered : recs[<<u, t>>].id = 0 /\ k = <<u, t>>
    OBVIOUS
  <2>2. <<u, t>> \in Keys /\ <<u, t>>[1] = u /\ <<u, t>>[2] = t
    BY DEF Keys
  <2>3. QED
    BY <2>1, <2>2
<1>3. recs \in [Keys -> RecRows] /\ \A k \in Keys : recs[k].id \in Nat
  BY DEF RecTypes, RecRows
<1> HIDE DEF new
<1>4. /\ \A k \in new : id[k] \in Nat /\ id[k] > 0
      /\ \A k \in new, j \in Keys : recs[j].id < id[k]
      /\ \A j, k \in new : id[j] = id[k] => j = k
  BY <1>2, <1>3, FreshIds
<1>5. NoRec \in RecRows /\ NoRec.st # "active" /\ NoRec.id = 0
  BY DEF NoRec, RecRows, RecStatus
<1>6. \A k \in new : recs'[k] \in RecRows /\ recs'[k].id > 0 /\ recs'[k].id = id[k]
  BY <1>1, <1>2, <1>4 DEF RecRows, RecStatus
<1>7. \A k \in Keys \ new : recs'[k] = NoRec \/ recs'[k] = recs[k]
  BY <1>1
<1>8. recs' \in [Keys -> RecRows]
  <2>1. recs' = [k \in Keys |-> recs'[k]]
    BY <1>1
  <2>2. \A k \in Keys : recs'[k] \in RecRows
    BY <1>3, <1>5, <1>6, <1>7
  <2>3. QED
    BY <2>1, <2>2
<1>9. RecTypes'
  BY <1>5, <1>6, <1>7, <1>8 DEF RecTypes
<1>10. ASSUME NEW k \in new, NEW j \in Keys \ {k} PROVE recs'[j].id # recs'[k].id
  <2>1. CASE j \in new
    BY <1>4, <1>6, <2>1
  <2>2. CASE j \notin new
    <3>1. recs'[j].id = 0 \/ recs'[j].id < id[k]
      BY <1>4, <1>5, <1>7, <2>2
    <3>2. recs'[j].id \in Nat
      BY <1>3, <1>5, <1>7, <2>2 DEF RecRows
    <3>3. QED
      BY <1>4, <1>6, <3>1, <3>2
  <2>3. QED
    BY <2>1, <2>2
<1>11. \A k \in new : \A j \in Keys : recs[j].id < recs'[k].id
  BY <1>4, <1>6
<1>12. QED
  BY <1>2, <1>6, <1>7, <1>9, <1>10, <1>11

-------------------------------------------------------------------------------
(* What the steps do to requests, monitors and items.                      *)

LEMMA RequestMoves ==
  ASSUME request \in [Keys -> RequestRows], NEW k, NEW row,
         k \in Keys => row \in RequestRows, request' = [request EXCEPT ![k] = row]
  PROVE  request' \in [Keys -> RequestRows]
  OBVIOUS

LEMMA MergedIsMode ==
  ASSUME NEW have \in RequestMode, NEW new \in RequestMode
  PROVE  MergedMode(have, new) \in RequestMode
  BY DEF MergedMode

LEMMA TrackedRequest ==
  ASSUME request \in [Keys -> RequestRows], NEW k, NEW mode \in RequestMode, NEW reopen \in BOOLEAN,
         CreateForAction(k, mode, reopen)
  PROVE  request' \in [Keys -> RequestRows]
<1> DEFINE row == IF request[k].st = "none" THEN [st |-> "open", mode |-> mode, seasons |-> {}]
                  ELSE [request[k] EXCEPT !.st = IF reopen THEN "open" ELSE @,
                                          !.mode = MergedMode(@, mode)]
<1>1. request' = [request EXCEPT ![k] = row]
  BY DEF CreateForAction
<1>2. ASSUME k \in Keys PROVE row \in RequestRows
  <2>1. request[k] \in RequestRows /\ MergedMode(request[k].mode, mode) \in RequestMode
    BY <1>2, MergedIsMode DEF RequestRows
  <2>2. QED
    BY <2>1 DEF RequestRows
<1> HIDE DEF row
<1>3. QED
  BY <1>1, <1>2, RequestMoves

LEMMA OpenedOrClosed ==
  ASSUME request \in [Keys -> RequestRows], NEW k, NEW st \in {"open", "withdrawn"},
         request' = [request EXCEPT ![k].st = st]
  PROVE  request' \in [Keys -> RequestRows]
<1> DEFINE row == [request[k] EXCEPT !.st = st]
<1>1. request' = [request EXCEPT ![k] = row]
  OBVIOUS
<1>2. k \in Keys => row \in RequestRows
  BY DEF RequestRows
<1> HIDE DEF row
<1>3. QED
  BY <1>1, <1>2, RequestMoves

LEMMA HandlerTables ==
  ASSUME SystemTypes, TrialInv', NEW h \in Handlers, HandlerStep(h)
  PROVE  TableTypes'
<1>0. /\ TableTypes /\ RecTypes /\ call[h] \in CallRows /\ call[h].row \in SeriesRows
      /\ call[h].ask.seasons \in SUBSET Nat /\ call[h].told \in BOOLEAN
      /\ episode' \in [Episodes -> Phase]
  BY DEF SystemTypes, CallTypes, TableTypes, CallRows, AskRows, TrialInv, TrialTypes
<1> USE DEF tables, recVars, subjectVars, requestVars, syncVars
<1>a. ASSUME UNCHANGED <<recs, movie, series, selected, request>> PROVE TableTypes'
  BY <1>0, <1>a DEF TableTypes, RecTypes
<1>1. CASE ReadRecorded(h) \/ CheckRules(h) \/ ReadSeries(h) \/ BeginTrial(h)
  BY <1>1, <1>a DEF ReadRecorded, CheckRules, ReadSeries, BeginTrial
<1>2. CASE RequestMovie(h)
  <2>1. UNCHANGED <<recs, series, selected, request>>
    BY <1>2 DEF RequestMovie
  <2>2. UNCHANGED movie
        \/ movie' = [movie EXCEPT ![call[h].k[2]] = IF @ = "missing" THEN "wanted" ELSE @]
    BY <1>2 DEF RequestMovie
  <2>3. movie' \in [Movies -> Phase]
    BY <1>0, <2>2 DEF TableTypes, Phase
  <2>4. QED
    BY <1>0, <2>1, <2>3 DEF TableTypes, RecTypes
<1>3. CASE CreateSeries(h)
  <2>1. UNCHANGED <<recs, movie, selected, request>>
    BY <1>3 DEF CreateSeries
  <2>2. series' \in SeriesRows
    <3>1. CASE call[h].told
      BY <1>0, <1>3, <3>1 DEF CreateSeries, TableTypes
    <3>2. CASE ~call[h].told
      <4>1. series' = [mode |-> SeriesMode(call[h]), status |-> "following"]
            /\ call[h].k[2] = Show
        BY <1>3, <3>2 DEF CreateSeries
      <4>2. SeriesMode(call[h]) \in MonitorMode
        BY <1>0, <3>2, <4>1, ModesAreTyped
      <4>3. QED
        BY <4>1, <4>2 DEF SeriesRows
    <3>3. QED
      BY <3>1, <3>2
  <2>3. QED
    BY <1>0, <2>1, <2>2 DEF TableTypes, RecTypes
<1>4. CASE UpdateSeries(h)
  BY <1>0, <1>4 DEF UpdateSeries, TableTypes, RecTypes
<1>5. CASE TrackRequest(h)
  <2>1. UNCHANGED <<recs, movie, series, selected>>
        /\ CreateForAction(call[h].k, RequestedMode(call[h]), ~call[h].told)
    BY <1>5 DEF TrackRequest
  <2>2. RequestedMode(call[h]) \in RequestMode /\ request \in [Keys -> RequestRows]
        /\ (~call[h].told) \in BOOLEAN
    BY <1>0, ModesAreTyped DEF TableTypes
  <2>3. request' \in [Keys -> RequestRows]
    <3> DEFINE k == call[h].k
               mode == RequestedMode(call[h])
               reopen == ~call[h].told
    <3>1. mode \in RequestMode /\ reopen \in BOOLEAN /\ CreateForAction(k, mode, reopen)
      BY <2>1, <2>2
    <3> HIDE DEF k, mode, reopen
    <3>2. QED
      BY <2>2, <3>1, TrackedRequest
  <2>4. QED
    BY <1>0, <2>1, <2>3 DEF TableTypes, RecTypes
<1>6. CASE SelectSeasons(h)
  <2> DEFINE k == <<call[h].k[1], Show>>
             row == [request[k] EXCEPT !.seasons = @ \cup call[h].ask.seasons]
  <2>1. /\ UNCHANGED <<recs, movie, series>>
        /\ selected' = selected \cup call[h].ask.seasons
        /\ request' = [request EXCEPT ![k] = row]
    BY <1>6 DEF SelectSeasons, AddSeasons
  <2>2. request \in [Keys -> RequestRows] /\ (k \in Keys => row \in RequestRows)
    BY <1>0 DEF TableTypes, RequestRows
  <2> HIDE DEF k, row
  <2>3. request' \in [Keys -> RequestRows]
    BY <2>1, <2>2, RequestMoves
  <2>4. selected' \in SUBSET Nat
    BY <1>0, <2>1 DEF TableTypes
  <2>5. QED
    BY <1>0, <2>1, <2>3, <2>4 DEF TableTypes, RecTypes
<1>7. CASE Record(h)
  <2>1. UNCHANGED <<movie, series, selected, request>>
    BY <1>7 DEF Record
  <2>2. RecTypes'
    <3>1. CASE Recorded(h)
      BY <3>1, RecordedTypes
    <3>2. CASE UNCHANGED recVars
      BY <1>0, <3>2 DEF RecTypes
    <3>3. QED
      BY <1>7, <3>1, <3>2, RecordRecords
  <2>3. QED
    BY <1>0, <2>1, <2>2 DEF TableTypes
<1>8. ASSUME NEW s \in call[h].todo, ForceSearch(h, s) PROVE TableTypes'
  <2>1. UNCHANGED <<recs, series, selected, request>>
    BY <1>8 DEF ForceSearch
  <2>2. UNCHANGED movie \/ movie' = [movie EXCEPT ![s] = "wanted"]
    BY <1>8 DEF ForceSearch
  <2>3. movie' \in [Movies -> Phase]
    BY <1>0, <2>2 DEF TableTypes, Phase
  <2>4. QED
    BY <1>0, <2>1, <2>3 DEF TableTypes, RecTypes
<1>9. CASE Reopen(h)
  <2>1. UNCHANGED <<recs, movie, series, selected>> /\ Reactivate(call[h].k)
    BY <1>9 DEF Reopen
  <2>2. request' \in [Keys -> RequestRows]
    BY <1>0, <2>1, OpenedOrClosed DEF Reactivate, TableTypes
  <2>3. QED
    BY <1>0, <2>1, <2>2 DEF TableTypes, RecTypes
<1>10. QED
  BY <1>1, <1>2, <1>3, <1>4, <1>5, <1>6, <1>7, <1>8, <1>9 DEF HandlerStep


LEMMA VoteTables ==
  ASSUME SystemTypes, TrialInv', NEW u \in Users, NEW decision \in {"continue", "stop"},
         Vote(u, decision)
  PROVE  TableTypes'
<1> DEFINE k == <<u, Show>>
           st == IF decision = "continue" THEN "requested" ELSE "dismissed"
<1>1. k \in Keys
  BY DEF Keys, Titles
<1>2. /\ UNCHANGED <<movie, selected>> /\ episode' \in [Episodes -> Phase]
      /\ recs' = IF recs[k].id = 0 THEN recs ELSE [recs EXCEPT ![k].st = st]
      /\ \/ /\ series' = [mode |-> "all", status |-> "following"]
            /\ request' = [request EXCEPT ![k].mode = "all"]
         \/ UNCHANGED series /\ Cancel(k)
  BY DEF Vote, VoteTrial, TrialInv, TrialTypes
<1>3. TableTypes /\ RecTypes /\ st \in {"requested", "dismissed"}
  BY DEF SystemTypes, TableTypes
<1>4. series' \in SeriesRows
  BY <1>2, <1>3 DEF TableTypes, SeriesRows, MonitorMode
<1> HIDE DEF k, st
<1>5. RecTypes'
  BY <1>1, <1>2, <1>3, TakenOff
<1>6. request' \in [Keys -> RequestRows]
  <2>1. CASE Cancel(k)
    BY <1>3, <2>1, OpenedOrClosed DEF Cancel, TableTypes
  <2>2. CASE request' = [request EXCEPT ![k].mode = "all"]
    <3> DEFINE row == [request[k] EXCEPT !.mode = "all"]
    <3>1. row \in RequestRows /\ request' = [request EXCEPT ![k] = row]
      BY <1>1, <1>3, <2>2 DEF TableTypes, RequestRows, RequestMode, MonitorMode
    <3> HIDE DEF row
    <3>2. QED
      BY <1>3, <3>1, RequestMoves DEF TableTypes
  <2>3. QED
    BY <1>2, <2>1, <2>2
<1>7. QED
  BY <1>2, <1>3, <1>4, <1>5, <1>6 DEF TableTypes

LEMMA GenerateTables ==
  ASSUME SystemTypes, Generate
  PROVE  RecTypes' /\ UNCHANGED <<movie, series, selected, request, episode>>
<1> USE DEF tables, recVars, subjectVars, requestVars, syncVars
<1>1. RecTypes
  BY DEF SystemTypes, TableTypes
<1>2. CASE GenerateFail \/ \E u \in Users : GenerateRead(u)
  BY <1>1, <1>2 DEF GenerateFail, GenerateRead, RecTypes
<1>3. ASSUME NEW offered \in SUBSET Titles, GenerateReplace(offered)
      PROVE  RecTypes' /\ UNCHANGED <<movie, series, selected, request, episode>>
  <2> DEFINE u == generation.user
  <2>1. Replace(u, Titles, offered) /\ u \in Users
    BY <1>3 DEF GenerateReplace, SystemTypes, GenerationTypes
  <2> HIDE DEF u
  <2>2. RecTypes'
    BY <1>1, <2>1, ReplacedRows
  <2>3. QED
    BY <1>3, <2>2 DEF GenerateReplace
<1>4. ASSUME NEW k \in Keys, Prune(k)
      PROVE  RecTypes' /\ UNCHANGED <<movie, series, selected, request, episode>>
  <2>1. NoRec \in RecRows /\ NoRec.st # "active"
    BY DEF NoRec, RecRows, RecStatus
  <2>2. recs' = [recs EXCEPT ![k] = NoRec] /\ UNCHANGED <<movie, series, selected, request, episode>>
    BY <1>4 DEF Prune
  <2> HIDE DEF NoRec
  <2>3. QED
    BY <1>1, <2>1, <2>2 DEF RecTypes
<1>5. QED
  BY <1>2, <1>3, <1>4 DEF Generate


LEMMA TableTypesStep ==
  ASSUME SystemTypes, TrialInv', [Next]_vars PROVE TableTypes'
<1>0. TableTypes /\ RecTypes /\ episode' \in [Episodes -> Phase]
  BY DEF SystemTypes, TableTypes, TrialInv, TrialTypes
<1> USE DEF tables, recVars, subjectVars, requestVars, syncVars
<1>a. ASSUME UNCHANGED <<recs, movie, series, selected, request>> PROVE TableTypes'
  BY <1>0, <1>a DEF TableTypes, RecTypes
<1>1. ASSUME NEW h \in Handlers, Handle(h) PROVE TableTypes'
  BY <1>1, HandlerTables DEF Handle
<1>2. ASSUME NEW h \in Handlers, HandlerFails(h) \/ ForgetCall(h) PROVE TableTypes'
  BY <1>2, <1>a DEF HandlerFails, Fail, ForgetCall, Forget
<1>3. ASSUME NEW h \in Handlers, NEW k \in Keys, UserRetries(h, k) PROVE TableTypes'
  BY <1>3, <1>a DEF UserRetries, ReceiveRetry
<1>4. ASSUME NEW h \in Handlers, NEW k \in Keys, NEW act \in scenario.acts,
             NEW ask \in scenario.asks, UserActs(h, k, act, ask)
      PROVE  TableTypes'
  BY <1>4, <1>a DEF UserActs
<1>5. ASSUME NEW h \in Handlers, NEW patch \in Patches, OperatorPatches(h, patch)
      PROVE  TableTypes'
  BY <1>5, <1>a DEF OperatorPatches, ReceivePatch
<1>6. ASSUME NEW k \in Keys, UserCancels(k) PROVE TableTypes'
  <2>1. UNCHANGED <<recs, movie, series, selected>> /\ Cancel(k)
    BY <1>6 DEF UserCancels, CancelRequest
  <2>2. request' \in [Keys -> RequestRows]
    BY <1>0, <2>1, OpenedOrClosed DEF Cancel, TableTypes
  <2>3. QED
    BY <1>0, <2>1, <2>2 DEF TableTypes, RecTypes
<1>7. ASSUME NEW u \in Users, NEW decision \in {"continue", "stop"}, UserVotes(u, decision)
      PROVE  TableTypes'
  BY <1>7, VoteTables DEF UserVotes
<1>8. ASSUME NEW u \in Users, NEW e \in Episodes, UserWatches(u, e) PROVE TableTypes'
  BY <1>8, <1>a DEF UserWatches, Playback
<1>9. ASSUME NEW p \in Passes, RunPass(p) \/ PassAborts(p) \/ \E e \in Episodes : PassSkips(p, e)
      PROVE  TableTypes'
  <2>1. UNCHANGED <<recs, movie, series, selected, request>>
    BY <1>9 DEF RunPass, PassStep, ListSeries, ReadSeasons, ReadLimits, FetchEpisodes, StoreAnnounced,
                SelectEpisodes,
                ReadSelected, FinishPass, StoreEpisode, PassAborts, AbortPass, PassSkips, SkipEpisode
  <2>2. QED
    BY <1>a, <2>1
<1>10. CASE \E e \in Episodes : ProviderAnnounces(e) \/ EpisodeAirs(e)
  BY <1>10, <1>a DEF ProviderAnnounces, Announce, EpisodeAirs, Air
<1>11. ASSUME NEW s \in Movies \cup Episodes, Acquire(s) PROVE TableTypes'
  <2>1. UNCHANGED <<recs, series, selected, request>>
    BY <1>11 DEF Acquire
  <2>2. \/ UNCHANGED movie
        \/ \E phase \in {"active", "imported", "failed"} : movie' = [movie EXCEPT ![s] = phase]
    BY <1>11 DEF Acquire
  <2>3. movie' \in [Movies -> Phase]
    BY <1>0, <2>2 DEF TableTypes, Phase
  <2>4. QED
    BY <1>0, <2>1, <2>3 DEF TableTypes, RecTypes
<1>12. CASE SyncStep \/ SyncFault
  <2>1. UNCHANGED <<recs, movie, series, selected, request>>
    BY <1>12 DEF SyncStep, AvailStep, BeginSync, SendBatch, SendComplete, HandleBatch,
                 HandleComplete, SyncFault, LoseMessage, GiveUp, ChangeLibrary
  <2>2. QED
    BY <1>a, <2>1
<1>13. CASE Notify \/ NotifyFault
  <2>1. UNCHANGED <<recs, movie, series, selected, request>>
    BY <1>13 DEF Notify, WorkerStep, Claim, Finish, Post, ComeDue, NotifyFault, Abandon
  <2>2. QED
    BY <1>a, <2>1
<1>14. CASE Generate
  BY <1>0, <1>14, GenerateTables DEF TableTypes
<1>15. CASE Monitor \/ PluginFault
  <2>1. UNCHANGED <<recs, movie, series, selected, request>>
    BY <1>15 DEF Monitor, MonitorStep, BeginCheck, Answered, RefreshVirtual, SendQueued,
                 SendMark, ListActive, PluginFault, LoseAnswer, Mark
  <2>2. QED
    BY <1>a, <2>1
<1>16. CASE UNCHANGED vars
  BY <1>16, <1>a DEF vars
<1>17. QED
  BY <1>1, <1>2, <1>3, <1>4, <1>5, <1>6, <1>7, <1>8, <1>9, <1>10, <1>11, <1>12, <1>13, <1>14,
     <1>15, <1>16 DEF Next

-------------------------------------------------------------------------------
(* What the steps do to notices.                                           *)

LEMMA NoticeMoves ==
  ASSUME notice \in [Keys -> NoticeRows], NEW k \in Keys,
         NEW st \in {"none", "due", "waiting", "delivered"}, notice' = [notice EXCEPT ![k].st = st]
  PROVE  /\ notice' \in [Keys -> NoticeRows]
         /\ notice'[k].st = st /\ notice'[k].id = notice[k].id
         /\ \A j \in Keys \ {k} : notice'[j] = notice[j]
<1> DEFINE row == [notice[k] EXCEPT !.st = st]
<1>1. row \in NoticeRows /\ row.st = st /\ row.id = notice[k].id
  BY DEF NoticeRows
<1>2. notice' = [notice EXCEPT ![k] = row]
  OBVIOUS
<1> HIDE DEF row
<1>3. QED
  BY <1>1, <1>2

LEMMA NoticeDrops ==
  ASSUME notice \in [Keys -> NoticeRows], NEW k, DropNotice(k)
  PROVE  /\ notice' \in [Keys -> NoticeRows]
         /\ k \in Keys => notice'[k] = IF notice[k].st = "delivered" THEN notice[k] ELSE NoNotice
         /\ \A j \in Keys \ {k} : notice'[j] = notice[j]
<1>1. NoNotice \in NoticeRows
  BY DEF NoNotice, NoticeRows
<1> HIDE DEF NoNotice
<1>2. QED
  BY <1>1 DEF DropNotice

LEMMA NoticeFinishes ==
  ASSUME notice \in [Keys -> NoticeRows], NEW id, NEW failed \in BOOLEAN,
         FinishNotification(id, failed)
  PROVE  /\ notice' \in [Keys -> NoticeRows]
         /\ \A k \in Keys : notice[k].id # id \/ id = 0 => notice'[k] = notice[k]
         /\ \A k \in Keys : notice[k].id = id /\ id # 0 =>
              /\ notice'[k].id = id
              /\ notice'[k].st = (IF ~failed \/ notice[k].st = "delivered" THEN "delivered" ELSE "waiting")
<1> DEFINE st(k) == IF ~failed \/ notice[k].st = "delivered" THEN "delivered" ELSE "waiting"
           row(k) == [notice[k] EXCEPT !.st = st(k)]
<1>1. notice' = [k \in Keys |-> IF notice[k].id # id \/ id = 0 THEN notice[k] ELSE row(k)]
  BY DEF FinishNotification
<1>2. ASSUME NEW k \in Keys
      PROVE  row(k) \in NoticeRows /\ row(k).id = notice[k].id /\ row(k).st = st(k)
  BY DEF NoticeRows
<1> HIDE DEF row
<1>3. QED
  BY <1>1, <1>2

(* A completed synchronisation gives requests without a notice a new one.  *)
LEMMA NoticesComeUp ==
  ASSUME notice \in [Keys -> NoticeRows], NEW token, CompleteSync(token)
  PROVE  /\ notice' \in [Keys -> NoticeRows]
         /\ \A k \in Keys : \/ notice'[k] = notice[k]
                            \/ /\ notice[k].id = 0 /\ notice'[k].st = "due" /\ notice'[k].id > 0
                               /\ \A j \in Keys : notice[j].id < notice'[k].id
                               /\ \A j \in Keys \ {k} : notice'[j].id # notice'[k].id
<1> DEFINE there == {i \in JellyfinItems : item[i].present /\ item[i].token = token}
           due == {k \in Keys : /\ Open(k) /\ notice[k].id = 0
                                /\ \E i \in there : TitleOf[i] = k[2]}
<1>1. PICK id \in NewIds(notice, due) :
        notice' = [k \in Keys |-> IF k \in due THEN [id |-> id[k], st |-> "due"] ELSE notice[k]]
  BY DEF CompleteSync
<1>2. due \in SUBSET Keys /\ (\A k \in due : notice[k].id = 0) /\ \A k \in Keys : notice[k].id \in Nat
  BY DEF NoticeRows
<1> HIDE DEF due
<1>3. /\ \A k \in due : id[k] \in Nat /\ id[k] > 0
      /\ \A k \in due, j \in Keys : notice[j].id < id[k]
      /\ \A j, k \in due : id[j] = id[k] => j = k
  BY <1>2, FreshIds
<1>4. \A k \in due : notice'[k] \in NoticeRows /\ notice'[k].id = id[k] /\ notice'[k].st = "due"
  BY <1>1, <1>2, <1>3 DEF NoticeRows
<1>5. \A k \in Keys \ due : notice'[k] = notice[k]
  BY <1>1
<1>6. notice' \in [Keys -> NoticeRows]
  <2>1. \A k \in Keys : notice'[k] \in NoticeRows
    BY <1>4, <1>5
  <2>2. notice' = [k \in Keys |-> notice'[k]]
    BY <1>1
  <2>3. QED
    BY <2>1, <2>2
<1>7. \A k \in due : \A j \in Keys \ {k} : notice'[j].id # notice'[k].id
  BY <1>2, <1>3, <1>4, <1>5
<1>8. QED
  BY <1>2, <1>3, <1>4, <1>5, <1>6, <1>7


LEMMA Spending ==
  ASSUME budget \in [Kinds -> Nat], NEW kind \in Kinds, Spend(kind)
  PROVE  /\ budget' \in [Kinds -> Nat] /\ budget'[kind] = budget[kind] - 1
         /\ \A other \in Kinds \ {kind} : budget'[other] = budget[other]
  BY DEF Spend

(* The steps by what they do to notices and to the worker.                 *)
Keeps(kind) == budget'[kind] = budget[kind]
Quiet == UNCHANGED <<notice, worker, posted>> /\ Keeps("abandon") /\ Keeps("race")
Withdraws(k) ==
  /\ DropNotice(k) /\ UNCHANGED <<worker, posted>>
  /\ \E kind \in {"cancel", "vote"} :
       Spend(IF worker.pc # "idle" /\ worker.key = k THEN "race" ELSE kind)
Completes(token) == CompleteSync(token) /\ UNCHANGED <<worker, posted, budget>>
Works ==
  /\ (\E k \in Keys : Claim(k) \/ ComeDue(k)) \/ Finish \/ Post(TRUE, TRUE) \/ Post(FALSE, TRUE)
  /\ Keeps("abandon") /\ Keeps("race")
Abandons == (Abandon \/ Post(TRUE, FALSE)) /\ Spend("abandon")

LEMMA NoticeSteps ==
  ASSUME SystemTypes, [Next]_vars
  PROVE  \/ Quiet \/ Works \/ Abandons
         \/ \E k \in Keys : Withdraws(k)
         \/ \E token : Completes(token)
<1> USE DEF tables, recVars, subjectVars, requestVars, syncVars, availVars, workerVars, systemVars
<1>0. budget \in [Kinds -> Nat] /\ {"abandon", "race"} \subseteq Kinds
  BY DEF SystemTypes, Kinds
<1>a. ASSUME UNCHANGED <<notice, worker, posted>>,
             UNCHANGED budget \/ \E kind \in Kinds \ {"abandon", "race"} : Spend(kind)
      PROVE  Quiet
  BY <1>0, <1>a, Spending DEF Quiet, Keeps
<1>1. ASSUME NEW h \in Handlers, Handle(h) \/ ForgetCall(h) PROVE Quiet
  <2>1. UNCHANGED budget /\ (UNCHANGED syncVars)
    BY <1>1 DEF Handle, HandlerStep, ReadRecorded, CheckRules, RequestMovie, CreateSeries,
         ReadSeries, UpdateSeries, TrackRequest, SelectSeasons, BeginTrial, Record, ForceSearch,
         Reopen, ForgetCall, Forget
  <2>2. UNCHANGED <<worker, posted>>
    BY <1>1 DEF Handle, ForgetCall
  <2>3. QED
    BY <1>a, <2>1, <2>2
<1>2. ASSUME NEW h \in Handlers, HandlerFails(h) PROVE Quiet
  <2>1. Spend("fail") /\ "fail" \in Kinds \ {"abandon", "race"}
    BY <1>2 DEF HandlerFails, Kinds
  <2>2. QED
    BY <1>2, <1>a, <2>1 DEF HandlerFails, Fail
<1>3. ASSUME NEW h \in Handlers, NEW k \in Keys, UserRetries(h, k) PROVE Quiet
  <2>1. Spend("retry") /\ "retry" \in Kinds \ {"abandon", "race"}
    BY <1>3 DEF UserRetries, Kinds
  <2>2. QED
    BY <1>3, <1>a, <2>1 DEF UserRetries, ReceiveRetry
<1>4. ASSUME NEW h \in Handlers, NEW k \in Keys, NEW act, NEW ask, UserActs(h, k, act, ask)
      PROVE  Quiet
  <2>1. Spend("post") /\ "post" \in Kinds \ {"abandon", "race"}
    BY <1>4 DEF UserActs, Kinds
  <2>2. QED
    BY <1>4, <1>a, <2>1 DEF UserActs
<1>5. ASSUME NEW h \in Handlers, NEW patch \in Patches, OperatorPatches(h, patch) PROVE Quiet
  <2>1. Spend("patch") /\ "patch" \in Kinds \ {"abandon", "race"}
    BY <1>5 DEF OperatorPatches, Kinds
  <2>2. QED
    BY <1>5, <1>a, <2>1 DEF OperatorPatches, ReceivePatch
<1>6. ASSUME NEW k \in Keys, UserCancels(k) PROVE Withdraws(k)
  BY <1>6 DEF UserCancels, CancelRequest, Cancel, Withdraws
<1>7. ASSUME NEW u \in Users, UserVotes(u, "continue") PROVE Quiet
  <2>1. Spend("vote") /\ "vote" \in Kinds \ {"abandon", "race"} /\ Vote(u, "continue")
    BY <1>7 DEF UserVotes, Kinds
  <2>2. QED
    BY <1>7, <1>a, <2>1 DEF UserVotes, Vote, VoteTrial
<1>8. ASSUME NEW u \in Users, UserVotes(u, "stop") PROVE \E k \in Keys : Withdraws(k)
  <2>1. <<u, Show>> \in Keys
    BY DEF Keys, Titles
  <2>2. Withdraws(<<u, Show>>)
    BY <1>8 DEF UserVotes, Vote, VoteTrial, Cancel, Withdraws
  <2>3. QED
    BY <2>1, <2>2
<1>9. ASSUME NEW u \in Users, NEW e \in Episodes, UserWatches(u, e) PROVE Quiet
  BY <1>9, <1>a DEF UserWatches, Playback
<1>10. ASSUME NEW p \in Passes, RunPass(p) PROVE Quiet
  <2>1. UNCHANGED <<notice, worker, posted, budget>>
    BY <1>10 DEF RunPass, PassStep, ListSeries, ReadSeasons, ReadLimits, FetchEpisodes, StoreAnnounced,
                SelectEpisodes,
                 ReadSelected, FinishPass, StoreEpisode
  <2>2. QED
    BY <1>a, <2>1
<1>11. ASSUME NEW p \in Passes, PassAborts(p) PROVE Quiet
  <2>1. Spend("abort") /\ "abort" \in Kinds \ {"abandon", "race"}
    BY <1>11 DEF PassAborts, Kinds
  <2>2. QED
    BY <1>11, <1>a, <2>1 DEF PassAborts, AbortPass
<1>12. ASSUME NEW p \in Passes, NEW e \in Episodes, PassSkips(p, e) PROVE Quiet
  <2>1. Spend("skip") /\ "skip" \in Kinds \ {"abandon", "race"}
    BY <1>12 DEF PassSkips, Kinds
  <2>2. QED
    BY <1>12, <1>a, <2>1 DEF PassSkips, SkipEpisode
<1>13. ASSUME NEW e \in Episodes, ProviderAnnounces(e) PROVE Quiet
  <2>1. Spend("announce") /\ "announce" \in Kinds \ {"abandon", "race"}
    BY <1>13 DEF ProviderAnnounces, Kinds
  <2>2. QED
    BY <1>13, <1>a, <2>1 DEF ProviderAnnounces, Announce
<1>14. ASSUME NEW e \in Episodes, EpisodeAirs(e) PROVE Quiet
  BY <1>14, <1>a DEF EpisodeAirs, Air
<1>15. ASSUME NEW s \in Movies \cup Episodes, Acquire(s) PROVE Quiet
  <2>1. UNCHANGED budget \/ Spend("broken")
    BY <1>15 DEF Acquire
  <2>2. "broken" \in Kinds \ {"abandon", "race"}
    BY DEF Kinds
  <2>3. QED
    BY <1>15, <1>a, <2>1, <2>2 DEF Acquire
<1>16. CASE SyncStep \/ SyncFault
  <2>1. UNCHANGED <<worker, posted>>
    BY <1>16 DEF SyncStep, AvailStep, BeginSync, SendBatch, SendComplete, HandleBatch,
                 HandleComplete, SyncFault, LoseMessage, GiveUp, ChangeLibrary
  <2>2. \/ UNCHANGED <<notice, budget>>
        \/ UNCHANGED budget /\ \E token : CompleteSync(token)
        \/ UNCHANGED notice /\ \E kind \in {"lose", "giveup", "library"} : Spend(kind)
    <3>1. CASE SyncStep
      BY <3>1 DEF SyncStep, AvailStep, BeginSync, SendBatch, SendComplete, HandleBatch, HandleComplete
    <3>2. CASE SyncFault
      BY <3>2 DEF SyncFault, LoseMessage, GiveUp, ChangeLibrary
    <3>3. QED
      BY <1>16, <3>1, <3>2
  <2>3. {"lose", "giveup", "library"} \subseteq Kinds \ {"abandon", "race"}
    BY DEF Kinds
  <2>4. QED
    BY <1>a, <2>1, <2>2, <2>3 DEF Completes
<1>17. CASE Notify
  BY <1>17 DEF Notify, WorkerStep, Works, Keeps
<1>18. CASE NotifyFault
  <2>1. CASE Spend("abandon") /\ (Abandon \/ Post(TRUE, FALSE))
    BY <2>1 DEF Abandons
  <2>2. CASE Spend("refuse") /\ Post(FALSE, TRUE)
    <3>1. "refuse" \in Kinds /\ "refuse" # "abandon" /\ "refuse" # "race"
      BY DEF Kinds
    <3>2. Keeps("abandon") /\ Keeps("race")
      BY <1>0, <2>2, <3>1, Spending DEF Keeps
    <3>3. QED
      BY <2>2, <3>2 DEF Works
  <2>3. QED
    BY <1>18, <2>1, <2>2 DEF NotifyFault
<1>19. CASE Generate
  <2>1. UNCHANGED <<notice, worker, posted>>
    BY <1>19 DEF Generate, GenerateRead, GenerateFail, GenerateReplace, Prune
  <2>2. UNCHANGED budget \/ Spend("generate") \/ Spend("prune")
    BY <1>19 DEF Generate
  <2>3. {"generate", "prune"} \subseteq Kinds \ {"abandon", "race"}
    BY DEF Kinds
  <2>4. QED
    BY <1>a, <2>1, <2>2, <2>3
<1>20. CASE Monitor \/ PluginFault
  <2>1. UNCHANGED <<notice, worker, posted>>
    BY <1>20 DEF Monitor, MonitorStep, BeginCheck, Answered, RefreshVirtual, SendQueued,
                 SendMark, ListActive, PluginFault, LoseAnswer, Mark
  <2>2. UNCHANGED budget \/ Spend("unanswered") \/ Spend("mark")
    BY <1>20 DEF Monitor, PluginFault
  <2>3. {"unanswered", "mark"} \subseteq Kinds \ {"abandon", "race"}
    BY DEF Kinds
  <2>4. QED
    BY <1>a, <2>1, <2>2, <2>3
<1>21. CASE UNCHANGED vars
  BY <1>21, <1>a DEF vars
<1>22. QED
  BY <1>1, <1>2, <1>3, <1>4, <1>5, <1>6, <1>7, <1>8, <1>9, <1>10, <1>11, <1>12, <1>13, <1>14,
     <1>15, <1>16, <1>17, <1>18, <1>19, <1>20, <1>21 DEF Next


LEMMA RestIsTyped ==
  /\ Resting \in WorkerRows /\ Resting.pc = "idle" /\ Resting.sent = FALSE
  /\ NoPass \in PassRows /\ NoPass.pc = "idle" /\ NoPass.row = NoRow /\ NoPass.sel = {}
  /\ NoPass.ids = {} /\ NoPass.limit = 0
<1>1. NoRow \in SeriesRows
  BY IdleIsTyped
<1> HIDE DEF NoRow
<1>2. NoPass \in PassRows /\ NoPass.pc = "idle" /\ NoPass.row = NoRow /\ NoPass.sel = {}
      /\ NoPass.ids = {} /\ NoPass.limit = 0
  BY <1>1 DEF NoPass, PassRows
<1>3. Resting.pc = "idle" /\ Resting.id = 0 /\ Resting.sent = FALSE
      /\ Resting.key = CHOOSE k \in Keys : TRUE
  BY DEF Resting
<1>4. Resting \in WorkerRows
  BY Zenon DEF Resting, WorkerRows, AnyKey
<1>5. QED
  BY <1>2, <1>3, <1>4

LEMMA NoticeTypesStep ==
  ASSUME SystemTypes, [Next]_vars PROVE NoticeTypes'
<1> USE DEF NoticeTypes
<1>0. NoticeTypes
  BY DEF SystemTypes
<1>1. CASE Quiet
  BY <1>0, <1>1 DEF Quiet
<1>2. ASSUME NEW k \in Keys, Withdraws(k) PROVE NoticeTypes'
  BY <1>0, <1>2, NoticeDrops DEF Withdraws
<1>3. ASSUME NEW token, Completes(token) PROVE NoticeTypes'
  BY <1>0, <1>3, NoticesComeUp DEF Completes
<1>5. ASSUME NEW k \in Keys, Claim(k) PROVE NoticeTypes'
  <2>1. notice' \in [Keys -> NoticeRows] /\ UNCHANGED posted
    BY <1>0, <1>5, NoticeMoves DEF Claim, ClaimNotification
  <2>2. worker' \in WorkerRows
    BY <1>0, <1>5 DEF Claim, NoticeRows, WorkerRows, AnyKey
  <2>3. QED
    BY <1>0, <2>1, <2>2
<1>6. ASSUME NEW k \in Keys, ComeDue(k) PROVE NoticeTypes'
  BY <1>0, <1>6, NoticeMoves DEF ComeDue, availVars, workerVars
<1>7. CASE Finish
  <2>1. (~worker.sent) \in BOOLEAN
    OBVIOUS
  <2>2. FinishNotification(worker.id, ~worker.sent) /\ worker' = Resting /\ UNCHANGED posted
    BY <1>7 DEF Finish
  <2> DEFINE id == worker.id
             failed == ~worker.sent
  <2> HIDE DEF id, failed
  <2>3. notice' \in [Keys -> NoticeRows]
    BY <1>0, <2>1, <2>2, NoticeFinishes DEF id, failed
  <2>4. QED
    BY <1>0, <2>2, <2>3, RestIsTyped
<1>8. ASSUME NEW accepted \in BOOLEAN, NEW answered \in BOOLEAN, Post(accepted, answered)
      PROVE  NoticeTypes'
  <2> DEFINE row == [worker EXCEPT !.pc = "finish", !.sent = accepted /\ answered]
  <2>1. UNCHANGED notice /\ worker' = row
        /\ posted' = IF accepted THEN [posted EXCEPT ![worker.key] = @ + 1] ELSE posted
    BY <1>8 DEF Post, tables, syncVars
  <2>2. row \in WorkerRows
    BY <1>0, <1>8 DEF WorkerRows
  <2> HIDE DEF row
  <2>3. posted' \in [Keys -> Nat]
    <3> DEFINE k == worker.key
    <3>1. posted \in [Keys -> Nat] /\ (UNCHANGED posted \/ posted' = [posted EXCEPT ![k] = @ + 1])
      BY <1>0, <2>1
    <3> HIDE DEF k
    <3>2. QED
      BY <3>1
  <2>4. QED
    BY <1>0, <2>1, <2>2, <2>3
<1>9. CASE Abandons
  <2>1. CASE Abandon
    BY <1>0, <2>1, RestIsTyped DEF Abandon, tables, syncVars, libraryVars
  <2>2. QED
    BY <1>8, <1>9, <2>1 DEF Abandons
<1>10. QED
  BY <1>1, <1>2, <1>3, <1>5, <1>6, <1>7, <1>8, <1>9, NoticeSteps DEF Works

-------------------------------------------------------------------------------
(* What the steps do to passes.                                            *)

LEMMA PassMoves ==
  ASSUME pass \in [Passes -> PassRows], NEW p \in Passes, NEW row \in PassRows,
         pass' = [pass EXCEPT ![p] = row]
  PROVE  pass' \in [Passes -> PassRows] /\ pass'[p] = row /\ \A q \in Passes \ {p} : pass'[q] = pass[q]
  OBVIOUS

(* A pass goes on with what it read: its row, seasons, limit and, once it  *)
(* has read them, the episodes of trials.                                  *)
Carries(p) ==
  /\ pass' \in [Passes -> PassRows] /\ \A q \in Passes \ {p} : pass'[q] = pass[q]
  /\ pass'[p].row = pass[p].row /\ pass'[p].sel = pass[p].sel

LEMMA ListedPass ==
  ASSUME SystemTypes, NEW p \in Passes, ListSeries(p)
  PROVE  /\ pass' \in [Passes -> PassRows] /\ \A q \in Passes \ {p} : pass'[q] = pass[q]
         /\ pass'[p].row = series /\ pass'[p].sel = {} /\ pass'[p].ids = {}
<1> DEFINE row == [NoPass EXCEPT !.pc = "seasons", !.row = series]
<1>1. pass \in [Passes -> PassRows] /\ series \in SeriesRows /\ pass' = [pass EXCEPT ![p] = row]
  BY DEF SystemTypes, TableTypes, ListSeries
<1>2. row \in PassRows /\ row.row = series /\ row.sel = {} /\ row.ids = {}
  BY <1>1, RestIsTyped DEF PassRows
<1> HIDE DEF row
<1>3. QED
  BY <1>1, <1>2, PassMoves

LEMMA SeasonsPass ==
  ASSUME SystemTypes, NEW p \in Passes, ReadSeasons(p)
  PROVE  /\ pass' \in [Passes -> PassRows] /\ \A q \in Passes \ {p} : pass'[q] = pass[q]
         /\ pass'[p].row = pass[p].row /\ pass'[p].sel = selected /\ pass'[p].ids = pass[p].ids
<1> DEFINE row == [pass[p] EXCEPT !.pc = "limits", !.sel = selected]
<1>1. pass \in [Passes -> PassRows] /\ selected \in SUBSET Nat /\ pass' = [pass EXCEPT ![p] = row]
  BY DEF SystemTypes, TableTypes, ReadSeasons
<1>2. row \in PassRows /\ row.row = pass[p].row /\ row.sel = selected /\ row.ids = pass[p].ids
  BY <1>1 DEF PassRows
<1> HIDE DEF row
<1>3. QED
  BY <1>1, <1>2, PassMoves

LEMMA CarriedPass ==
  ASSUME SystemTypes, NEW p \in Passes,
         \/ FetchEpisodes(p) \/ SelectEpisodes(p)
         \/ \E e \in Episodes : StoreAnnounced(p, e) \/ StoreEpisode(p, e) \/ SkipEpisode(p, e)
  PROVE  Carries(p) /\ pass'[p].ids = pass[p].ids
<1>1. pass \in [Passes -> PassRows] /\ pass[p] \in PassRows
  BY DEF SystemTypes
<1>a. ASSUME NEW row \in PassRows, row.row = pass[p].row, row.sel = pass[p].sel,
             row.ids = pass[p].ids, pass' = [pass EXCEPT ![p] = row]
      PROVE  Carries(p) /\ pass'[p].ids = pass[p].ids
  BY <1>1, <1>a, PassMoves DEF Carries
<1>2. CASE FetchEpisodes(p)
  <2> DEFINE eps == {e \in Episodes : provider[e] # "unknown"}
             begun == {e \in eps : provider[e] \in {"begun", "aired"}}
             aired == {e \in eps : provider[e] = "aired"}
             row == [pass[p] EXCEPT !.pc = IF pass[p].limit > 0 THEN "prepare" ELSE "store",
                                    !.eps = eps, !.todo = eps, !.begun = begun, !.aired = aired]
  <2>1. pass' = [pass EXCEPT ![p] = row]
    BY <1>1, <1>2 DEF FetchEpisodes
  <2>2. eps \in SUBSET Episodes /\ begun \in SUBSET Episodes /\ aired \in SUBSET Episodes
    OBVIOUS
  <2> HIDE DEF eps, begun, aired
  <2>3. row \in PassRows /\ row.row = pass[p].row /\ row.sel = pass[p].sel /\ row.ids = pass[p].ids
    BY <1>1, <2>2 DEF PassRows
  <2> HIDE DEF row
  <2>4. QED
    BY <1>a, <2>1, <2>3
<1>3. ASSUME pass' = [pass EXCEPT ![p].pc = "ids"]
      PROVE  Carries(p) /\ pass'[p].ids = pass[p].ids
  <2> DEFINE row == [pass[p] EXCEPT !.pc = "ids"]
  <2>1. row \in PassRows /\ row.row = pass[p].row /\ row.sel = pass[p].sel /\ row.ids = pass[p].ids
    BY <1>1 DEF PassRows
  <2>2. pass' = [pass EXCEPT ![p] = row]
    BY <1>3
  <2> HIDE DEF row
  <2>3. QED
    BY <1>a, <2>1, <2>2
<1>4. ASSUME NEW e \in Episodes, pass' = [pass EXCEPT ![p].todo = @ \ {e}]
      PROVE  Carries(p) /\ pass'[p].ids = pass[p].ids
  <2> DEFINE row == [pass[p] EXCEPT !.todo = @ \ {e}]
  <2>1. row \in PassRows /\ row.row = pass[p].row /\ row.sel = pass[p].sel /\ row.ids = pass[p].ids
    BY <1>1 DEF PassRows
  <2>2. pass' = [pass EXCEPT ![p] = row]
    BY <1>4
  <2> HIDE DEF row
  <2>3. QED
    BY <1>a, <2>1, <2>2
<1>5. QED
  BY <1>2, <1>3, <1>4 DEF StoreAnnounced, SelectEpisodes, StoreEpisode, SkipEpisode

LEMMA SelectedPass ==
  ASSUME SystemTypes, TrialInv, NEW p \in Passes, ReadSelected(p)
  PROVE  Carries(p) /\ pass'[p].ids = TrialEpisodeIDs
<1> DEFINE row == [pass[p] EXCEPT !.pc = "store", !.ids = TrialEpisodeIDs,
                                  !.todo = pass[p].eps]
<1>1. pass \in [Passes -> PassRows] /\ pass[p] \in PassRows /\ pass' = [pass EXCEPT ![p] = row]
  BY DEF SystemTypes, ReadSelected
<1>2. TrialEpisodeIDs \in SUBSET Episodes
  <2>1. \A u \in Users : picked[u] \in SUBSET Episodes
    BY DEF TrialInv, TrialTypes
  <2>2. QED
    BY <2>1 DEF TrialEpisodeIDs
<1>3. row \in PassRows /\ row.row = pass[p].row /\ row.sel = pass[p].sel /\ row.ids = TrialEpisodeIDs
  <2> DEFINE ids == TrialEpisodeIDs
             todo == pass[p].eps
  <2>1. ids \in SUBSET Episodes /\ todo \in SUBSET Episodes
    BY <1>1, <1>2 DEF PassRows
  <2> HIDE DEF ids, todo
  <2>2. [pass[p] EXCEPT !.pc = "store", !.ids = ids, !.todo = todo] \in PassRows
    BY <1>1, <2>1 DEF PassRows
  <2>3. row = [pass[p] EXCEPT !.pc = "store", !.ids = ids, !.todo = todo]
    BY DEF ids, todo
  <2>4. QED
    BY <1>1, <2>1, <2>2, <2>3 DEF PassRows, ids
<1> HIDE DEF row
<1>4. QED
  BY <1>1, <1>3, PassMoves DEF Carries

LEMMA EndedPass ==
  ASSUME SystemTypes, NEW p \in Passes, FinishPass(p) \/ AbortPass(p)
  PROVE  /\ pass' \in [Passes -> PassRows] /\ pass'[p] = NoPass
         /\ \A q \in Passes \ {p} : pass'[q] = pass[q]
<1>1. pass \in [Passes -> PassRows] /\ pass' = [pass EXCEPT ![p] = NoPass] /\ NoPass \in PassRows
  BY RestIsTyped DEF SystemTypes, FinishPass, AbortPass
<1>2. QED
  BY <1>1, PassMoves


(* The steps by what they do to passes, and to the tables they work on.    *)
PassLists(p) == ListSeries(p) /\ UNCHANGED tables
PassReads(p) == ReadSeasons(p) /\ UNCHANGED tables
PassCarries(p) ==
  /\ Carries(p) /\ pass'[p].ids = pass[p].ids
PassSelects(p) == ReadSelected(p) /\ Carries(p) /\ pass'[p].ids = TrialEpisodeIDs /\ UNCHANGED tables
PassEnds(p) ==
  /\ pass' \in [Passes -> PassRows] /\ pass'[p] = NoPass
  /\ \A q \in Passes \ {p} : pass'[q] = pass[q]

(* The limit of trials decides whether a pass goes on.                     *)
LEMMA LimitedPass ==
  ASSUME SystemTypes, TrialInv, NEW p \in Passes, ReadLimits(p)
  PROVE  PassCarries(p) \/ PassEnds(p)
<1> DEFINE limit == TrialEpisodeLimit
           row == [pass[p] EXCEPT !.pc = "fetch", !.limit = limit]
<1>1. pass \in [Passes -> PassRows] /\ limit \in Nat /\ NoPass \in PassRows
  BY TrialLimitIsNat, RestIsTyped DEF SystemTypes
<1>2. pass' = [pass EXCEPT ![p] = row] \/ pass' = [pass EXCEPT ![p] = NoPass]
  BY DEF ReadLimits
<1> HIDE DEF limit
<1>3. row \in PassRows /\ row.row = pass[p].row /\ row.sel = pass[p].sel /\ row.ids = pass[p].ids
  BY <1>1 DEF PassRows
<1> HIDE DEF row
<1>4. QED
  BY <1>1, <1>2, <1>3, PassMoves DEF PassCarries, Carries, PassEnds

LEMMA PassesBySteps ==
  ASSUME SystemTypes, TrialInv, [Next]_vars
  PROVE  \/ UNCHANGED pass
         \/ \E p \in Passes : \/ PassLists(p) \/ PassReads(p) \/ PassCarries(p)
                              \/ PassSelects(p) \/ PassEnds(p)
<1> USE DEF passVars
<1>1. ASSUME NEW p \in Passes, RunPass(p)
      PROVE  PassLists(p) \/ PassReads(p) \/ PassCarries(p) \/ PassSelects(p) \/ PassEnds(p)
  <2>1. CASE ListSeries(p) \/ ReadSeasons(p)
    BY <2>1 DEF ListSeries, ReadSeasons, PassLists, PassReads
  <2>2. CASE ReadSelected(p)
    BY <2>2, SelectedPass DEF ReadSelected, PassSelects
  <2>3. CASE FinishPass(p)
    BY <2>3, EndedPass DEF PassEnds
  <2>4. CASE FetchEpisodes(p) \/ SelectEpisodes(p)
    BY <2>4, CarriedPass DEF PassCarries
  <2>5. ASSUME NEW e \in pass[p].todo, StoreAnnounced(p, e) \/ StoreEpisode(p, e)
        PROVE  PassCarries(p)
    <3>1. e \in Episodes
      BY DEF SystemTypes, PassRows
    <3>2. QED
      BY <2>5, <3>1, CarriedPass DEF PassCarries
  <2>6. CASE ReadLimits(p)
    BY <2>6, LimitedPass
  <2>7. QED
    BY <1>1, <2>1, <2>2, <2>3, <2>4, <2>5, <2>6 DEF RunPass, PassStep
<1>2. ASSUME NEW p \in Passes, PassAborts(p) PROVE PassEnds(p)
  BY <1>2, EndedPass DEF PassAborts, PassEnds
<1>3. ASSUME NEW p \in Passes, NEW e \in Episodes, PassSkips(p, e) PROVE PassCarries(p)
  BY <1>3, CarriedPass DEF PassSkips, PassCarries
<1>4. CASE \E h \in Handlers : \/ Handle(h) \/ HandlerFails(h) \/ ForgetCall(h)
                               \/ \E k \in Keys : UserRetries(h, k)
                               \/ \E k \in Keys, act \in scenario.acts, ask \in scenario.asks :
                                    UserActs(h, k, act, ask)
                               \/ \E patch \in Patches : OperatorPatches(h, patch)
  BY <1>4 DEF Handle, HandlerFails, ForgetCall, UserRetries, UserActs, OperatorPatches
<1>5. CASE \/ \E k \in Keys : UserCancels(k)
           \/ \E u \in Users, decision \in {"continue", "stop"} : UserVotes(u, decision)
           \/ \E u \in Users, e \in Episodes : UserWatches(u, e)
           \/ \E s \in Movies \cup Episodes : Acquire(s)
           \/ \E e \in Episodes : ProviderAnnounces(e) \/ EpisodeAirs(e)
  BY <1>5 DEF UserCancels, UserVotes, UserWatches, Acquire, ProviderAnnounces, Announce,
              EpisodeAirs, Air
<1>6. CASE SyncStep \/ SyncFault \/ Notify \/ NotifyFault \/ Generate \/ Monitor \/ PluginFault
  BY <1>6 DEF SyncStep, SyncFault, Notify, NotifyFault, Generate, Monitor, PluginFault
<1>7. CASE UNCHANGED vars
  BY <1>7 DEF vars
<1>8. QED
  BY <1>1, <1>2, <1>3, <1>4, <1>5, <1>6, <1>7 DEF Next

LEMMA PassTypesStep ==
  ASSUME SystemTypes, TrialInv, [Next]_vars PROVE pass' \in [Passes -> PassRows]
<1>1. pass \in [Passes -> PassRows]
  BY DEF SystemTypes
<1>2. QED
  BY <1>1, PassesBySteps, ListedPass, SeasonsPass DEF PassLists, PassReads, PassCarries, PassSelects, PassEnds, Carries

-------------------------------------------------------------------------------
(* What the steps do to the plugin's state and to the generator.           *)

LEMMA NoCheckIsTyped ==
  /\ NoCheck \in CheckRows /\ NoCheck.pc = "idle" /\ NoCheck.queue = <<>> /\ NoCheck.todo = {}
<1>1. (CHOOSE h \in Handlers : TRUE) \in Handlers
  BY HandlersAssumption
<1>2. (CHOOSE u \in Users : TRUE) \in AnyUser
  BY DEF AnyUser
<1>3. <<>> \in Seq(ActionRows)
  OBVIOUS
<1>4. QED
  BY <1>1, <1>2, <1>3, Zenon DEF NoCheck, CheckRows


LEMMA Sends ==
  ASSUME SystemTypes, NEW h \in Handlers, NEW a \in ActionRows, Send(h, a),
         monitor.pc \in {"flush", "scan"}
  PROVE  /\ monitor' \in CheckRows /\ monitor'.pc = "sent" /\ monitor'.h = h
         /\ monitor'.queue = (IF monitor.pc = "scan" THEN <<a>> ELSE monitor.queue)
         /\ monitor'.todo \subseteq monitor.todo
<1> DEFINE todo == {r \in monitor.todo : r.id # a.rid}
           queue == IF monitor.pc = "scan" THEN <<a>> ELSE monitor.queue
           acted == monitor.pc = "scan"
           row == [monitor EXCEPT !.pc = "sent", !.back = monitor.pc, !.h = h, !.queue = queue,
                                  !.todo = todo, !.acted = acted]
<1>1. monitor \in CheckRows /\ monitor' = row
  BY DEF SystemTypes, PluginTypes, Send
<1>2. queue \in Seq(ActionRows) /\ todo \in SUBSET ListedRows /\ acted \in BOOLEAN
      /\ todo \subseteq monitor.todo
  BY <1>1 DEF CheckRows
<1> HIDE DEF queue, todo, acted
<1>3. row \in CheckRows /\ row.pc = "sent" /\ row.h = h /\ row.queue = queue /\ row.todo = todo
  BY <1>1, <1>2 DEF CheckRows
<1> HIDE DEF row
<1>4. QED
  BY <1>1, <1>2, <1>3 DEF queue

(* What is queued, listed or marked.                                       *)
LEMMA PluginTypesStep ==
  ASSUME SystemTypes, [Next]_vars PROVE PluginTypes'
<1>0. /\ PluginTypes /\ outbox \in Seq(ActionRows) /\ monitor \in CheckRows
      /\ mark \in [Keys -> MarkActs \cup {""}] /\ monitor.queue \in Seq(ActionRows)
  BY DEF SystemTypes, PluginTypes, CheckRows
<1> USE DEF pluginVars, discoverVars
<1>a. ASSUME UNCHANGED <<outbox, monitor, mark>> PROVE PluginTypes'
  BY <1>0, <1>a DEF PluginTypes
<1>b. ASSUME outbox' \in Seq(ActionRows), monitor' \in CheckRows,
             monitor'.todo \subseteq monitor.todo, UNCHANGED mark,
             monitor'.pc = "sent" => monitor'.queue # <<>>
      PROVE  PluginTypes'
  BY <1>0, <1>b DEF PluginTypes
<1>1. CASE BeginCheck(scenario.users)
  <2> DEFINE row == [NoCheck EXCEPT !.pc = "flush", !.queue = outbox, !.users = scenario.users]
  <2>1. scenario.users \in SUBSET Users
    BY ScenariosAssumption DEF SystemTypes
  <2>2. row \in CheckRows /\ row.todo = {} /\ row.pc = "flush"
    BY <1>0, <2>1, NoCheckIsTyped DEF CheckRows
  <2>3. monitor' = row /\ UNCHANGED <<outbox, mark>>
    BY <1>1 DEF BeginCheck
  <2> HIDE DEF row
  <2>4. QED
    BY <1>0, <1>b, <2>2, <2>3
<1>2. ASSUME NEW h \in Handlers, SendQueued(h) PROVE PluginTypes'
  <2>1. Head(monitor.queue) \in ActionRows /\ Send(h, Head(monitor.queue)) /\ monitor.pc = "flush"
    BY <1>2, ActionsAreTyped DEF SendQueued
  <2> DEFINE a == Head(monitor.queue)
  <2> HIDE DEF a
  <2>2. a \in ActionRows /\ Send(h, a) /\ monitor.pc = "flush" /\ monitor.queue # <<>>
        /\ UNCHANGED <<outbox, mark>>
    BY <1>2, <2>1 DEF a, SendQueued
  <2>3. monitor' \in CheckRows /\ monitor'.todo \subseteq monitor.todo /\ monitor'.queue = monitor.queue
    BY <2>2, Sends
  <2>4. QED
    BY <1>0, <1>b, <2>2, <2>3
<1>3. ASSUME NEW h \in Handlers, NEW r \in monitor.todo, SendMark(h, r) PROVE PluginTypes'
  <2> DEFINE a == MarkAction(r)
  <2>1. a \in ActionRows
    BY ActionsAreTyped
  <2>2. /\ Send(h, a) /\ monitor.pc = "scan" /\ UNCHANGED mark
        /\ outbox' = outbox \/ outbox' = Append(outbox, a)
    BY <1>3 DEF SendMark, MarkAction
  <2> HIDE DEF a
  <2>3. /\ monitor' \in CheckRows /\ monitor'.todo \subseteq monitor.todo
        /\ monitor'.queue = <<a>> /\ <<a>> # <<>>
    BY <2>1, <2>2, Sends
  <2>4. outbox' \in Seq(ActionRows)
    <3>1. Append(outbox, a) \in Seq(ActionRows)
      BY <1>0, <2>1, AppendedEntries
    <3>2. QED
      BY <1>0, <2>2, <3>1, Zenon
  <2>5. QED
    BY <1>b, <2>2, <2>3, <2>4
<1>4. ASSUME NEW u \in Users, NEW media \in {"movie", "series"}, ListActive(u, media)
      PROVE  PluginTypes'
  <2> DEFINE listed == {[key |-> k, id |-> recs[k].id] : k \in Active(u, media)}
             todo == {r \in listed : r.key \in shown /\ mark[r.key] # ""}
             users == monitor.users \ {u}
             row == [monitor EXCEPT !.pc = "scan", !.users = users, !.user = u,
                         !.media = media, !.listed = listed, !.acted = FALSE, !.todo = todo]
  <2>1. monitor' = row /\ UNCHANGED <<outbox, mark>>
    BY <1>4 DEF ListActive
  <2>2. listed \in SUBSET ListedRows
    <3> SUFFICES ASSUME NEW k \in Active(u, media) PROVE [key |-> k, id |-> recs[k].id] \in ListedRows
      OBVIOUS
    <3>1. k \in Keys /\ recs[k].st = "active"
      BY DEF Active, Of, Keys, Titles
    <3>2. recs[k].id \in Nat \ {0}
      BY <3>1 DEF SystemTypes, TableTypes, RecTypes, RecRows
    <3>3. QED
      BY <3>1, <3>2 DEF ListedRows
  <2>3. todo \in SUBSET ListedRows /\ users \in SUBSET Users /\ u \in AnyUser
    BY <1>0, <2>2 DEF CheckRows, AnyUser
  <2>4. \A r \in todo : mark[r.key] \in MarkActs
    BY <1>0, <2>3 DEF ListedRows
  <2> HIDE DEF listed, todo, users
  <2>5. row \in CheckRows /\ row.todo = todo /\ row.pc = "scan"
    BY <1>0, <2>2, <2>3 DEF CheckRows
  <2> HIDE DEF row
  <2>6. QED
    BY <1>0, <2>1, <2>4, <2>5 DEF PluginTypes
<1>5. CASE Answered
  <2>1. outbox' \in Seq(ActionRows) /\ UNCHANGED mark
    <3>1. CASE outbox' = outbox
      BY <1>0, <1>5, <3>1 DEF Answered
    <3>2. CASE outbox' # outbox
      <4> DEFINE aid == Head(monitor.queue).aid
      <4>1. outbox' = RemoveAll(outbox, aid)
        BY <1>5, <3>2 DEF Answered, Without
      <4> HIDE DEF aid
      <4>2. QED
        BY <1>0, <1>5, <4>1, KeptEntries DEF Answered
    <3>3. QED
      BY <3>1, <3>2
  <2>2. CASE monitor' = NoCheck
    BY <1>b, <2>1, <2>2, NoCheckIsTyped
  <2>3. CASE monitor' # NoCheck
    <3> DEFINE queue == Tail(monitor.queue)
               row == [monitor EXCEPT !.queue = queue, !.pc = monitor.back]
    <3>1. monitor' = row /\ monitor.queue # <<>>
      BY <1>0, <1>5, <2>3 DEF Answered, PluginTypes
    <3>2. queue \in Seq(ActionRows)
      <4> DEFINE q == monitor.queue
      <4>1. q \in Seq(ActionRows) /\ q # <<>>
        BY <1>0, <3>1
      <4> HIDE DEF q
      <4>2. Tail(q) \in Seq(ActionRows)
        BY <4>1
      <4>3. QED
        BY <4>2 DEF q
    <3> HIDE DEF queue
    <3>3. row \in CheckRows /\ row.todo = monitor.todo /\ row.pc # "sent"
      BY <1>0, <3>2 DEF CheckRows
    <3> HIDE DEF row
    <3>4. QED
      BY <1>b, <2>1, <3>1, <3>3
  <2>4. QED
    BY <2>2, <2>3
<1>6. CASE RefreshVirtual
  <2> DEFINE row == [monitor EXCEPT !.pc = "flush", !.listed = {}]
  <2>1. /\ UNCHANGED outbox /\ monitor.todo = {} /\ monitor' \in {NoCheck, row}
        /\ mark' = [k \in Keys |-> IF k \in shown' THEN mark[k] ELSE ""]
    BY <1>6 DEF RefreshVirtual
  <2>2. row \in CheckRows /\ row.todo = {} /\ row.pc = "flush"
    BY <1>0, <2>1 DEF CheckRows
  <2>3. monitor' \in CheckRows /\ monitor'.todo = {} /\ monitor'.pc # "sent"
    <3> HIDE DEF row
    <3> QED
      BY <2>1, <2>2, NoCheckIsTyped
  <2>4. mark' \in [Keys -> MarkActs \cup {""}]
    BY <1>0, <2>1
  <2>5. QED
    BY <1>0, <2>1, <2>3, <2>4 DEF PluginTypes
<1>7. CASE LoseAnswer
  BY <1>0, <1>7, <1>b, NoCheckIsTyped DEF LoseAnswer
<1>8. ASSUME NEW k \in Keys, NEW act \in MarkActs, Mark(k, act) PROVE PluginTypes'
  BY <1>0, <1>8 DEF Mark, PluginTypes, CheckRows, ListedRows
<1>9. CASE \E h \in Handlers : \/ Handle(h) \/ HandlerFails(h) \/ ForgetCall(h)
                               \/ \E k \in Keys : UserRetries(h, k)
                               \/ \E k \in Keys, act \in scenario.acts, ask \in scenario.asks :
                                    UserActs(h, k, act, ask)
                               \/ \E patch \in Patches : OperatorPatches(h, patch)
  BY <1>9, <1>a DEF Handle, HandlerFails, ForgetCall, Forget, UserRetries, UserActs, OperatorPatches
<1>10. CASE \/ \E k \in Keys : UserCancels(k)
            \/ \E u \in Users, decision \in {"continue", "stop"} : UserVotes(u, decision)
            \/ \E u \in Users, e \in Episodes : UserWatches(u, e)
            \/ \E s \in Movies \cup Episodes : Acquire(s)
            \/ \E e \in Episodes : ProviderAnnounces(e) \/ EpisodeAirs(e)
            \/ \E p \in Passes : \/ RunPass(p) \/ PassAborts(p)
                                 \/ \E e \in Episodes : PassSkips(p, e)
  BY <1>10, <1>a DEF UserCancels, UserVotes, UserWatches, Acquire, ProviderAnnounces,
                     EpisodeAirs, RunPass, PassAborts, PassSkips
<1>11. CASE SyncStep \/ SyncFault \/ Notify \/ NotifyFault
  BY <1>11, <1>a DEF SyncStep, SyncFault, Notify, NotifyFault
<1>12. CASE Generate
  BY <1>12, <1>a DEF Generate, GenerateRead, GenerateReplace, GenerateFail, Prune
<1>13. CASE UNCHANGED vars
  BY <1>13, <1>a DEF vars
<1>14. CASE Monitor
  BY <1>1, <1>2, <1>3, <1>4, <1>5, <1>6, <1>14 DEF Monitor, MonitorStep
<1>15. CASE PluginFault
  BY <1>7, <1>8, <1>15 DEF PluginFault
<1>16. QED
  BY <1>9, <1>10, <1>11, <1>12, <1>13, <1>14, <1>15 DEF Next

LEMMA GenerationTypesStep ==
  ASSUME SystemTypes, [Next]_vars PROVE GenerationTypes'
<1> USE DEF discoverVars
<1>a. GenerationTypes
  BY DEF SystemTypes
<1>b. NoGeneration \in GenerationRows /\ NoGeneration.pc = "idle"
  BY Zenon DEF NoGeneration, GenerationRows, AnyUser
<1>1. ASSUME NEW u \in Users, GenerateRead(u) PROVE GenerationTypes'
  <2>1. Excluded(u) \in SUBSET Titles
    BY TablesAssumption DEF Excluded
  <2>2. generation' = [pc |-> "rank", user |-> u, excluded |-> Excluded(u)]
    BY <1>1 DEF GenerateRead
  <2>3. QED
    BY <2>1, <2>2 DEF GenerationTypes, GenerationRows, AnyUser
<1>2. CASE GenerateFail \/ \E offered \in SUBSET Titles : GenerateReplace(offered)
  BY <1>2, <1>b DEF GenerateFail, GenerateReplace, GenerationTypes
<1>3. CASE UNCHANGED generation
  BY <1>3, <1>a DEF GenerationTypes
<1>4. CASE Generate
  BY <1>1, <1>2, <1>3, <1>4 DEF Generate, Prune
<1>5. CASE \E h \in Handlers : \/ Handle(h) \/ HandlerFails(h) \/ ForgetCall(h)
                               \/ \E k \in Keys : UserRetries(h, k)
                               \/ \E k \in Keys, act \in scenario.acts, ask \in scenario.asks :
                                    UserActs(h, k, act, ask)
                               \/ \E patch \in Patches : OperatorPatches(h, patch)
  BY <1>3, <1>5 DEF Handle, HandlerFails, ForgetCall, Forget, UserRetries, UserActs, OperatorPatches
<1>6. CASE \/ \E k \in Keys : UserCancels(k)
           \/ \E u \in Users, decision \in {"continue", "stop"} : UserVotes(u, decision)
           \/ \E u \in Users, e \in Episodes : UserWatches(u, e)
           \/ \E s \in Movies \cup Episodes : Acquire(s)
           \/ \E e \in Episodes : ProviderAnnounces(e) \/ EpisodeAirs(e)
           \/ \E p \in Passes : RunPass(p) \/ PassAborts(p) \/ \E e \in Episodes : PassSkips(p, e)
  BY <1>3, <1>6 DEF UserCancels, UserVotes, UserWatches, Acquire, ProviderAnnounces,
                    EpisodeAirs, RunPass, PassAborts, PassSkips
<1>7. CASE SyncStep \/ SyncFault \/ Notify \/ NotifyFault
  BY <1>3, <1>7 DEF SyncStep, SyncFault, Notify, NotifyFault
<1>8. CASE Monitor \/ PluginFault
  BY <1>3, <1>8 DEF Monitor, MonitorStep, BeginCheck, Answered, RefreshVirtual, SendQueued,
                    SendMark, ListActive, PluginFault, LoseAnswer, Mark
<1>9. CASE UNCHANGED vars
  BY <1>3, <1>9 DEF vars
<1>10. QED
  BY <1>4, <1>5, <1>6, <1>7, <1>8, <1>9 DEF Next


LEMMA BudgetStep ==
  ASSUME SystemTypes, [Next]_vars
  PROVE  UNCHANGED scenario /\ (UNCHANGED budget \/ \E kind \in Kinds : Spend(kind))
<1> USE DEF systemVars, Kinds
<1>1. CASE \E h \in Handlers : \/ Handle(h) \/ HandlerFails(h) \/ ForgetCall(h)
                               \/ \E k \in Keys : UserRetries(h, k)
                               \/ \E k \in Keys, act \in scenario.acts, ask \in scenario.asks :
                                    UserActs(h, k, act, ask)
                               \/ \E patch \in Patches : OperatorPatches(h, patch)
  BY <1>1 DEF Handle, HandlerFails, ForgetCall, UserRetries, UserActs, OperatorPatches
<1>2. CASE \/ \E k \in Keys : UserCancels(k)
           \/ \E u \in Users, decision \in {"continue", "stop"} : UserVotes(u, decision)
           \/ \E u \in Users, e \in Episodes : UserWatches(u, e)
  BY <1>2 DEF UserCancels, UserVotes, UserWatches
<1>3. CASE \/ \E s \in Movies \cup Episodes : Acquire(s)
           \/ \E e \in Episodes : ProviderAnnounces(e) \/ EpisodeAirs(e)
           \/ \E p \in Passes : RunPass(p) \/ PassAborts(p) \/ \E e \in Episodes : PassSkips(p, e)
  BY <1>3 DEF Acquire, ProviderAnnounces, EpisodeAirs, RunPass, PassAborts, PassSkips
<1>4. CASE SyncStep \/ SyncFault \/ Notify \/ NotifyFault
  BY <1>4 DEF SyncStep, SyncFault, Notify, NotifyFault
<1>5. CASE Generate \/ Monitor \/ PluginFault
  BY <1>5 DEF Generate, Monitor, PluginFault
<1>6. CASE UNCHANGED vars
  BY <1>6 DEF vars
<1>7. QED
  BY <1>1, <1>2, <1>3, <1>4, <1>5, <1>6 DEF Next

LEMMA TypesStart == Init => SystemTypes
<1> SUFFICES ASSUME Init PROVE SystemTypes
  OBVIOUS
<1>1. PICK s \in Scenarios : Init!(s)
  BY DEF Init
<1>2. s.budget \in [Kinds -> Nat] /\ s.open \subseteq Keys /\ s.offered \subseteq Keys
  BY ScenariosAssumption
<1>3. budget \in [Kinds -> Nat] /\ scenario \in Scenarios
  BY <1>1, <1>2
<1>4. RecTypes
  <2>1. IsFiniteSet(s.offered) /\ Cardinality(s.offered) \in Nat
    BY <1>2, KeysAreFinite, FS_Subset, FS_CardinalityType
  <2>2. \A k \in Keys : (recs[k].st = "active") <=> (recs[k].id > 0)
    BY <1>1
  <2>3. recs \in [Keys -> [id : 0 .. Cardinality(s.offered), st : {"none", "active"}]]
    BY <1>1
  <2> DEFINE n == Cardinality(s.offered)
  <2> HIDE DEF n
  <2>4. recs \in [Keys -> RecRows]
    BY <2>1, <2>3 DEF n, RecRows, RecStatus
  <2>5. QED
    BY <2>2, <2>4 DEF RecTypes
<1>5. TableTypes
  <2>1. movie \in [Movies -> Phase] /\ episode \in [Episodes -> Phase] /\ selected \in SUBSET Nat
    BY <1>1 DEF Phase
  <2>2. series \in SeriesRows
    BY <1>1, IdleIsTyped DEF SeriesRows, MonitorMode
  <2>3. request \in [Keys -> RequestRows]
    BY <1>1 DEF RequestRows, RequestMode, MonitorMode
  <2>4. QED
    BY <1>4, <2>1, <2>2, <2>3 DEF TableTypes
<1>6. NoticeTypes
  <2>1. notice = [k \in Keys |-> NoNotice] /\ NoNotice \in NoticeRows
    BY <1>1 DEF NoNotice, NoticeRows
  <2> HIDE DEF NoNotice
  <2>2. worker \in WorkerRows /\ posted \in [Keys -> Nat]
    BY <1>1, RestIsTyped
  <2>3. QED
    BY <2>1, <2>2 DEF NoticeTypes
<1>7. PluginTypes
  <2>1. outbox = <<>> /\ monitor = NoCheck /\ mark = [k \in Keys |-> ""]
    BY <1>1
  <2>2. outbox \in Seq(ActionRows) /\ mark \in [Keys -> MarkActs \cup {""}]
    <3>1. <<>> \in Seq(ActionRows)
      OBVIOUS
    <3>2. mark \in [Keys -> MarkActs \cup {""}]
      BY <2>1, Zenon
    <3>3. QED
      BY <2>1, <3>1, <3>2, Zenon
  <2>3. monitor \in CheckRows /\ monitor.todo = {} /\ monitor.pc = "idle"
    BY <2>1, NoCheckIsTyped
  <2>4. QED
    BY <2>2, <2>3 DEF PluginTypes
<1>8. GenerationTypes
  <2>1. NoGeneration \in GenerationRows /\ NoGeneration.pc = "idle"
    BY Zenon DEF NoGeneration, GenerationRows, AnyUser
  <2>2. QED
    BY <1>1, <2>1 DEF GenerationTypes
<1>9. CallTypes
  <2>1. call = [h \in Handlers |-> Idle]
    BY <1>1
  <2> HIDE DEF Idle
  <2>2. QED
    BY <2>1, IdleIsTyped DEF CallTypes, CallFits, RecActs
<1>10. pass \in [Passes -> PassRows]
  BY <1>1, RestIsTyped
<1>11. QED
  BY <1>3, <1>5, <1>6, <1>7, <1>8, <1>9, <1>10 DEF SystemTypes

LEMMA TypesStep == SystemTypes /\ TrialInv /\ TrialInv' /\ [Next]_vars => SystemTypes'
<1> SUFFICES ASSUME SystemTypes, TrialInv, TrialInv', [Next]_vars PROVE SystemTypes'
  OBVIOUS
<1>1. budget' \in [Kinds -> Nat] /\ scenario' \in Scenarios
  BY BudgetStep, Spending DEF SystemTypes
<1>2. QED
  BY <1>1, CallTypesStep, TableTypesStep, NoticeTypesStep, PluginTypesStep, GenerationTypesStep,
     PassTypesStep DEF SystemTypes

(* What the tables, the handlers, the passes, the worker and the plugin    *)
(* hold, together with the numbers a handler relies on: the row a handler  *)
(* acts on had a number, an active recommendation has one, and a check     *)
(* that waits for an answer has sent something.                            *)
THEOREM TypesInvariant == Spec => [](SystemTypes /\ TrialInv)
<1>1. Init => SystemTypes /\ TrialInv
  BY TypesStart, TrialsStart
<1>2. SystemTypes /\ TrialInv /\ [Next]_vars => (SystemTypes /\ TrialInv)'
  BY TypesStep, TrialsStep
<1>3. QED
  BY <1>1, <1>2, PTL DEF Spec

(* Every variable stays in its domain.                                     *)
THEOREM RequestsAreTyped == Spec => []RequestTypeOK
<1>1. SystemTypes /\ TrialInv => RequestTypeOK
  <2> SUFFICES ASSUME SystemTypes, TrialInv PROVE RequestTypeOK
    OBVIOUS
  <2>1. /\ recs \in [Keys -> [id : Nat, st : RecStatus]]
        /\ movie \in [Movies -> Phase] /\ episode \in [Episodes -> Phase]
        /\ series.mode \in MonitorMode /\ series.status \in {"missing", "following", "paused"}
        /\ request \in [Keys -> [st : {"none", "open", "withdrawn"}, mode : RequestMode,
                                 seasons : SUBSET Nat]]
    BY DEF SystemTypes, TableTypes, RecTypes, RecRows, SeriesRows, RequestRows
  <2>2. \A u \in Users : /\ trial[u].scope \in TrialScope \cup {"none"}
                         /\ trial[u].decision \in Decision \cup {""}
                         /\ watched[u] \subseteq picked[u]
    BY DEF TrialInv, TrialTypes, TrialRows, TrialFits
  <2>3. notice \in [Keys -> [id : Nat, st : {"none", "due", "waiting", "delivered"}]]
    BY DEF SystemTypes, NoticeTypes, NoticeRows
  <2>4. \A h \in Handlers : call[h].pc \in {"idle", "told", "rules", "subject", "update", "track",
                                            "scope", "record", "force", "ok", "error"}
    BY DEF SystemTypes, CallTypes, CallRows
  <2>5. \A p \in Passes : pass[p].pc \in {"idle", "seasons", "limits", "fetch", "prepare", "ids", "store"}
    BY DEF SystemTypes, PassRows
  <2>6. QED
    BY <2>1, <2>2, <2>3, <2>4, <2>5 DEF RequestTypeOK
<1>2. QED
  BY <1>1, TypesInvariant, PTL
===============================================================================
