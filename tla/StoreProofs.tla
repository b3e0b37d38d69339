------------------------------ MODULE StoreProofs ------------------------------
(***************************************************************************)
(* What is proved of the database around its tables: migrations by several *)
(* processes, for any set of binaries; backups and their pruning, for any  *)
(* sequence of backups and failures; item leases, for any number of        *)
(* holders, items and times.                                               *)
(***************************************************************************)
EXTENDS Migrations, Backups, ItemLocks, FiniteSetTheorems, WellFoundedInduction, TLAPS

-------------------------------------------------------------------------------
(* Migrations.                                                             *)

MigrationsTypes ==
  /\ schema \in [Versions -> Nat]
  /\ procAt \in [Procs -> {"down", "apply", "running"}]
  /\ todoOf \in [Procs -> SUBSET Nat]
  /\ breaks \in Nat

(* While a process applies migrations, what is not applied is still to do. *)
NothingPassedOver ==
  \A p \in Procs : procAt[p] = "apply" => Own(p) \subseteq applied \cup todoOf[p]

MigrationsInv == MigrationsTypes /\ RunsOnOwnSchema /\ NothingPassedOver

(* What is applied once stays applied (no migration is ever taken back).   *)
LEMMA AppliedGrows == ASSUME [MigrationsNext]_migrationsVars PROVE applied \subseteq applied'
  BY DEF MigrationsNext, ReadApplied, ApplyMigration, ApplyFails, Check, Exit, migrationsVars

LEMMA MigrationsTypesStep == MigrationsInv /\ [MigrationsNext]_migrationsVars => MigrationsTypes'
<1> SUFFICES ASSUME MigrationsTypes, [MigrationsNext]_migrationsVars PROVE MigrationsTypes'
  BY DEF MigrationsInv
<1> USE MigrationsAssumption DEF MigrationsTypes, Goes, Stop
<1>1. ASSUME NEW p \in Procs, ReadApplied(p) PROVE MigrationsTypes'
  <2>1. Own(p) \ applied \in SUBSET Nat
    BY DEF Own
  <2>2. QED
    BY <1>1, <2>1 DEF ReadApplied
<1>2. ASSUME NEW p \in Procs, ApplyMigration(p) PROVE MigrationsTypes'
  <2>1. PICK v : schema' = [schema EXCEPT ![v] = schema[v] + 1]
    BY <1>2 DEF ApplyMigration, Takes
  <2>2. schema' \in [Versions -> Nat]
    <3>1. CASE v \in Versions
      <4>1. schema[v] + 1 \in Nat
        BY <3>1
      <4>2. QED
        BY <2>1, <4>1
    <3>2. CASE v \notin Versions
      BY <2>1, <3>2
    <3>3. QED
      BY <3>1, <3>2
  <2>3. todoOf[p] \ {First(p)} \in SUBSET Nat
    OBVIOUS
  <2>4. QED
    BY <1>2, <2>2, <2>3 DEF ApplyMigration, Advance
<1>3. ASSUME NEW p \in Procs, ApplyFails(p) PROVE MigrationsTypes'
  BY <1>3 DEF ApplyFails
<1>4. ASSUME NEW p \in Procs, Check(p) PROVE MigrationsTypes'
  BY <1>4 DEF Check
<1>5. ASSUME NEW p \in Procs, Exit(p) PROVE MigrationsTypes'
  BY <1>5 DEF Exit
<1>6. CASE UNCHANGED migrationsVars
  BY <1>6 DEF migrationsVars, procVars
<1>7. QED
  BY <1>1, <1>2, <1>3, <1>4, <1>5, <1>6 DEF MigrationsNext

(* The SQL of a version takes effect in the step that records it.          *)
LEMMA RecordedStep ==
  ASSUME MigrationsInv, [MigrationsNext]_migrationsVars
  PROVE  (\A v \in Versions : schema[v] = IF v \in applied THEN 1 ELSE 0)'
<1> SUFFICES ASSUME NEW v \in Versions
             PROVE  schema'[v] = IF v \in applied' THEN 1 ELSE 0
  BY DEF Versions, Own
<1> USE DEF MigrationsInv, MigrationsTypes, RunsOnOwnSchema
<1>1. ASSUME NEW p \in Procs, ApplyMigration(p)
      PROVE  schema'[v] = IF v \in applied' THEN 1 ELSE 0
  BY <1>1 DEF ApplyMigration, Takes
<1>2. CASE UNCHANGED <<applied, schema>>
  BY <1>2
<1>3. QED
  BY <1>1, <1>2 DEF MigrationsNext, ReadApplied, ApplyFails, Check, Exit, migrationsVars

(* A process that is applying or running passes no migration over.         *)
LEMMA ProcessStep ==
  ASSUME MigrationsInv, [MigrationsNext]_migrationsVars, NEW q \in Procs
  PROVE  /\ procAt'[q] = "running" => Own(q) \subseteq applied'
         /\ procAt'[q] = "apply" => Own(q) \subseteq applied' \cup todoOf'[q]
<1>a. applied \subseteq applied'
  BY AppliedGrows
<1> USE <1>a DEF MigrationsInv, MigrationsTypes, RunsOnOwnSchema, NothingPassedOver, Goes, Stop
<1> DEFINE Goal == /\ procAt'[q] = "running" => Own(q) \subseteq applied'
                   /\ procAt'[q] = "apply" => Own(q) \subseteq applied' \cup todoOf'[q]
<1>1. ASSUME NEW p \in Procs, ReadApplied(p) PROVE Goal
  BY <1>1 DEF ReadApplied
<1>2. ASSUME NEW p \in Procs, ApplyMigration(p) PROVE Goal
  BY <1>2 DEF ApplyMigration, Advance
<1>3. ASSUME NEW p \in Procs, ApplyFails(p) PROVE Goal
  BY <1>3 DEF ApplyFails
<1>4. ASSUME NEW p \in Procs, Check(p) PROVE Goal
  BY <1>4 DEF Check
<1>5. ASSUME NEW p \in Procs, Exit(p) PROVE Goal
  BY <1>5 DEF Exit
<1>6. CASE UNCHANGED migrationsVars
  BY <1>6 DEF migrationsVars, procVars
<1>7. QED
  BY <1>1, <1>2, <1>3, <1>4, <1>5, <1>6 DEF MigrationsNext

(* The database, and what every process has still to do, agree in every    *)
(* reachable state.                                                        *)
THEOREM MigrationsInvariant == MigrationsSpec => []MigrationsInv
<1>1. MigrationsInit => MigrationsInv
  <2> SUFFICES ASSUME MigrationsInit PROVE MigrationsInv
    OBVIOUS
  <2>1. MigrationsTypes
    BY MigrationsAssumption DEF MigrationsInit, MigrationsTypes
  <2>2. RunsOnOwnSchema
    BY DEF MigrationsInit, RunsOnOwnSchema
  <2>3. NothingPassedOver
    BY DEF MigrationsInit, NothingPassedOver
  <2>4. QED
    BY <2>1, <2>2, <2>3 DEF MigrationsInv
<1>2. MigrationsInv /\ [MigrationsNext]_migrationsVars => MigrationsInv'
  BY MigrationsTypesStep, RecordedStep, ProcessStep DEF MigrationsInv, RunsOnOwnSchema, NothingPassedOver, Own
<1>3. QED
  BY <1>1, <1>2, PTL DEF MigrationsSpec

(* A process runs only on a schema that has each migration it knows, and   *)
(* each took effect once (store/migrate.go, one transaction per migration).*)
THEOREM OwnSchema == MigrationsSpec => []RunsOnOwnSchema
<1>1. MigrationsInv => RunsOnOwnSchema
  BY DEF MigrationsInv
<1> QED
  BY MigrationsInvariant, <1>1, PTL

(* A set of naturals has a smallest element: First is defined.             *)
LEMMA SmallestOf ==
  ASSUME NEW S \in SUBSET Nat, S # {}
  PROVE  \E n \in S : \A m \in S : n <= m
<1> DEFINE R == OpToRel(<, Nat)
<1>1. IsWellFoundedOn(R, Nat)
  BY NatLessThanWellFounded, Zenon
<1>2. \A m, n \in Nat : m < n => <<m, n>> \in R
  BY DEF OpToRel
<1> HIDE DEF R
<1>3. PICK n \in S : \A m \in S : ~(<<m, n>> \in R)
  BY <1>1, WFMin
<1>4. \A m \in S : ~(m < n)
  BY <1>2, <1>3
<1>5. QED
  BY <1>4

LEMMA FirstToDo ==
  ASSUME NEW p \in Procs, todoOf[p] \in SUBSET Nat, todoOf[p] # {}
  PROVE  First(p) \in todoOf[p]
<1>1. \E v \in todoOf[p] : \A w \in todoOf[p] : v <= w
  BY SmallestOf
<1> QED
  BY <1>1 DEF First

(* Every process has read and still applies versions that a binary knows.  *)
THEOREM MigrationsTyped == MigrationsSpec => []MigrationsTypeOK
<1> USE MigrationsAssumption
<1>a. \A p \in Procs : Own(p) \in SUBSET Nat /\ Own(p) \subseteq Versions
  BY DEF Own, Versions
<1>1. MigrationsInit => MigrationsTypeOK
  <2> SUFFICES ASSUME MigrationsInit PROVE MigrationsTypeOK
    OBVIOUS
  <2>1. applied \subseteq Versions
    <3>1. PICK p \in Procs : TRUE
      OBVIOUS
    <3>2. 1 \in Own(p)
      BY DEF Own
    <3>3. applied \subseteq {1}
      BY DEF MigrationsInit
    <3> QED
      BY <1>a, <3>2, <3>3
  <2> QED
    BY <2>1 DEF MigrationsInit, MigrationsTypeOK
<1>2. MigrationsTypeOK /\ MigrationsTypes' /\ [MigrationsNext]_migrationsVars => MigrationsTypeOK'
  <2> SUFFICES ASSUME MigrationsTypeOK, MigrationsTypes', [MigrationsNext]_migrationsVars
               PROVE  MigrationsTypeOK'
    OBVIOUS
  <2> USE <1>a DEF MigrationsTypeOK, MigrationsTypes, Goes, Stop
  <2>1. ASSUME NEW p \in Procs, ReadApplied(p) PROVE MigrationsTypeOK'
    BY <2>1 DEF ReadApplied
  <2>2. ASSUME NEW p \in Procs, ApplyMigration(p) PROVE MigrationsTypeOK'
    <3>1. First(p) \in Versions
      <4>1. todoOf[p] \in SUBSET Nat /\ todoOf[p] # {} /\ todoOf[p] \subseteq Versions
        BY <2>2 DEF ApplyMigration
      <4> QED
        BY <4>1, FirstToDo
    <3>2. applied' \subseteq Versions /\ UNCHANGED <<procAt, seenBy>>
      BY <2>2, <3>1 DEF ApplyMigration, Advance
    <3>3. todoOf' = [todoOf EXCEPT ![p] = todoOf[p] \ {First(p)}]
      BY <2>2 DEF ApplyMigration, Advance
    <3>4. todoOf' \in [Procs -> SUBSET Versions] /\ \A q \in Procs : todoOf'[q] \subseteq Own(q)
      BY <3>3
    <3> QED
      BY <3>2, <3>4 DEF Own, Versions
  <2>3. ASSUME NEW p \in Procs, ApplyFails(p) \/ Check(p) \/ Exit(p) PROVE MigrationsTypeOK'
    <3>1. /\ UNCHANGED applied
          /\ UNCHANGED <<seenBy, todoOf>>
             \/ /\ seenBy' = [seenBy EXCEPT ![p] = {}]
                /\ todoOf' = [todoOf EXCEPT ![p] = {}]
      BY <2>3 DEF ApplyFails, Check, Exit
    <3> QED
      BY <3>1 DEF Own, Versions
  <2>4. CASE UNCHANGED migrationsVars
    BY <2>4 DEF migrationsVars, procVars, Own, Versions
  <2> QED
    BY <2>1, <2>2, <2>3, <2>4 DEF MigrationsNext
<1>3. MigrationsSpec => []MigrationsInv
  BY MigrationsInvariant
<1>4. MigrationsInv => MigrationsTypes
  BY DEF MigrationsInv
<1> QED
  BY <1>1, <1>2, <1>3, <1>4, PTL DEF MigrationsSpec

-------------------------------------------------------------------------------
(* Backups.                                                                *)

BackupsTypes ==
  /\ clock \in Nat /\ troubles \in Nat
  /\ written \in SUBSET Nat /\ IsFiniteSet(written)
  /\ pass \in [pc : {"idle", "reserve", "snapshot", "rename", "list", "prune"}, at : Nat,
               prune : SUBSET Nat]

(* A snapshot is whole before it is renamed.                               *)
WholeFirst == pass.pc = "rename" => pass.at \in whole

(* What a pass is about to remove is none of the newest.                   *)
PrunesOld ==
  /\ pass.pc # "prune" => pass.prune = {}
  /\ pass.prune \cap Newest(Keep, written) = {}

BackupsInv == BackupsTypes /\ WholeFirst /\ PrunesOld /\ folder \subseteq written /\ NewestKept

-------------------------------------------------------------------------------
(* The newest of a set and of one that contains it.                        *)

LEMMA NewestOfMore ==
  ASSUME NEW few \in SUBSET Nat, NEW many \in SUBSET Nat, few \subseteq many, IsFiniteSet(many),
         NEW n \in Nat
  PROVE  Newest(n, many) \cap few \subseteq Newest(n, few)
<1> SUFFICES ASSUME NEW t \in few, t \in Newest(n, many)
             PROVE  Cardinality(NewerThan(t, few)) < n
  BY DEF Newest
<1>1. IsFiniteSet(NewerThan(t, many))
  BY FS_Subset DEF NewerThan
<1>2. NewerThan(t, few) \subseteq NewerThan(t, many)
  BY DEF NewerThan
<1>3. /\ Cardinality(NewerThan(t, few)) <= Cardinality(NewerThan(t, many))
      /\ Cardinality(NewerThan(t, few)) \in Nat /\ Cardinality(NewerThan(t, many)) \in Nat
  BY <1>1, <1>2, FS_Subset, FS_CardinalityType
<1>4. Cardinality(NewerThan(t, many)) < n
  BY DEF Newest
<1> QED
  BY <1>3, <1>4

LEMMA NewestInSet ==
  ASSUME NEW times, NEW n
  PROVE  Newest(n, times) \subseteq times
  BY DEF Newest

LEMMA BackupsStart == BackupsInit => BackupsInv
<1> SUFFICES ASSUME BackupsInit PROVE BackupsInv
  OBVIOUS
<1>1. BackupsTypes
  BY BackupsAssumption, FS_EmptySet DEF BackupsInit, BackupsTypes, Idle
<1>2. WholeFirst /\ PrunesOld
  BY DEF BackupsInit, WholeFirst, PrunesOld, Idle
<1>3. folder \subseteq written /\ NewestKept
  BY NewestInSet DEF BackupsInit, NewestKept
<1> QED
  BY <1>1, <1>2, <1>3 DEF BackupsInv

(* Steps before the snapshot has its name, and those of the clock.         *)
LEMMA WritingSteps ==
  ASSUME BackupsInv, StartBackup \/ Reserve \/ Snapshot \/ TimePasses \/ SetBack
  PROVE  BackupsInv'
<1> USE DEF BackupsInv
<1>1. UNCHANGED <<folder, written>> /\ folder \subseteq whole'
  BY DEF StartBackup, Reserve, Snapshot, TimePasses, SetBack, NewestKept
<1>2. /\ WholeFirst' /\ BackupsTypes' /\ pass'.prune = pass.prune
      /\ pass'.pc = "prune" => pass.pc = "prune"
  <2>1. CASE StartBackup
    BY <2>1 DEF StartBackup, Idle, WholeFirst, PrunesOld, BackupsTypes
  <2>2. CASE Reserve
    BY <2>2 DEF Reserve, WholeFirst, BackupsTypes
  <2>3. CASE Snapshot
    BY <2>3 DEF Snapshot, WholeFirst, BackupsTypes
  <2>4. CASE TimePasses \/ SetBack
    <3>1. UNCHANGED <<written, pass, whole>>
      BY <2>4 DEF TimePasses, SetBack
    <3>2. clock' \in Nat /\ troubles' \in Nat
      BY <2>4 DEF TimePasses, SetBack, Trouble, BackupsTypes
    <3> QED
      BY <3>1, <3>2 DEF WholeFirst, BackupsTypes
  <2> QED
    BY <2>1, <2>2, <2>3, <2>4
<1>3. Newest(Keep, written)' = Newest(Keep, written)
  BY <1>1 DEF Newest, NewerThan
<1>4. PrunesOld' /\ NewestKept'
  <2>1. pass'.pc # "prune" => pass'.prune = {}
    BY <1>2 DEF StartBackup, Reserve, Snapshot, TimePasses, SetBack, Idle, PrunesOld, BackupsTypes
  <2> QED
    BY <1>1, <1>2, <1>3, <2>1 DEF PrunesOld, NewestKept
<1> QED
  BY <1>1, <1>2, <1>4

(* A new backup displaces at most older ones from the newest.              *)
LEMMA RenameStep ==
  ASSUME BackupsInv, RenameBackup
  PROVE  BackupsInv'
<1> USE DEF BackupsInv
<1>1. /\ pass.pc = "rename" /\ pass.at \in whole /\ UNCHANGED <<clock, whole, troubles>>
      /\ folder' = folder \cup {pass.at} /\ written' = written \cup {pass.at}
      /\ pass' = [pass EXCEPT !.pc = "list"]
  BY DEF RenameBackup, WholeFirst
<1>2. pass.at \in Nat /\ pass'.prune = pass.prune /\ pass'.pc = "list"
  BY <1>1 DEF BackupsTypes
<1>3. written' \in SUBSET Nat /\ IsFiniteSet(written')
  BY <1>1, <1>2, FS_AddElement DEF BackupsTypes
<1>4. Newest(Keep, written') \subseteq Newest(Keep, written) \cup {pass.at}
  <2>1. Newest(Keep, written') \cap written \subseteq Newest(Keep, written)
    BY <1>1, <1>3, NewestOfMore, BackupsAssumption DEF BackupsTypes
  <2>2. Newest(Keep, written') \subseteq written'
    BY NewestInSet
  <2> QED
    BY <1>1, <2>1, <2>2
<1>5. NewestKept'
  <2>1. Newest(Keep, written)' = Newest(Keep, written')
    BY DEF Newest, NewerThan
  <2> QED
    BY <1>1, <1>4, <2>1 DEF NewestKept
<1>6. PrunesOld' /\ WholeFirst' /\ BackupsTypes'
  BY <1>1, <1>2, <1>3 DEF PrunesOld, WholeFirst, BackupsTypes
<1>7. folder' \subseteq written'
  BY <1>1
<1> QED
  BY <1>5, <1>6, <1>7

(* The newest among the files are the newest of all: all others may go.    *)
LEMMA PruningSteps ==
  ASSUME BackupsInv, ListBackups \/ EndBackup \/ \E t \in folder : RemoveBackup(t)
  PROVE  BackupsInv'
<1> USE DEF BackupsInv
<1>1. UNCHANGED written /\ Newest(Keep, written)' = Newest(Keep, written)
  BY DEF ListBackups, EndBackup, RemoveBackup, Newest, NewerThan
<1>2. CASE ListBackups
  <2>1. Newest(Keep, written) \cap folder \subseteq Newest(Keep, folder)
    BY NewestOfMore, BackupsAssumption DEF BackupsTypes
  <2>2. pass' = [pass EXCEPT !.pc = "prune", !.prune = folder \ Newest(Keep, folder)]
        /\ UNCHANGED <<clock, folder, partials, whole, written, troubles>>
    BY <1>2 DEF ListBackups
  <2>3. folder \ Newest(Keep, folder) \in SUBSET Nat
    BY DEF BackupsTypes
  <2>4. pass'.pc = "prune" /\ pass'.prune = folder \ Newest(Keep, folder) /\ BackupsTypes'
    BY <2>2, <2>3 DEF BackupsTypes
  <2> QED
    BY <1>1, <2>1, <2>2, <2>4 DEF PrunesOld, WholeFirst, NewestKept
<1>3. CASE EndBackup
  <2>1. pass' = Idle /\ UNCHANGED <<clock, folder, partials, whole, written, troubles>>
    BY <1>3 DEF EndBackup
  <2> QED
    BY <1>1, <2>1 DEF Idle, BackupsTypes, PrunesOld, WholeFirst, NewestKept
<1>4. ASSUME NEW t \in folder, RemoveBackup(t)
      PROVE  BackupsInv'
  <2>1. /\ pass.pc = "prune" /\ t \in pass.prune
        /\ folder' = folder \ {t} /\ whole' = whole \ {t}
        /\ pass' = [pass EXCEPT !.prune = @ \ {t}]
        /\ UNCHANGED <<clock, written, troubles>>
    BY <1>4 DEF RemoveBackup
  <2>2. pass'.pc = "prune" /\ pass'.prune = pass.prune \ {t} /\ BackupsTypes'
    BY <2>1 DEF BackupsTypes
  <2>3. t \notin Newest(Keep, written)
    BY <2>1 DEF PrunesOld
  <2> QED
    BY <1>1, <2>1, <2>2, <2>3 DEF PrunesOld, WholeFirst, NewestKept
<1> QED
  BY <1>2, <1>3, <1>4

LEMMA FailingStep ==
  ASSUME BackupsInv, BackupFails
  PROVE  BackupsInv'
<1> USE DEF BackupsInv
<1>1. /\ pass' = Idle /\ UNCHANGED <<clock, folder, written>>
      /\ whole' = whole \cap (folder \cup partials') /\ troubles > 0 /\ troubles' = troubles - 1
  BY DEF BackupFails, Trouble
<1>2. BackupsTypes' /\ WholeFirst'
  BY <1>1 DEF BackupsTypes, Idle, WholeFirst
<1>3. NewestKept' /\ PrunesOld'
  BY <1>1 DEF NewestKept, PrunesOld, Newest, NewerThan, Idle
<1> QED
  BY <1>1, <1>2, <1>3

LEMMA BackupsStep == BackupsInv /\ [BackupsNext]_backupsVars => BackupsInv'
<1> SUFFICES ASSUME BackupsInv, [BackupsNext]_backupsVars PROVE BackupsInv'
  OBVIOUS
<1>1. CASE UNCHANGED backupsVars
  BY <1>1 DEF backupsVars, BackupsInv, BackupsTypes, WholeFirst, PrunesOld, NewestKept, Newest, NewerThan
<1>2. CASE StartBackup \/ Reserve \/ Snapshot \/ TimePasses \/ SetBack
  BY <1>2, WritingSteps
<1>3. CASE RenameBackup
  BY <1>3, RenameStep
<1>4. CASE ListBackups \/ EndBackup \/ \E t \in folder : RemoveBackup(t)
  BY <1>4, PruningSteps
<1>5. CASE BackupFails
  BY <1>5, FailingStep
<1> QED
  BY <1>1, <1>2, <1>3, <1>4, <1>5 DEF BackupsNext, BackupStep

-------------------------------------------------------------------------------

(* What has the name of a backup is whole, and the newest of all backups   *)
(* ever completed are there, wherever passes fail or die and whatever the  *)
(* clock is set to (engine/backup.go).                                     *)
THEOREM NewestAreKept == BackupsSpec => []NewestKept
<1>1. BackupsInv => NewestKept
  BY DEF BackupsInv
<1> QED
  BY <1>1, BackupsStart, BackupsStep, PTL DEF BackupsSpec

(* Every time a backup carries is one the clock has shown, and a pass      *)
(* removes only what was a backup.                                         *)
BackupTimes == BackupsTypeOK /\ pass.prune \subseteq written

THEOREM BackupsTyped == BackupsSpec => []BackupsTypeOK
<1> USE BackupsAssumption
<1>1. BackupsInit => BackupTimes
  BY DEF BackupsInit, BackupTimes, BackupsTypeOK, Idle
<1>2. BackupTimes /\ BackupsInv /\ [BackupsNext]_backupsVars => BackupTimes'
  <2> SUFFICES ASSUME BackupTimes, BackupsInv, [BackupsNext]_backupsVars PROVE BackupTimes'
    OBVIOUS
  <2>a. /\ pass \in [pc : {"idle", "reserve", "snapshot", "rename", "list", "prune"}, at : Nat,
                     prune : SUBSET Nat]
        /\ folder \subseteq written
    BY DEF BackupsInv, BackupsTypes
  <2> USE <2>a DEF BackupTimes, BackupsTypeOK
  <2>1. CASE StartBackup
    BY <2>1 DEF StartBackup, Idle
  <2>2. CASE Reserve \/ Snapshot
    BY <2>2 DEF Reserve, Snapshot
  <2>3. CASE RenameBackup
    BY <2>3 DEF RenameBackup
  <2>4. CASE ListBackups \/ EndBackup
    <3>1. folder \ Newest(Keep, folder) \subseteq written
      OBVIOUS
    <3>2. UNCHANGED <<clock, folder, partials, whole, written>>
      BY <2>4 DEF ListBackups, EndBackup
    <3>3. /\ pass'.pc \in {"idle", "prune"} /\ pass'.at \in 0 .. End
          /\ pass'.prune \subseteq written
      <4>1. CASE ListBackups
        <5> DEFINE older == folder \ Newest(Keep, folder)
        <5>1. pass' = [pass EXCEPT !.pc = "prune", !.prune = older]
          BY <4>1 DEF ListBackups
        <5> HIDE DEF older
        <5>2. pass'.pc = "prune" /\ pass'.at = pass.at /\ pass'.prune = older
          BY <5>1
        <5> QED
          BY <5>2, <3>1 DEF older
      <4>2. CASE EndBackup
        BY <4>2 DEF EndBackup, Idle
      <4> QED
        BY <2>4, <4>1, <4>2
    <3> QED
      BY <3>2, <3>3
  <2>5. ASSUME NEW t \in folder, RemoveBackup(t) PROVE BackupTimes'
    BY <2>5 DEF RemoveBackup
  <2>6. CASE BackupFails
    BY <2>6 DEF BackupFails, Idle
  <2>7. CASE TimePasses
    BY <2>7 DEF TimePasses
  <2>8. CASE SetBack
    BY <2>8 DEF SetBack
  <2>9. CASE UNCHANGED backupsVars
    BY <2>9 DEF backupsVars
  <2> QED
    BY <2>1, <2>2, <2>3, <2>4, <2>5, <2>6, <2>7, <2>8, <2>9 DEF BackupsNext, BackupStep
<1>3. BackupTimes => BackupsTypeOK
  BY DEF BackupTimes
<1> QED
  BY <1>1, <1>2, <1>3, BackupsStart, BackupsStep, PTL DEF BackupsSpec

-------------------------------------------------------------------------------
(* Leases on items exclude each other, but for those that a namesake of    *)
(* their holder released or renewed.                                       *)

LEMMA OneLessType == ASSUME NEW t \in Nat PROVE OneLess(t) \in Nat /\ (OneLess(t) > 0 => t > 0)
  BY DEF OneLess

LEMMA NamesakesType ==
  ASSUME NEW c \in Lessees, NEW i \in Items
  PROVE  /\ Namesakes(c, i) \subseteq Lessees \X Items
         /\ \A d \in Lessees, j \in Items :
              <<d, j>> \in Namesakes(c, i)
                <=> j = i /\ d # c /\ OwnerOf[d] = OwnerOf[c] /\ i \in handle[d]
  BY DEF Namesakes

(* Rows and handles keep their types (the tables of store/locks.go).       *)
THEOREM LocksTyped == LocksSpec => []LocksTypeOK
<1>1. LocksInit => LocksTypeOK
  BY DEF LocksInit, LocksTypeOK
<1>2. LocksTypeOK /\ [LocksNext]_locksVars => LocksTypeOK'
  <2> SUFFICES ASSUME LocksTypeOK, [LocksNext]_locksVars PROVE LocksTypeOK'
    OBVIOUS
  <2> USE LocksAssumption DEF LocksTypeOK
  <2>1. ASSUME NEW c \in Lessees, NEW i \in Items, Acquire(c, i) PROVE LocksTypeOK'
    BY <2>1 DEF Acquire, SetLease
  <2>2. ASSUME NEW c \in Lessees, NEW i \in Items, Renew(c, i) PROVE LocksTypeOK'
    BY <2>2, NamesakesType DEF Renew, SetLease
  <2>3. ASSUME NEW c \in Lessees, NEW i \in Items, Release(c, i) PROVE LocksTypeOK'
    BY <2>3, NamesakesType DEF Release
  <2>8. ASSUME NEW c \in Lessees, NEW i \in Items, ReleaseFails(c, i) PROVE LocksTypeOK'
    BY <2>8 DEF ReleaseFails
  <2>4. ASSUME NEW c \in Lessees, HolderDies(c) PROVE LocksTypeOK'
    BY <2>4 DEF HolderDies
  <2>5. CASE LeaseTick
    BY <2>5, OneLessType DEF LeaseTick
  <2>6. CASE UNCHANGED locksVars
    BY <2>6 DEF locksVars
  <2>7. QED
    BY <2>1, <2>2, <2>3, <2>4, <2>5, <2>6, <2>8 DEF LocksNext
<1>3. QED
  BY <1>1, <1>2, PTL DEF LocksSpec

(* A live lease has its row: an Acquire waits for the row to expire, and   *)
(* what Release deletes and Renew moves carries the name of the caller     *)
(* (locks.go, DELETE ... owner), which only a namesake can use too.        *)
THEOREM LiveLeaseKept == LocksSpec => []LiveLeaseHasRow
<1>1. LocksInit => LiveLeaseHasRow
  BY DEF LocksInit, LiveLeaseHasRow, Entitled
<1>2. LocksTypeOK /\ LiveLeaseHasRow /\ [LocksNext]_locksVars => LiveLeaseHasRow'
  <2> SUFFICES ASSUME LocksTypeOK, LiveLeaseHasRow, [LocksNext]_locksVars,
                      NEW d \in Lessees, NEW j \in Items, Entitled(d, j)', <<d, j>> \notin robbed'
               PROVE  (owner[j] = OwnerOf[d] /\ remaining[j] = believed[d][j])'
    BY DEF LiveLeaseHasRow
  <2> USE LocksAssumption DEF LocksTypeOK, Entitled
  <2>1. ASSUME NEW c \in Lessees, NEW i \in Items, Acquire(c, i)
        PROVE  (owner[j] = OwnerOf[d] /\ remaining[j] = believed[d][j])'
    <3>1. CASE c = d /\ i = j
      BY <2>1, <3>1 DEF Acquire, SetLease
    <3>2. CASE ~(c = d /\ i = j)
      <4>1. Entitled(d, j) /\ <<d, j>> \notin robbed
        BY <2>1, <3>2 DEF Acquire, SetLease
      <4>2. i # j
        BY <2>1, <3>2, <4>1 DEF Acquire, Vacant, LiveLeaseHasRow
      <4>3. QED
        BY <2>1, <4>1, <4>2 DEF Acquire, SetLease, LiveLeaseHasRow
    <3>3. QED
      BY <3>1, <3>2
  <2>2. ASSUME NEW c \in Lessees, NEW i \in Items, Renew(c, i)
        PROVE  (owner[j] = OwnerOf[d] /\ remaining[j] = believed[d][j])'
    <3>1. CASE c = d /\ i = j
      BY <2>2, <3>1 DEF Renew, SetLease
    <3>2. CASE ~(c = d /\ i = j)
      <4>1. Entitled(d, j) /\ <<d, j>> \notin robbed /\ <<d, j>> \notin Namesakes(c, i)
        BY <2>2, <3>2 DEF Renew, SetLease
      <4>2. owner[j] = OwnerOf[d] /\ remaining[j] = believed[d][j]
        BY <4>1 DEF LiveLeaseHasRow
      <4>3. i # j
        BY <2>2, <3>2, <4>1, <4>2, NamesakesType DEF Renew
      <4>4. QED
        BY <2>2, <4>2, <4>3 DEF Renew, SetLease
    <3>3. QED
      BY <3>1, <3>2
  <2>3. ASSUME NEW c \in Lessees, NEW i \in Items, Release(c, i)
        PROVE  (owner[j] = OwnerOf[d] /\ remaining[j] = believed[d][j])'
    <3>1. ~(c = d /\ i = j) /\ Entitled(d, j) /\ <<d, j>> \notin robbed
          /\ (Deletes(c, i) => <<d, j>> \notin Namesakes(c, i))
      BY <2>3 DEF Release
    <3>2. owner[j] = OwnerOf[d] /\ remaining[j] = believed[d][j]
      BY <3>1 DEF LiveLeaseHasRow
    <3>3. i = j => ~Deletes(c, i)
      BY <3>1, <3>2, NamesakesType DEF Deletes
    <3>4. owner'[j] = owner[j] /\ remaining'[j] = remaining[j] /\ believed'[d][j] = believed[d][j]
      BY <2>3, <3>1, <3>3 DEF Release
    <3>5. QED
      BY <3>2, <3>4
  <2>4. ASSUME NEW c \in Lessees, NEW i \in Items, ReleaseFails(c, i)
        PROVE  (owner[j] = OwnerOf[d] /\ remaining[j] = believed[d][j])'
    <3>1. ~(c = d /\ i = j) /\ Entitled(d, j) /\ <<d, j>> \notin robbed
      BY <2>4 DEF ReleaseFails
    <3>2. QED
      BY <2>4, <3>1 DEF ReleaseFails, LiveLeaseHasRow
  <2>5. ASSUME NEW c \in Lessees, HolderDies(c)
        PROVE  (owner[j] = OwnerOf[d] /\ remaining[j] = believed[d][j])'
    BY <2>5 DEF HolderDies, LiveLeaseHasRow
  <2>6. CASE LeaseTick
    <3>1. Entitled(d, j) /\ <<d, j>> \notin robbed
      BY <2>6, OneLessType DEF LeaseTick
    <3>2. QED
      BY <2>6, <3>1 DEF LeaseTick, LiveLeaseHasRow
  <2>7. CASE UNCHANGED locksVars
    BY <2>7 DEF locksVars, LiveLeaseHasRow
  <2>8. QED
    BY <2>1, <2>2, <2>3, <2>4, <2>5, <2>6, <2>7 DEF LocksNext
<1>3. QED
  BY <1>1, <1>2, LocksTyped, PTL DEF LocksSpec

(* Two clients take themselves to be entitled to one item only where a     *)
(* namesake of one of them has been at its row: whoever takes the lease    *)
(* finds no row of a live one.                                             *)
THEOREM LeasesExclude == LocksSpec => []LeaseExclusion
<1>1. LocksInit => LeaseExclusion
  BY DEF LocksInit, LeaseExclusion, Entitled
<1>2. LocksTypeOK /\ LiveLeaseHasRow /\ LeaseExclusion /\ [LocksNext]_locksVars
      => LeaseExclusion'
  <2> SUFFICES ASSUME LocksTypeOK, LiveLeaseHasRow, LeaseExclusion, [LocksNext]_locksVars,
                      NEW d \in Lessees, NEW e \in Lessees, NEW j \in Items,
                      Entitled(d, j)', Entitled(e, j)', d # e,
                      <<d, j>> \notin robbed', <<e, j>> \notin robbed'
               PROVE  FALSE
    BY DEF LeaseExclusion
  <2> USE LocksAssumption DEF LocksTypeOK
  <2> DEFINE Sound(f) == Entitled(f, j) /\ <<f, j>> \notin robbed
  <2>1. ~(Sound(d) /\ Sound(e))
    BY DEF LeaseExclusion
  <2>2. \A f \in Lessees : Sound(f) => owner[j] = OwnerOf[f] /\ remaining[j] > 0
    BY DEF LiveLeaseHasRow, Entitled
  <2>3. ASSUME NEW c \in Lessees, NEW i \in Items, Acquire(c, i) PROVE FALSE
    <3>1. \A f \in Lessees : Sound(f) => i # j
      BY <2>2, <2>3 DEF Acquire, Vacant
    <3>2. \A f \in {d, e} : f # c \/ i # j => Sound(f)
      BY <2>3 DEF Acquire, SetLease, Entitled
    <3> QED
      BY <2>1, <3>1, <3>2
  <2>4. ASSUME NEW c \in Lessees, NEW i \in Items, Renew(c, i) PROVE FALSE
    <3>1. \A f \in {d, e} : f # c \/ i # j => Sound(f) /\ <<f, j>> \notin Namesakes(c, i)
      BY <2>4 DEF Renew, SetLease, Entitled
    <3>2. \A f \in {d, e} : f # c /\ i = j => OwnerOf[f] # OwnerOf[c]
      BY <3>1, NamesakesType DEF Entitled
    <3>3. \A f \in {d, e} : f # c /\ i = j => FALSE
      BY <2>2, <2>4, <3>1, <3>2 DEF Renew
    <3> QED
      BY <2>1, <3>1, <3>3
  <2>5. ASSUME NEW c \in Lessees, NEW i \in Items, Release(c, i) \/ ReleaseFails(c, i)
        PROVE  FALSE
    <3>1. \A f \in {d, e} : ~(f = c /\ i = j)
      BY <2>5 DEF Release, ReleaseFails, Entitled
    <3>2. ASSUME NEW f \in {d, e} PROVE Sound(f)
      <4>1. f \in Lessees /\ ~(f = c /\ i = j) /\ f \in {d, e}
        BY <3>1
      <4>2. /\ j \in handle'[f] /\ believed'[f][j] > 0 /\ <<f, j>> \notin robbed'
        BY DEF Entitled
      <4>3. /\ handle' = [handle EXCEPT ![c] = @ \ {i}]
            /\ believed' = [believed EXCEPT ![c][i] = 0]
            /\ robbed \ {<<c, i>>} \subseteq robbed'
        BY <2>5 DEF Release, ReleaseFails
      <4>4. j \in handle[f] /\ believed[f][j] > 0
        BY <4>1, <4>2, <4>3
      <4> QED
        BY <4>1, <4>2, <4>3, <4>4 DEF Entitled
    <3> QED
      BY <2>1, <3>2
  <2>6. ASSUME NEW c \in Lessees, HolderDies(c) PROVE FALSE
    <3>1. \A f \in {d, e} : Sound(f)
      BY <2>6 DEF HolderDies, Entitled
    <3> QED
      BY <2>1, <3>1
  <2>7. CASE LeaseTick
    <3>1. \A f \in {d, e} : Sound(f)
      BY <2>7, OneLessType DEF LeaseTick, Entitled
    <3> QED
      BY <2>1, <3>1
  <2>8. CASE UNCHANGED locksVars
    BY <2>1, <2>8 DEF locksVars, Entitled
  <2> QED
    BY <2>3, <2>4, <2>5, <2>6, <2>7, <2>8 DEF LocksNext
<1> QED
  BY <1>1, <1>2, LocksTyped, LiveLeaseKept, PTL DEF LocksSpec
===============================================================================
