------------------------------- MODULE Migrations -------------------------------
(***************************************************************************)
(* Opening the database with binaries of different versions               *)
(* (store/migrate.go, store.go Open and InTx): the service, and the same   *)
(* binary run with --check or --backup while it is up, apply the           *)
(* migrations they know one by one and refuse a database that is ahead of  *)
(* them.                                                                   *)
(***************************************************************************)
EXTENDS Naturals, FiniteSets

CONSTANTS
  Procs,        (* processes that may open the database                   *)
  Knows,        (* [Procs -> Nat]: the migrations 1 .. Knows[p] of each   *)
  Breaks        (* bound on migrations that fail half-way                 *)

ASSUME MigrationsAssumption ==
  Procs # {} /\ Knows \in [Procs -> Nat \ {0}] /\ Breaks \in Nat

VARIABLES
  applied,      (* schema_migrations: the versions recorded               *)
  schema,       (* [version -> how often its SQL took effect]             *)
  procAt,       (* [Procs -> where the process is]                        *)
  seenBy,       (* [Procs -> versions it read as applied]                 *)
  todoOf,       (* [Procs -> versions it still has to apply]              *)
  breaks        (* left                                                   *)

procVars == <<procAt, seenBy, todoOf>>
migrationsVars == <<applied, schema, procVars, breaks>>

Own(p) == 1 .. Knows[p]
Versions == UNION {Own(p) : p \in Procs}

MigrationsInit ==
  /\ applied \in {1 .. n : n \in 0 .. 1} /\ breaks = Breaks
  /\ schema = [v \in Versions |-> IF v \in applied THEN 1 ELSE 0]
  /\ procAt = [p \in Procs |-> "down"]
  /\ seenBy = [p \in Procs |-> {}] /\ todoOf = [p \in Procs |-> {}]

First(p) == CHOOSE v \in todoOf[p] : \A w \in todoOf[p] : v <= w
Goes(p, pc) == procAt' = [procAt EXCEPT ![p] = pc]
Stop(p) ==
  /\ Goes(p, "down")
  /\ seenBy' = [seenBy EXCEPT ![p] = {}] /\ todoOf' = [todoOf EXCEPT ![p] = {}]

-------------------------------------------------------------------------------

ReadApplied(p) ==
  /\ procAt[p] = "down"
  /\ Goes(p, "apply") /\ seenBy' = [seenBy EXCEPT ![p] = applied]
  /\ todoOf' = [todoOf EXCEPT ![p] = Own(p) \ applied]
  /\ UNCHANGED <<applied, schema, breaks>>

Advance(p) ==
  todoOf' = [todoOf EXCEPT ![p] = todoOf[p] \ {First(p)}] /\ UNCHANGED <<procAt, seenBy>>
Takes(v) == schema' = [schema EXCEPT ![v] = schema[v] + 1]

(* Mutant: the migration is recorded in a transaction of its own. *)
ApplyMigration_Split(p) ==
  /\ procAt[p] = "apply" /\ todoOf[p] # {} /\ First(p) \notin applied
  /\ Takes(First(p))
  /\ \/ applied' = applied \cup {First(p)} /\ Advance(p) /\ UNCHANGED breaks
     \/ breaks > 0 /\ breaks' = breaks - 1 /\ Stop(p) /\ UNCHANGED applied

(* The SQL and its record commit together or not at all.                   *)
ApplyMigration(p) ==
  /\ procAt[p] = "apply" /\ todoOf[p] # {} /\ First(p) \notin applied
  /\ applied' = applied \cup {First(p)} /\ Takes(First(p)) /\ Advance(p)
  /\ UNCHANGED breaks

(* Another process applied it since the versions were read, the SQL fails, *)
(* or the process dies: nothing of it stays, and the process does not run. *)
ApplyFails(p) ==
  /\ procAt[p] = "apply" /\ todoOf[p] # {} /\ Stop(p)
  /\ \/ First(p) \in applied /\ UNCHANGED breaks
     \/ breaks > 0 /\ breaks' = breaks - 1
  /\ UNCHANGED <<applied, schema>>

(* A database that was ahead of the binary is refused, after what was      *)
(* pending is applied.                                                     *)
Check(p) ==
  /\ procAt[p] = "apply" /\ todoOf[p] = {}
  /\ \/ seenBy[p] \subseteq Own(p) /\ Goes(p, "running") /\ UNCHANGED <<seenBy, todoOf>>
     \/ ~(seenBy[p] \subseteq Own(p)) /\ Stop(p)
  /\ UNCHANGED <<applied, schema, breaks>>

Exit(p) ==
  /\ procAt[p] = "running" /\ Stop(p)
  /\ UNCHANGED <<applied, schema, breaks>>

MigrationsNext ==
  \E p \in Procs : ReadApplied(p) \/ ApplyMigration(p) \/ ApplyFails(p) \/ Check(p) \/ Exit(p)

MigrationsSpec == MigrationsInit /\ [][MigrationsNext]_migrationsVars

-------------------------------------------------------------------------------
(* Properties.                                                             *)

MigrationsTypeOK ==
  /\ applied \subseteq Versions /\ schema \in [Versions -> Nat]
  /\ procAt \in [Procs -> {"down", "apply", "running"}]
  /\ seenBy \in [Procs -> SUBSET Versions]
  /\ todoOf \in [Procs -> SUBSET Versions] /\ \A p \in Procs : todoOf[p] \subseteq Own(p)

(* A process runs only on a schema that has each migration it knows, each  *)
(* took effect once, and what is recorded took effect, whichever processes *)
(* opened the database at once and wherever they failed.                   *)
RunsOnOwnSchema ==
  /\ \A v \in Versions : schema[v] = IF v \in applied THEN 1 ELSE 0
  /\ \A p \in Procs : procAt[p] = "running" => Own(p) \subseteq applied
===============================================================================
