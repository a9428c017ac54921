----------------------------- MODULE Migrations -----------------------------
(***************************************************************************)
(* The schema under database/migrate.go: Migrate, run by the api when it   *)
(* starts and by `migrate up`, and MigrateDown, run by `migrate down`,     *)
(* over the six scripts of src/migrations.                                 *)
(*                                                                         *)
(* A script is a sequence of statements.  MariaDB commits every DDL        *)
(* statement by itself, so neither a script nor the record of its version  *)
(* is atomic: each statement takes effect at once and for good, and the    *)
(* version is recorded after the last one.  Nothing locks out a second     *)
(* process that migrates.                                                  *)
(*                                                                         *)
(* goose is external code, modelled from its use: it keeps a table of      *)
(* recorded versions, takes the one recorded last as the current one,      *)
(* refuses to go up when one below the highest is not recorded, and runs   *)
(* the script after the current one until there is none.                   *)
(***************************************************************************)
EXTENDS Integers, FiniteSets, SequencesExt

CONSTANTS
  Processes,  \* "api", "migrate", or both
  Accounts,   \* the accounts there may be
  MaxCommands \* bound on the commands given to `migrate`

ASSUME MigrationsAssumption ==
  Processes \subseteq {"api", "migrate"} /\ MaxCommands \in Nat

VARIABLES
  schema,    \* the tables and added columns that exist
  versions,  \* goose_db_version, in the order of the last record of each
  accounts,  \* what the verification column says of each account
  proc,      \* the processes
  given,     \* the commands given so far
  undone     \* history: what a rollback has ever taken away

migrationVars == <<schema, versions, accounts, proc, given, undone>>

----------------------------------------------------------------------------
\* The scripts

Tables == {"users", "progress", "codes", "tokens"}
Columns == {"activity", "verified", "profile", "zone"}  \* all of them of users
Objects == Tables \cup Columns

Create(t) == [op |-> "create", of |-> t]
Add(c) == [op |-> "add", of |-> c]
Backfill == [op |-> "update", of |-> "verified"]
Drop(t) == [op |-> "drop", of |-> t]
DropColumns(c) == [op |-> "dropColumns", of |-> c]

\* Mutant: accounts are confirmed before there is a column to do it in.
UpBackfillFirst ==
  << <<Create("users")>>,
     <<Create("progress")>>,
     <<Add("activity")>>,
     <<Backfill, Add("verified"), Create("codes"), Create("tokens")>>,
     <<Add("profile")>>,
     <<Add("zone")>> >>

Up ==
  << <<Create("users")>>,
     <<Create("progress")>>,
     <<Add("activity")>>,
     <<Add("verified"), Backfill, Create("codes"), Create("tokens")>>,
     <<Add("profile")>>,
     <<Add("zone")>> >>

Down ==
  << <<Drop("users")>>,
     <<Drop("progress")>>,
     <<DropColumns("activity")>>,
     <<Drop("tokens"), Drop("codes"), DropColumns("verified")>>,
     <<DropColumns("profile")>>,
     <<DropColumns("zone")>> >>

\* What the scripts up to v leave.
Complete(v) == {s.of : s \in UNION {ToSet(Up[w]) : w \in 1 .. v}}

Statements == UNION {ToSet(Up[w]) \cup ToSet(Down[w]) : w \in DOMAIN Up}

\* Mutant: ADD COLUMN IF NOT EXISTS.
AppliesAgain(s) ==
  CASE s.op = "create" -> s.of = "users" \/ "users" \in schema
    [] s.op = "add" -> "users" \in schema
    [] s.op = "update" -> "verified" \in schema
    [] s.op = "drop" -> s.of # "users" \/ schema \cap Tables \subseteq {"users"}
    [] s.op = "dropColumns" -> s.of \in schema

\* CREATE TABLE IF NOT EXISTS and DROP TABLE IF EXISTS may be repeated, the
\* other tables refer to users, and adding a column that is there, or dropping
\* one that is not, is an error.
Applies(s) ==
  CASE s.op = "create" -> s.of = "users" \/ "users" \in schema
    [] s.op = "add" -> "users" \in schema /\ s.of \notin schema
    [] s.op = "update" -> "verified" \in schema
    [] s.op = "drop" -> s.of # "users" \/ schema \cap Tables \subseteq {"users"}
    [] s.op = "dropColumns" -> s.of \in schema

Lost(s) == IF s.of = "users" THEN {"users"} \cup Columns ELSE {s.of}

\* Column email_verified_at is NULL for an account registered with it, and
\* absent, so later NULL too, for one registered without.
Effect(s) ==
  /\ schema' = CASE s.op \in {"create", "add"} -> schema \cup {s.of}
                 [] s.op \in {"drop", "dropColumns"} -> schema \ Lost(s)
                 [] OTHER -> schema
  /\ undone' = undone \cup (schema \ schema')
  /\ accounts' = [a \in Accounts |->
       IF "users" \notin schema' \/ accounts[a] = "none" THEN "none"
       ELSE IF "verified" \notin schema' THEN "legacy"
       ELSE IF s.op = "update" THEN "verified" ELSE accounts[a]]

----------------------------------------------------------------------------
\* goose's table of versions

Latest == Len(Up)
Current == IF versions = <<>> THEN 0 ELSE Last(versions)
Highest == CHOOSE v \in 0 .. Latest :
             /\ v \in ToSet(versions) \cup {0}
             /\ \A w \in ToSet(versions) : w <= v
Gap == ToSet(versions) # 1 .. Highest

----------------------------------------------------------------------------
\* The processes

IdleProcess == [at |-> "idle", command |-> "none", v |-> 0, i |-> 0]
Failed == [IdleProcess EXCEPT !.at = "failed"]
Script(p) == IF proc[p].command = "down" THEN Down[proc[p].v] ELSE Up[proc[p].v]
Running(p) == proc[p].at = "running"

\* Only `migrate` takes a command; the api always goes up.
CommandsOf(p) == IF p = "api" THEN {"up"} ELSE {"up", "down"}

Start(p, c) ==
  /\ proc[p].at \in {"idle", "failed"} /\ c \in CommandsOf(p)
  /\ proc' = [proc EXCEPT ![p] =
       [at |-> IF c = "up" THEN "checking" ELSE "reading", command |-> c, v |-> 0, i |-> 0]]
  /\ IF p = "api" THEN UNCHANGED given ELSE given < MaxCommands /\ given' = given + 1
  /\ UNCHANGED <<schema, versions, accounts, undone>>

\* UpContext first refuses a table with a version missing.
CheckVersions(p) ==
  /\ proc[p].at = "checking"
  /\ proc' = [proc EXCEPT ![p] = IF Gap THEN Failed ELSE [@ EXCEPT !.at = "reading"]]
  /\ UNCHANGED <<schema, versions, accounts, given, undone>>

\* Mutant: after a script comes the one after the next.
NextVersionSkipping == IF Current = 1 THEN 3 ELSE Current + 1

NextVersion == Current + 1

\* The next script, or the end: the api then serves and the command is done.
ReadVersion(p) ==
  /\ proc[p].at = "reading"
  /\ proc' = [proc EXCEPT ![p] =
       CASE @.command = "up" /\ Current < Latest ->
              [@ EXCEPT !.at = "running", !.v = NextVersion, !.i = 1]
         [] @.command = "up" /\ Current = Latest /\ p = "api" -> [@ EXCEPT !.at = "serving"]
         [] @.command = "down" /\ Current > 0 ->
              [@ EXCEPT !.at = "running", !.v = Current, !.i = 1]
         [] @.command = "down" /\ Current = 0 -> Failed
         [] OTHER -> IdleProcess]
  /\ UNCHANGED <<schema, versions, accounts, given, undone>>

\* Mutant: the api logs the failure of a statement and goes on to serve.
AdvanceServing(p) ==
  IF ~Applies(Script(p)[proc[p].i])
  THEN [Failed EXCEPT !.at = IF p = "api" THEN "serving" ELSE @]
  ELSE IF proc[p].i < Len(Script(p)) THEN [proc[p] EXCEPT !.i = @ + 1]
  ELSE [proc[p] EXCEPT !.at = "recording", !.i = 0]

Advance(p) ==
  IF ~Applies(Script(p)[proc[p].i]) THEN Failed
  ELSE IF proc[p].i < Len(Script(p)) THEN [proc[p] EXCEPT !.i = @ + 1]
  ELSE [proc[p] EXCEPT !.at = "recording", !.i = 0]

\* One statement of the script; if it fails, so does the process.
Statement(p) ==
  /\ Running(p)
  /\ LET s == Script(p)[proc[p].i]
     IN IF Applies(s) THEN Effect(s) ELSE UNCHANGED <<schema, accounts, undone>>
  /\ proc' = [proc EXCEPT ![p] = Advance(p)]
  /\ UNCHANGED <<versions, given>>

Record(p) ==
  /\ proc[p].at = "recording"
  /\ versions' = LET others == RemoveFirst(versions, proc[p].v)
                 IN  IF proc[p].command = "up" THEN Append(others, proc[p].v) ELSE others
  /\ proc' = [proc EXCEPT ![p] =
       IF @.command = "up" THEN [@ EXCEPT !.at = "reading", !.v = 0, !.i = 0] ELSE IdleProcess]
  /\ UNCHANGED <<schema, accounts, given, undone>>

\* The process dies, is stopped, loses the database, or runs out of its two
\* minutes, wherever it is; the statement the server was executing may still
\* take effect.
Interrupted(p) ==
  /\ proc[p].at \notin {"idle", "failed"}
  /\ proc' = [proc EXCEPT ![p] = IdleProcess]
  /\ \/ UNCHANGED <<schema, accounts, undone>>
     \/ Running(p) /\ Applies(Script(p)[proc[p].i]) /\ Effect(Script(p)[proc[p].i])
  /\ UNCHANGED <<versions, given>>

\* Register of the api, which names no column but those of "activity".
Register(a) ==
  /\ "api" \in Processes /\ proc["api"].at = "serving"
  /\ accounts[a] = "none" /\ {"users", "activity"} \subseteq schema
  /\ accounts' = [accounts EXCEPT ![a] = IF "verified" \in schema THEN "unverified" ELSE "legacy"]
  /\ UNCHANGED <<schema, versions, proc, given, undone>>

----------------------------------------------------------------------------

\* A new database, or what an older release left: all its scripts, and accounts
\* that predate the column if it predates them.
MigrationInit ==
  /\ \E v \in 0 .. Latest :
       /\ schema = Complete(v) /\ versions = [w \in 1 .. v |-> w]
       /\ accounts \in [Accounts -> CASE v = 0 -> {"none"}
                                      [] v \in 1 .. 3 -> {"none", "legacy"}
                                      [] OTHER -> {"none", "unverified", "verified"}]
  /\ proc = [p \in Processes |-> IdleProcess]
  /\ given = 0 /\ undone = {}

Migrate(p) == CheckVersions(p) \/ ReadVersion(p) \/ Statement(p) \/ Record(p)

MigrationNext ==
  \/ \E p \in Processes :
       \/ \E c \in CommandsOf(p) : Start(p, c)
       \/ Migrate(p) \/ Interrupted(p)
  \/ \E a \in Accounts : Register(a)

MigrationSpec == MigrationInit /\ [][MigrationNext]_migrationVars

\* The runtime restarts the api, and a process that migrates goes on.
MigrationFairSpec ==
  /\ MigrationSpec
  /\ \A p \in Processes : WF_migrationVars(Migrate(p))
  /\ \A p \in Processes \cap {"api"} : WF_migrationVars(Start(p, "up"))

----------------------------------------------------------------------------
\* Properties

\* The next script cannot get through, or a version is missing.
Stuck ==
  \/ Gap
  \/ Current < Latest /\ \E s \in ToSet(Up[Current + 1]) : s # Backfill /\ ~Applies(s)

\* Types of the schema, the table of versions, the accounts and the processes.
MigrationTypeOK ==
  /\ given \in 0 .. MaxCommands
  /\ schema \subseteq Objects /\ undone \subseteq Objects
  /\ versions \in Seq(1 .. Latest) /\ IsInjective(versions)
  /\ accounts \in [Accounts -> {"none", "legacy", "unverified", "verified"}]
  /\ proc \in [Processes ->
       [at : {"idle", "failed", "checking", "reading", "running", "recording", "serving"},
        command : {"none", "up", "down"}, v : 0 .. Latest, i : Nat]]
  /\ \A p \in Processes : Running(p) => proc[p].i \in DOMAIN Script(p)

\* Whatever is interrupted, repeated or run twice at once, a version on record
\* has all its statements behind it, but for what a rollback took away.
\* (Migrate, MigrateDown)
RecordedMeansApplied == Complete(Highest) \ schema \subseteq undone

\* The api never serves on a schema its queries do not fit: nothing is missing
\* that it did not find there first, but for what a rollback took away.
\* (run of cmd/api, Migrate)
ServesOnCompleteSchema ==
  "api" \in Processes /\ proc["api"].at = "serving" => Objects \ schema \subseteq undone

\* Of every state: the tables keep their types, versions tell the truth, and
\* what is served is complete.
MigrationInv == MigrationTypeOK /\ RecordedMeansApplied /\ ServesOnCompleteSchema

\* The backfill of 00004 confirms accounts that predate verification and no
\* other: nobody who registered with it is let past the gate by a migration
\* that runs late or again, as long as the column was never rolled back.
BackfillSparesTheFlow ==
  [][ "verified" \notin undone' =>
        \A a \in Accounts : accounts[a] = "unverified" => accounts'[a] = "unverified" ]_migrationVars

\* Left in peace the api ends up serving, whatever release it started from and
\* whatever was interrupted or run beside it before, unless that left a script
\* half applied, or a version lost or recorded out of order.  (Migrate)
ServesUnlessStuck ==
  "api" \in Processes /\ <>[][~Interrupted("api")]_migrationVars
    => <>[](proc["api"].at = "serving") \/ <>[]Stuck

\* What the documentation says and an interrupted script does not keep:
\* starting the api is all that a change of the schema needs.
RestartIsEnough ==
  "api" \in Processes /\ <>[][~Interrupted("api")]_migrationVars => <>[](proc["api"].at = "serving")
=============================================================================
