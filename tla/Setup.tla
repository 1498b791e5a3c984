-------------------------------- MODULE Setup --------------------------------
(***************************************************************************)
(* Setting up and upgrading the database: infinimap-db init and migrate    *)
(* (db/init.py, db/schema.py, db/__main__.py), several of them at a time,  *)
(* of several builds, any of which may die between two statements; and the *)
(* check the API and the collector make when they start (db/startup.py).   *)
(*                                                                         *)
(* Every statement runs on an autocommit connection, so a BEGIN and a      *)
(* COMMIT in a migration file decide what is atomic, and the row that      *)
(* records the migration is a transaction of its own.                      *)
(***************************************************************************)
EXTENDS Integers, Sequences

CONSTANTS
  Last,      \* the newest migration there is
  Sql,       \* the statements of each migration, in order
  Object,    \* what migrations make: tables, views, extensions
  Op,        \* the operators that run infinimap-db
  Carries,   \* the newest migration in the build each operator has installed
  Expects    \* EXPECTED_VERSION of the build of each running half, by its role

API_ROLE == "infinimap_api"
COLLECTOR_ROLE == "infinimap_collector"
Role == {API_ROLE, COLLECTOR_ROLE}

VERSION_TABLE == "schema_version"
TIMESCALEDB == "timescaledb"

Statement == [op : {"begin", "commit"}, obj : {"none"}]
             \cup [op : {"create", "ensure"}, obj : Object]

\* Whether the first n statements of a migration leave a transaction open.
InTransaction(v, n) ==
  \E j \in 1 .. n : Sql[v][j].op = "begin" /\ \A k \in j + 1 .. n : Sql[v][k].op # "commit"

ASSUME SetupAssumption ==
  /\ Last \in Nat
  /\ Sql \in [0 .. Last -> Seq(Statement)]
  /\ {VERSION_TABLE, TIMESCALEDB} \subseteq Object
  /\ Carries \in [Op -> 0 .. Last]
  /\ Expects \in [Role -> 0 .. Last]

\* What is begun is committed: no file ends inside a transaction.
ASSUME FilesCommit == \A v \in 0 .. Last : ~InTransaction(v, Len(Sql[v]))

VARIABLES
  contrib,    \* server: whether the required extensions are available
  database,   \* server: whether the database exists
  roles,      \* server: the roles that exist
  tables,     \* server: the objects that are committed
  readable,   \* server: the objects the two roles have been granted
  defaults,   \* server: whether they have default privileges on what is made later
  recorded,   \* the versions in schema_version
  pc,         \* where each run of infinimap-db stands
  command,    \* what each run is
  todo,       \* the pending migrations it found, less those it has applied
  at,         \* statements of the current step that have run
  made,       \* the objects of its open transaction
  shared,     \* history: the runs that had company
  granted     \* history: an init has ended well, with no other run beside it

server == <<contrib, database, roles, tables, readable, defaults, recorded>>
run    == <<pc, command, todo, at, made>>
setupVars   == <<server, run, shared, granted>>

Step == {"database", "roles", "extension", "version_table", "pending", "apply", "grants"}
End  == {"idle", "ok", "clash"}

Running == {p \in Op : pc[p] \in Step}

Goto(p, where) ==
  /\ pc' = [pc EXCEPT ![p] = where]
  /\ at' = [at EXCEPT ![p] = 0]

Advance(p) ==
  /\ at' = [at EXCEPT ![p] = @ + 1]
  /\ UNCHANGED pc

-----------------------------------------------------------------------------
(* The server's side of a statement. *)

\* Another transaction has made the name and not committed: the statement waits.
Locked(p, o) == \E q \in Op \ {p} : o \in made[q]

Exists(p, o) == o \in tables \cup made[p]

\* An object comes to be, with the default privileges then in force.
MakeObject(p, o, open) ==
  /\ IF open
       THEN made' = [made EXCEPT ![p] = @ \cup {o}] /\ UNCHANGED tables
       ELSE tables' = tables \cup {o} /\ UNCHANGED made
  /\ readable' = IF defaults THEN readable \cup {o} ELSE readable

\* A statement with IF NOT EXISTS, outside any transaction.
Ensured(p, o) ==
  IF Exists(p, o) THEN UNCHANGED <<tables, made, readable>> ELSE MakeObject(p, o, FALSE)

-----------------------------------------------------------------------------
(* The start of a run: preflight, and for migrate a database to connect to. *)

Start(p, c) ==
  /\ p \notin Running
  /\ shared' = IF Running = {} THEN shared \ {p} ELSE shared \cup Running \cup {p}
  /\ command' = [command EXCEPT ![p] = c]
  /\ Goto(p, IF ~contrib \/ (c = "migrate" /\ ~database) THEN "idle"
             ELSE IF c = "migrate" THEN "version_table" ELSE "database")
  /\ UNCHANGED <<server, todo, made, granted>>

\* The operator installs the contrib package preflight asks for.
Install ==
  /\ ~contrib
  /\ contrib' = TRUE
  /\ UNCHANGED <<database, roles, tables, readable, defaults, recorded, run, shared,
                 granted>>

\* initialise, part 1: the database and then the roles, one at a time.
CreateDatabase(p) ==
  /\ pc[p] = "database"
  /\ database' = TRUE
  /\ Goto(p, "roles")
  /\ UNCHANGED <<contrib, roles, tables, readable, defaults, recorded, command, todo,
                 made, shared, granted>>

CreateRole(p) ==
  /\ pc[p] = "roles"
  /\ IF API_ROLE \notin roles
       THEN roles' = roles \cup {API_ROLE} /\ UNCHANGED <<pc, at>>
       ELSE roles' = roles \cup {COLLECTOR_ROLE} /\ Goto(p, "extension")
  /\ UNCHANGED <<contrib, database, tables, readable, defaults, recorded, command, todo,
                 made, shared, granted>>

\* Part 2 opens with the extension, which migration 000 repeats.
EnsureExtension(p) ==
  /\ pc[p] = "extension"
  /\ ~Locked(p, TIMESCALEDB)
  /\ Ensured(p, TIMESCALEDB)
  /\ Goto(p, IF command[p] = "init" THEN "version_table" ELSE "grants")
  /\ UNCHANGED <<contrib, database, roles, defaults, recorded, command, todo, shared,
                 granted>>

-----------------------------------------------------------------------------
(* The migrations, the same for init and migrate. *)

EnsureVersionTable(p) ==
  /\ pc[p] = "version_table"
  /\ ~Locked(p, VERSION_TABLE)
  /\ Ensured(p, VERSION_TABLE)
  /\ Goto(p, "pending")
  /\ UNCHANGED <<contrib, database, roles, defaults, recorded, command, todo, shared,
                 granted>>

AfterMigrations(p) == IF command[p] = "init" THEN "grants" ELSE "ok"

\* Migrations of this build that schema_version has no row for.
Pending(p) == (0 .. Carries[p]) \ recorded

FindPending(p) ==
  /\ pc[p] = "pending"
  /\ todo' = [todo EXCEPT ![p] = Pending(p)]
  /\ Goto(p, IF Pending(p) = {} THEN AfterMigrations(p) ELSE "apply")
  /\ UNCHANGED <<server, command, made, shared, granted>>

\* Mutant: the migrations are taken in the order the directory lists them.
MutIsNext(p, v) == v \in todo[p] /\ \A w \in todo[p] : w <= v

\* The migration a run is at: they are applied in version order.
IsNext(p, v) == v \in todo[p] /\ \A w \in todo[p] : v <= w

AtStatement(p, v) ==
  /\ pc[p] = "apply"
  /\ IsNext(p, v)
  /\ at[p] < Len(Sql[v])

\* The statement a run at migration v is about to execute.
Now(p, v) == Sql[v][at[p] + 1]

BeginTransaction(p, v) ==
  /\ AtStatement(p, v) /\ Now(p, v).op = "begin"
  /\ Advance(p)
  /\ UNCHANGED <<server, command, todo, made, shared, granted>>

CommitTransaction(p, v) ==
  /\ AtStatement(p, v) /\ Now(p, v).op = "commit"
  /\ tables' = tables \cup made[p]
  /\ made' = [made EXCEPT ![p] = {}]
  /\ Advance(p)
  /\ UNCHANGED <<contrib, database, roles, readable, defaults, recorded, command, todo,
                 shared, granted>>

\* A statement that makes something, or finds with IF NOT EXISTS that it is there.
Make(p, v) ==
  /\ AtStatement(p, v) /\ Now(p, v).op \in {"create", "ensure"}
  /\ ~Locked(p, Now(p, v).obj)
  /\ IF Exists(p, Now(p, v).obj)
       THEN Now(p, v).op = "ensure" /\ UNCHANGED <<tables, made, readable>>
       ELSE MakeObject(p, Now(p, v).obj, InTransaction(v, at[p]))
  /\ Advance(p)
  /\ UNCHANGED <<contrib, database, roles, defaults, recorded, command, todo, shared,
                 granted>>

\* Mutant: the connection of a run that failed stays open, and its locks with it.
MutEndRun(p, why) ==
  /\ Goto(p, why)
  /\ todo' = [todo EXCEPT ![p] = {}]
  /\ UNCHANGED <<server, command, made, shared, granted>>

\* The run ends where it stands; the server rolls its open transaction back.
EndRun(p, why) ==
  /\ Goto(p, why)
  /\ made' = [made EXCEPT ![p] = {}]
  /\ todo' = [todo EXCEPT ![p] = {}]
  /\ UNCHANGED <<server, command, shared, granted>>

\* MigrationError: the name a CREATE makes is taken.
Clash(p, v) ==
  /\ AtStatement(p, v) /\ Now(p, v).op = "create"
  /\ ~Locked(p, Now(p, v).obj)
  /\ Exists(p, Now(p, v).obj)
  /\ EndRun(p, "clash")

\* Every statement has run: schema_version gets the row, in a transaction of its own.
Record(p, v) ==
  /\ pc[p] = "apply"
  /\ IsNext(p, v)
  /\ at[p] = Len(Sql[v])
  /\ recorded' = recorded \cup {v}
  /\ todo' = [todo EXCEPT ![p] = @ \ {v}]
  /\ Goto(p, IF todo[p] = {v} THEN AfterMigrations(p) ELSE "apply")
  /\ UNCHANGED <<contrib, database, roles, tables, readable, defaults, command, made,
                 shared, granted>>

-----------------------------------------------------------------------------
(* The grants: on all tables there are, and a statement later on what is   *)
(* made from then on.  The two roles get theirs one after the other and    *)
(* are taken together, for neither depends on the other's.                 *)

\* Mutant: nothing is said of the tables made later.
MutGrant(p) ==
  /\ pc[p] = "grants"
  /\ readable' = readable \cup tables
  /\ granted' = (granted \/ p \notin shared)
  /\ Goto(p, "ok")
  /\ UNCHANGED <<contrib, database, roles, tables, defaults, recorded, command, todo,
                 made, shared>>

Grant(p) ==
  /\ pc[p] = "grants"
  /\ IF at[p] = 0
       THEN readable' = readable \cup tables /\ UNCHANGED <<defaults, granted>> /\ Advance(p)
       ELSE /\ defaults' = TRUE
            /\ granted' = (granted \/ p \notin shared)
            /\ Goto(p, "ok")
            /\ UNCHANGED readable
  /\ UNCHANGED <<contrib, database, roles, tables, recorded, command, todo, made, shared>>

\* Killed, disconnected, out of disk: at any statement.
Die(p) == p \in Running /\ EndRun(p, "idle")

-----------------------------------------------------------------------------
(* The running halves. *)

\* check_schema lets a half go on: newer than its build is a warning, older or
\* absent is fatal, and so is a schema_version its role may not read.
CheckSchema(r) ==
  /\ database /\ r \in roles
  /\ VERSION_TABLE \in tables \cap readable
  /\ \E v \in recorded : Expects[r] <= v

-----------------------------------------------------------------------------
SetupInit ==
  /\ contrib \in BOOLEAN
  /\ database = FALSE /\ roles = {} /\ tables = {} /\ recorded = {}
  /\ readable = {} /\ defaults = FALSE
  /\ pc = [p \in Op |-> "idle"]
  /\ command = [p \in Op |-> "migrate"]
  /\ todo = [p \in Op |-> {}]
  /\ at = [p \in Op |-> 0]
  /\ made = [p \in Op |-> {}]
  /\ shared = {} /\ granted = FALSE

Apply(p) ==
  \E v \in 0 .. Last :
    \/ BeginTransaction(p, v) \/ CommitTransaction(p, v)
    \/ Make(p, v) \/ Clash(p, v) \/ Record(p, v)

Continue(p) ==
  \/ CreateDatabase(p) \/ CreateRole(p) \/ EnsureExtension(p)
  \/ EnsureVersionTable(p) \/ FindPending(p) \/ Apply(p) \/ Grant(p)

SetupNext ==
  \/ \E p \in Op :
       \/ \E c \in {"init", "init --no-migrate", "migrate"} : Start(p, c)
       \/ Continue(p)
       \/ Die(p)
  \/ Install

\* A run that waits for nothing goes on to its next statement, and one that
\* waits for a transaction is woken by the server when that transaction ends.
SetupSpec ==
  /\ SetupInit /\ [][SetupNext]_setupVars
  /\ \A p \in Op : WF_setupVars(Continue(p)) /\ SF_setupVars(Apply(p))

-----------------------------------------------------------------------------
\* Type invariant: the server and the runs are of their types.
SetupTypeOK ==
  /\ contrib \in BOOLEAN /\ database \in BOOLEAN /\ granted \in BOOLEAN /\ defaults \in BOOLEAN
  /\ roles \subseteq Role
  /\ tables \subseteq Object
  /\ readable \subseteq Object
  /\ recorded \subseteq 0 .. Last
  /\ pc \in [Op -> Step \cup End]
  /\ command \in [Op -> {"init", "init --no-migrate", "migrate"}]
  /\ todo \in [Op -> SUBSET (0 .. Last)]
  /\ at \in [Op -> Nat]
  /\ made \in [Op -> SUBSET Object]
  /\ shared \subseteq Op

\* What the first n statements of a migration make, and what all of them do.
MadeBy(v, n) == {Sql[v][i].obj : i \in {j \in 1 .. n : Sql[v][j].op \in {"create", "ensure"}}}
Makes(v) == MadeBy(v, Len(Sql[v]))

\* A recorded migration has made all it makes, and so has every one before it,
\* whatever runs of whatever builds died or met on the way.
RecordedIsApplied ==
  \A v \in recorded : \A u \in 0 .. v : u \in recorded /\ Makes(u) \subseteq tables

\* Why that is so: what a run has yet to apply and what is recorded make up its
\* build, and what it has executed of a migration is there or in its transaction.
ProgressOf(p) ==
  IF pc[p] = "apply"
    THEN /\ todo[p] \subseteq 0 .. Carries[p]
         /\ 0 .. Carries[p] \subseteq recorded \cup todo[p]
         /\ \A v \in todo[p] : IsNext(p, v) =>
              /\ at[p] <= Len(Sql[v])
              /\ MadeBy(v, at[p]) \subseteq tables \cup made[p]
              /\ InTransaction(v, at[p]) \/ made[p] = {}
    ELSE made[p] = {}

Progress == \A p \in Op : ProgressOf(p)

\* A half that passes its check finds everything its build's migrations make,
\* though the check reads the highest version only (startup.py:60).
ServesOnWholeSchema ==
  \A r \in Role : CheckSchema(r) => \A v \in 0 .. Expects[r] : Makes(v) \subseteq tables

\* A run that ends well leaves the schema at its build or past it, and an init
\* leaves the grants behind as well.
OkMeansDone ==
  \A p \in Op : pc[p] = "ok" =>
    /\ command[p] # "init --no-migrate" => 0 .. Carries[p] \subseteq recorded
    /\ command[p] # "migrate" => defaults

\* Once an init has ended well, and alone, both halves can read every table
\* there is and will be: grants need no second run (init.py:122).
GrantsLast == granted => tables \subseteq readable

\* What a run that ended well says is done is done, whatever the other runs do
\* and wherever they die: the migrations, the default grants, and the grants
\* on every table there comes to be.
WorkIsDone ==
  /\ SetupTypeOK
  /\ OkMeansDone
  /\ GrantsLast

\* Runs wait for one another's transactions, never for each other: all end.
RunsEnd == \A p \in Op : p \in Running ~> p \notin Running
=============================================================================
