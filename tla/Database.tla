------------------------------ MODULE Database ------------------------------
(***************************************************************************)
(* The SQLite database of a data root: connections and their transactions  *)
(* (src/mom_igd/db/connection.py), the migrator that makes its schema      *)
(* (src/mom_igd/db/migrator.py) and the audit trail (src/mom_igd/audit.py) *)
(* that every change of state is written to.                               *)
(*                                                                         *)
(* A connection is in autocommit unless it has begun a transaction; BEGIN  *)
(* IMMEDIATE takes the one write lock of the database.  A killed process   *)
(* leaves what it had committed.  What the rows mean is in Workflow.  The  *)
(* hash of an event is injective and covers its predecessor's: the model   *)
(* keeps, of prev_hash, which event's hash it is.                          *)
(***************************************************************************)
EXTENDS Naturals, Sequences, FiniteSets

CONSTANTS
    Proc,           \* processes with a connection
    HeadVersion,    \* migrations in this build
    Statements,     \* statements of each
    NoRows,         \* the tables of a new database
    MaxFaults       \* bound: kills and failing statements

ASSUME DatabaseAssumption ==
    HeadVersion \in Nat \ {0} /\ Statements \in Nat \ {0} /\ MaxFaults \in Nat

VARIABLES
    stored,         \* what is committed: schema, executed statements, rows, events
    writer,         \* who holds the write lock, at most one
    view,           \* what a transaction sees: the database with its own writes
    at,             \* where each process is, "closed" outside
    already,        \* versions apply_migrations has read as applied, or applied
    faults          \* bound counter

databaseVars == <<stored, writer, view>>
openVars == <<databaseVars, at, already, faults>>

Empty == [schema |-> 0, made |-> <<>>, rows |-> NoRows, events |-> <<>>]

DatabaseInit ==
    /\ stored = Empty /\ writer = {} /\ view = [p \in Proc |-> Empty]
    /\ at = [p \in Proc |-> "closed"] /\ already = [p \in Proc |-> 0]
    /\ faults = 0

Move(p, step) == at' = [at EXCEPT ![p] = step]

-----------------------------------------------------------------------------
(* Connections *)

\* MUTANT: no transaction is opened, and each statement commits on its own.
BeginNothing(p) == UNCHANGED databaseVars

\* transaction: BEGIN IMMEDIATE waits for the lock.
BeginImmediate(p) ==
    /\ writer = {} /\ writer' = {p} /\ UNCHANGED stored
    /\ view' = [view EXCEPT ![p] = stored]

View(p) == IF p \in writer THEN view[p] ELSE stored

\* A statement writes to its transaction, or commits on its own without one.
Write(p, db) ==
    /\ UNCHANGED writer
    /\ IF p \in writer THEN view' = [view EXCEPT ![p] = db] /\ UNCHANGED stored
                       ELSE stored' = db /\ UNCHANGED view

Leave(p) == writer' = writer \ {p} /\ view' = [view EXCEPT ![p] = Empty]
Commit(p) == stored' = View(p) /\ Leave(p)
Rollback(p) == UNCHANGED stored /\ Leave(p)

-----------------------------------------------------------------------------
(* initialize_database and apply_migrations *)

Executed(db) == {db.made[n] : n \in 1..Len(db.made)}

\* discover_migrations: numbered from 1 without a gap.
Migrations == 1..HeadVersion

\* split_sql_statements: the statements of a script, to be executed one by one.
Script(version) == [k \in 1..Statements |-> <<version, k>>]

\* The statements of the next migration that are yet to run.
Pending(p) ==
    {k \in 1..Statements : Script(already[p] + 1)[k] \notin Executed(View(p))}

\* The versions applied are read once, before the first transaction.
Start(p) ==
    /\ at[p] = "closed" /\ Move(p, "migrate")
    /\ already' = [already EXCEPT ![p] = stored.schema]
    /\ UNCHANGED <<databaseVars, faults>>

BeginMigration(p) ==
    /\ at[p] = "migrate" /\ already[p] + 1 \in Migrations
    /\ BeginImmediate(p) /\ Move(p, "execute")
    /\ UNCHANGED <<already, faults>>

\* Statements run in order.  One that has run before, by another process since
\* the versions were read, fails: every migration creates something.
Execute(p) ==
    /\ at[p] = "execute" /\ Pending(p) # {} /\ UNCHANGED <<at, already, faults>>
    /\ LET k == CHOOSE i \in Pending(p) : \A j \in Pending(p) : i <= j
       IN  Write(p, [View(p) EXCEPT !.made = Append(@, Script(already[p] + 1)[k])])

MigrationFails(p) ==
    /\ at[p] = "execute" /\ View(p).schema > already[p]
    /\ Rollback(p) /\ Move(p, "closed") /\ UNCHANGED <<already, faults>>

\* The row of schema_migrations is in the transaction of its statements.
RecordMigration(p) ==
    /\ at[p] = "execute" /\ Pending(p) = {} /\ View(p).schema = already[p]
    /\ Write(p, [View(p) EXCEPT !.schema = already[p] + 1])
    /\ Move(p, "commitMigration") /\ UNCHANGED <<already, faults>>

CommitMigration(p) ==
    /\ at[p] = "commitMigration" /\ Commit(p) /\ Move(p, "migrate")
    /\ already' = [already EXCEPT ![p] = @ + 1] /\ UNCHANGED faults

Open(p) ==
    /\ at[p] = "migrate" /\ already[p] + 1 \notin Migrations
    /\ Move(p, "idle") /\ UNCHANGED <<databaseVars, already, faults>>

\* The write lock is not free within busy_timeout: BEGIN fails.
GiveUpWaiting(p) ==
    /\ at[p] = "migrate" /\ writer \notin {{}, {p}}
    /\ Move(p, "closed") /\ UNCHANGED <<databaseVars, already, faults>>

\* The process is killed.
Kill(p) ==
    /\ at[p] # "closed" /\ faults < MaxFaults /\ faults' = faults + 1
    /\ Rollback(p) /\ Move(p, "closed") /\ UNCHANGED already

MigratorStep(p) ==
    \/ Start(p) \/ BeginMigration(p) \/ Execute(p) \/ MigrationFails(p)
    \/ RecordMigration(p) \/ CommitMigration(p) \/ Open(p) \/ GiveUpWaiting(p) \/ Kill(p)

-----------------------------------------------------------------------------
(* The audit trail *)

LastEvent(db) == Len(db.events)

\* record_event: the event goes in with the hash read before.
WithEvent(db, change, last) ==
    [db EXCEPT !.events = Append(@, [change |-> change, prev |-> last])]

\* verify_chain, for events whose content nobody has touched.
ChainVerifies(db) == \A i \in 1..Len(db.events) : db.events[i].prev = i - 1

DatabaseTypeOK ==
    /\ writer \subseteq Proc /\ Cardinality(writer) <= 1
    /\ stored.schema \in 0..HeadVersion /\ already \in [Proc -> 0..HeadVersion]
    /\ Executed(stored) \subseteq (1..HeadVersion) \X (1..Statements)
    /\ faults \in 0..MaxFaults

(* A version is recorded exactly when its migration has run whole: whatever   *)
(* crashes or collides, the schema is that of the versions applied, each once *)
(* and in order.                                                              *)
SchemaIsWhole ==
    stored.made = [n \in 1..stored.schema * Statements |->
                      <<((n - 1) \div Statements) + 1, ((n - 1) % Statements) + 1>>]
=============================================================================
