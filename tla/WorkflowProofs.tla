--------------------------- MODULE WorkflowProofs ---------------------------
(***************************************************************************)
(* What TLAPS proves of Workflow, and of the Database under it, for every  *)
(* set of processes and every number of migrations, statements, stages,    *)
(* participants, changes and faults.                                       *)
(***************************************************************************)
EXTENDS Workflow, FiniteSetTheorems, SequenceTheorems, WellFoundedInduction, TLAPS

\* The steps at which a process holds the write lock.
MigrationSteps == {"execute", "commitMigration"}
ChangeSteps == {"read", "update", "hash", "insert", "commit"}
Steps == {"closed", "migrate", "idle"} \cup MigrationSteps \cup ChangeSteps

Fields == {"schema", "made", "rows", "events"}

LockInv ==
    /\ writer \subseteq Proc /\ \A p, q \in writer : p = q
    /\ \A p \in Proc : p \in writer <=> at[p] \in MigrationSteps \cup ChangeSteps
    /\ at \in [Proc -> Steps] /\ already \in [Proc -> 0..HeadVersion]
    /\ faults \in 0..MaxFaults /\ DOMAIN view = Proc
    /\ DOMAIN change = Proc /\ DOMAIN last = Proc
    /\ DOMAIN stored = Fields /\ \A p \in Proc : DOMAIN view[p] = Fields

-----------------------------------------------------------------------------
(* The schema *)

\* What has run when k statements of the migration after version v have.
Ran(v, k) == [n \in 1..(v * Statements + k) |->
                 <<((n - 1) \div Statements) + 1, ((n - 1) % Statements) + 1>>]

\* A migration that has not been overtaken continues the script of its version.
Migrating(p) ==
    /\ at[p] \in MigrationSteps => /\ already[p] + 1 \in Migrations
                                   /\ view[p].rows = stored.rows
                                   /\ view[p].events = stored.events
    /\ at[p] = "execute" =>
          /\ view[p].schema = stored.schema
          /\ \/ already[p] < stored.schema /\ view[p].made = stored.made
             \/ /\ already[p] = stored.schema
                /\ \E k \in 0..Statements : view[p].made = Ran(already[p], k)
    /\ at[p] = "commitMigration" =>
          /\ already[p] = stored.schema /\ view[p].schema = already[p] + 1
          /\ view[p].made = Ran(already[p] + 1, 0)

SchemaInv ==
    /\ stored.schema \in 0..HeadVersion /\ stored.made = Ran(stored.schema, 0)
    /\ \A p \in Proc : already[p] <= stored.schema /\ Migrating(p)
    /\ \A p \in Proc : at[p] \in ChangeSteps =>
          view[p].schema = stored.schema /\ view[p].made = stored.made

-----------------------------------------------------------------------------
(* The rows *)

RowNames == {Job, Capacity} \cup Stage \cup Member \cup {Active(m) : m \in Member}

Fit(rows) ==
    /\ Cardinality(Roster(rows)) <= rows[Capacity]
    /\ \A m \in Roster(rows) : rows[Active(m)] = "yes"

\* Without a job there are no stages.
GoodRows(rows) ==
    /\ DOMAIN rows = RowNames /\ rows[Job] \in JobStates \cup {"none"}
    /\ \A r \in Stage : rows[r] \in DOMAIN AllowedStageTransitions
    /\ rows[Job] = "none" => \A r \in Stage : rows[r] = "none"
    /\ \A m \in Member : rows[m] \in {"none", "in", "out"} /\ rows[Active(m)] \in {"yes", "no"}
    /\ rows[Capacity] \in Nat /\ Fit(rows)

\* What Read may choose.
Legal(rows, c, p) ==
    \/ c \in JobChanges(rows) \cup StageChanges(rows)
    \/ c \in MemberChanges(rows) \cup ActiveChanges(rows)
    \/ c \in CapacityChanges(rows, p)

-----------------------------------------------------------------------------
(* The trail *)

IsTrail(events) == events \in Seq({events[i] : i \in 1..Len(events)})

EventsIn(events, r) == {i \in 1..Len(events) : events[i].change.row = r}

Earlier(events, r, i) == {j \in EventsIn(events, r) : j < i}

Greatest(E) == CHOOSE j \in E : \A k \in E : k <= j

Before(events, r, i) ==
    IF Earlier(events, r, i) # {} THEN events[Greatest(Earlier(events, r, i))].change.to
    ELSE IF r \in Stage /\ EventsIn(events, Job) # {} THEN "PENDING" ELSE FirstRows[r]

\* The chain verifies, and the trail of each row leads to its value.
Trail(rows, events) ==
    /\ \A i \in 1..Len(events) :
          /\ events[i].prev = i - 1
          /\ events[i].change.row = Job => events[i].change.to # "none"
          /\ events[i].change.row \in Stage => rows[Job] # "none"
    /\ \A r \in Audited :
          /\ \A i \in EventsIn(events, r) : events[i].change.from = Before(events, r, i)
          /\ rows[r] = Before(events, r, Len(events) + 1)

Good(db) == IsTrail(db.events) /\ GoodRows(db.rows) /\ Trail(db.rows, db.events)

\* The change is made, and its event is not there yet.
Unrecorded(db, c, p) ==
    /\ IsTrail(db.events) /\ GoodRows(db.rows)
    /\ \E rows : /\ GoodRows(rows) /\ Legal(rows, c, p) /\ Trail(rows, db.events)
                 /\ db.rows = Applied(rows, c)

Changing(p) ==
    /\ at[p] \in {"read", "update", "commit"} => Good(view[p])
    /\ at[p] = "update" => Legal(view[p].rows, change[p], p)
    /\ at[p] \in {"hash", "insert"} => Unrecorded(view[p], change[p], p)
    /\ at[p] = "insert" => last[p] = Len(view[p].events)
    /\ at[p] \in ChangeSteps \ {"commit"} => Len(view[p].events) < MaxEvents
    /\ at[p] = "commit" => Len(view[p].events) <= MaxEvents

ChangeInv ==
    /\ Good(stored) /\ Len(stored.events) <= MaxEvents
    /\ \A p \in Proc : Changing(p)

IInv == LockInv /\ SchemaInv /\ ChangeInv

-----------------------------------------------------------------------------
(* The statements of the migrations, counted through *)

LEMMA Quotient ==
  ASSUME NEW v \in Nat, NEW d \in Nat \ {0}, NEW j \in 0..(d - 1)
  PROVE  (v * d + j) \div d = v /\ (v * d + j) % d = j
<1>. DEFINE n == v * d + j
            q == n \div d
            e == n % d
<1>1. n \in Nat /\ v * d \in Nat
  OBVIOUS
<1>2. q \in Int /\ e \in 0..(d - 1) /\ n = d * q + e
  BY <1>1
<1>. HIDE DEF n, q, e
<1>3. n = d * v + j
  BY DEF n
<1>4. d * v \in Int /\ d * q \in Int
  BY <1>2
<1>5. ASSUME q < v PROVE FALSE
  <2>1. d * (q + 1) <= d * v
    BY <1>2, <1>5
  <2>2. d * (q + 1) = d * q + d
    BY <1>2
  <2>. QED
    BY <1>2, <1>3, <1>4, <2>1, <2>2
<1>6. ASSUME q > v PROVE FALSE
  <2>1. d * (v + 1) <= d * q
    BY <1>2, <1>6
  <2>2. d * (v + 1) = d * v + d
    OBVIOUS
  <2>. QED
    BY <1>2, <1>3, <1>4, <2>1, <2>2
<1>7. q = v
  BY <1>2, <1>5, <1>6
<1>8. e = j
  BY <1>2, <1>3, <1>4, <1>7
<1>. QED
  BY <1>7, <1>8 DEF q, e, n

LEMMA Counts ==
  /\ HeadVersion \in Nat \ {0} /\ Statements \in Nat \ {0} /\ MaxFaults \in Nat
  /\ \A v \in Nat, k \in Nat : v * Statements + k \in Nat
  /\ \A v \in Nat : v * Statements + Statements = (v + 1) * Statements + 0
BY DatabaseAssumption

LEMMA RanIs ==
  ASSUME NEW v \in Nat, NEW k \in Nat
  PROVE  /\ Ran(v, k) \in Seq(Nat \X Nat) /\ Len(Ran(v, k)) = v * Statements + k
         /\ \A n \in 1..(v * Statements + k) :
               Ran(v, k)[n] = <<((n - 1) \div Statements) + 1, ((n - 1) % Statements) + 1>>
<1>1. v * Statements + k \in Nat
  BY Counts
<1>2. \A n \in 1..(v * Statements + k) :
          ((n - 1) \div Statements) + 1 \in Nat /\ ((n - 1) % Statements) + 1 \in Nat
  BY <1>1, Counts
<1>. DEFINE N == v * Statements + k
            f(n) == <<((n - 1) \div Statements) + 1, ((n - 1) % Statements) + 1>>
<1>3. Ran(v, k) = [n \in 1..N |-> f(n)]
  BY DEF Ran
<1>4. N \in Nat /\ \A n \in 1..N : f(n) \in Nat \X Nat
  BY <1>1, <1>2
<1>. HIDE DEF N, f
<1>5. Ran(v, k) \in Seq(Nat \X Nat) /\ Len(Ran(v, k)) = N
  BY <1>3, <1>4
<1>6. \A n \in 1..N : Ran(v, k)[n] = f(n)
  BY <1>3
<1>. QED
  BY <1>5, <1>6 DEF N, f

\* The next statement, once it has run, is the last of those that have.
LEMMA RanOneMore ==
  ASSUME NEW v \in Nat, NEW k \in 0..(Statements - 1)
  PROVE  Append(Ran(v, k), <<v + 1, k + 1>>) = Ran(v, k + 1)
<1>. DEFINE n == v * Statements + k
<1>1. n \in Nat /\ k \in Nat /\ v * Statements + (k + 1) = n + 1
  BY Counts
<1>2. n \div Statements = v /\ n % Statements = k
  BY Counts, Quotient
<1>. HIDE DEF n
<1>3. Ran(v, k) \in Seq(Nat \X Nat) /\ Len(Ran(v, k)) = n
  BY <1>1, RanIs DEF n
<1>4. \A i \in 1..n : Append(Ran(v, k), <<v + 1, k + 1>>)[i] = Ran(v, k)[i]
  BY <1>1, <1>3
<1>5. Append(Ran(v, k), <<v + 1, k + 1>>)[n + 1] = <<v + 1, k + 1>>
  BY <1>1, <1>3
<1>6. \A i \in 1..n : Ran(v, k)[i] = Ran(v, k + 1)[i]
  BY <1>1 DEF Ran, n
<1>7. Ran(v, k + 1)[n + 1] = <<v + 1, k + 1>>
  BY <1>1, <1>2 DEF Ran
<1>8. Ran(v, k + 1) = [i \in 1..(n + 1) |-> Ran(v, k + 1)[i]]
  BY <1>1 DEF Ran
<1>9. Append(Ran(v, k), <<v + 1, k + 1>>)
         = [i \in 1..(n + 1) |-> Append(Ran(v, k), <<v + 1, k + 1>>)[i]]
  BY <1>1, <1>3
<1>10. ASSUME NEW i \in 1..(n + 1)
       PROVE  Append(Ran(v, k), <<v + 1, k + 1>>)[i] = Ran(v, k + 1)[i]
  <2>1. CASE i = n + 1
    BY <2>1, <1>5, <1>7
  <2>2. CASE i \in 1..n
    BY <2>2, <1>4, <1>6
  <2>3. n \in Nat
    BY <1>1
  <2>4. i = n + 1 \/ i \in 1..n
    BY <2>3
  <2>. QED
    BY <2>1, <2>2, <2>4
<1>. QED
  BY <1>8, <1>9, <1>10

LEMMA RanWhole ==
  ASSUME NEW v \in Nat
  PROVE  Ran(v, Statements) = Ran(v + 1, 0)
BY Counts DEF Ran

\* Which statements have run.
LEMMA RanOf ==
  ASSUME NEW v \in Nat, NEW k \in 0..Statements, NEW u \in Nat, NEW i \in 1..Statements
  PROVE  (\E n \in 1..(v * Statements + k) : Ran(v, k)[n] = <<u + 1, i>>)
            <=> (u < v \/ (u = v /\ i <= k))
<1>. DEFINE N == v * Statements + k
<1>0. N \in Nat /\ u * Statements + i \in Nat /\ v * Statements \in Nat /\ u * Statements \in Nat
        /\ Statements \in Nat \ {0} /\ k \in Nat
  BY Counts
<1>1. ASSUME u < v \/ (u = v /\ i <= k)
      PROVE  \E n \in 1..N : Ran(v, k)[n] = <<u + 1, i>>
  <2>. DEFINE n == u * Statements + i
  <2>1. n \in 1..N
    <3>1. CASE u < v
      <4>1. (u + 1) * Statements <= v * Statements
        BY <3>1, <1>0
      <4>2. (u + 1) * Statements = u * Statements + Statements
        BY <1>0
      <4>. QED
        BY <1>0, <4>1, <4>2
    <3>2. CASE u = v /\ i <= k
      BY <1>0, <3>2
    <3>. QED
      BY <1>1, <3>1, <3>2
  <2>2. (n - 1) \div Statements = u /\ (n - 1) % Statements = i - 1
    <3>1. i - 1 \in 0..(Statements - 1) /\ n - 1 = u * Statements + (i - 1)
      BY <1>0
    <3>. QED
      BY <1>0, <3>1, Quotient
  <2>3. Ran(v, k)[n] = <<u + 1, i>>
    BY <1>0, <2>1, <2>2 DEF Ran
  <2>. QED
    BY <2>1, <2>3
<1>2. ASSUME NEW n \in 1..N, Ran(v, k)[n] = <<u + 1, i>>
      PROVE  u < v \/ (u = v /\ i <= k)
  <2>1. /\ ((n - 1) \div Statements) + 1 = u + 1 /\ ((n - 1) % Statements) + 1 = i
    BY <1>2 DEF Ran
  <2>2. (n - 1) \div Statements = u /\ (n - 1) % Statements = i - 1
    BY <1>0, <2>1
  <2>3. n - 1 = Statements * u + (i - 1)
    BY <1>0, <2>2
  <2>4. ASSUME u > v PROVE FALSE
    <3>1. (v + 1) * Statements <= u * Statements
      BY <1>0, <2>4
    <3>2. (v + 1) * Statements = v * Statements + Statements
      BY <1>0
    <3>. QED
      BY <1>0, <2>3, <3>1, <3>2
  <2>5. u = v => i <= k
    BY <1>0, <2>3
  <2>. QED
    BY <2>4, <2>5
<1>. QED
  BY <1>1, <1>2

-----------------------------------------------------------------------------
(* The lock *)

\* Who is at a step of a transaction has the lock, alone.
LEMMA Held ==
  ASSUME LockInv, NEW p \in Proc, at[p] \in MigrationSteps \cup ChangeSteps
  PROVE  /\ p \in writer /\ View(p) = view[p] /\ writer = {p}
         /\ \A q \in Proc \ {p} : at[q] \notin MigrationSteps \cup ChangeSteps
BY DEF LockInv, View

\* What the steps of a transaction make of the database.
Opens(p) == writer = {} /\ writer' = {p} /\ stored' = stored /\ view' = [view EXCEPT ![p] = stored]
Writes(p, db) == writer' = writer /\ stored' = stored /\ view' = [view EXCEPT ![p] = db]
Closes(p) == writer' = writer \ {p} /\ view' = [view EXCEPT ![p] = Empty]

LEMMA LockKept ==
  ASSUME LockInv, NEW p \in Proc, NEW step \in Steps,
         at' = [at EXCEPT ![p] = step], already' \in [Proc -> 0..HeadVersion],
         faults' \in 0..MaxFaults, DOMAIN change' = Proc, DOMAIN last' = Proc,
         \/ /\ Opens(p) /\ step \in MigrationSteps \cup ChangeSteps
         \/ /\ writer' = writer /\ stored' = stored /\ DOMAIN view' = Proc
            /\ \A q \in Proc : DOMAIN view'[q] = Fields
            /\ step \in MigrationSteps \cup ChangeSteps
                  <=> at[p] \in MigrationSteps \cup ChangeSteps
         \/ /\ Closes(p) /\ DOMAIN stored' = Fields
            /\ step \notin MigrationSteps \cup ChangeSteps
  PROVE  LockInv'
<1>1. at' \in [Proc -> Steps] /\ \A q \in Proc : at'[q] = IF q = p THEN step ELSE at[q]
  BY DEF LockInv
<1>2. CASE Opens(p) /\ step \in MigrationSteps \cup ChangeSteps
  BY <1>1, <1>2 DEF LockInv, Opens
<1>3. CASE /\ writer' = writer /\ stored' = stored /\ DOMAIN view' = Proc
           /\ \A q \in Proc : DOMAIN view'[q] = Fields
           /\ step \in MigrationSteps \cup ChangeSteps
                 <=> at[p] \in MigrationSteps \cup ChangeSteps
  BY <1>1, <1>3 DEF LockInv
<1>4. CASE /\ Closes(p) /\ DOMAIN stored' = Fields
           /\ step \notin MigrationSteps \cup ChangeSteps
  <2>1. DOMAIN Empty = Fields
    BY DEF Empty, Fields
  <2>2. DOMAIN view' = Proc /\ \A q \in Proc : DOMAIN view'[q] = Fields
    BY <1>4, <2>1 DEF LockInv, Closes
  <2>. QED
    BY <1>1, <1>4, <2>2 DEF LockInv, Closes
<1>. QED
  BY <1>2, <1>3, <1>4

\* What every step of a process does to the others, and a migrator's to the rows.
LEMMA LockStep ==
  ASSUME LockInv, NEW p \in Proc, ChangeStep(p) \/ (MigratorStep(p) /\ Forget(p)),
         SchemaInv
  PROVE  LockInv'
<1>. USE DEF Steps, MigrationSteps, ChangeSteps, Move, localVars, databaseVars
<1>2. p \in Proc /\ at[p] \in Steps /\ DOMAIN change = Proc /\ DOMAIN last = Proc
      /\ already \in [Proc -> 0..HeadVersion] /\ faults \in 0..MaxFaults
      /\ DOMAIN stored = Fields /\ DOMAIN view = Proc
      /\ \A q \in Proc : DOMAIN view[q] = Fields
  BY DEF LockInv
<1>3. DOMAIN change' = Proc /\ DOMAIN last' = Proc
  BY <1>2 DEF ChangeStep, Begin, Read, Refuse, Update, ReadLastHash, InsertEvent, Join,
       CommitChange, Fail, Forget, Choose
<1>4. faults' \in 0..MaxFaults
  BY <1>2, DatabaseAssumption DEF ChangeStep, Begin, Read, Refuse, Update, ReadLastHash,
       InsertEvent, Join, CommitChange, Fail, MigratorStep, Start, BeginMigration, Execute,
       MigrationFails, RecordMigration, CommitMigration, Open, GiveUpWaiting, Kill
<1>5. CASE Begin(p)
  <2>. DEFINE step == "read"
  <2>. QED
    BY <1>2, <1>3, <1>4, <1>5, LockKept DEF Begin, BeginImmediate, Opens
<1>6. CASE BeginMigration(p)
  BY <1>2, <1>3, <1>4, <1>6, LockKept DEF BeginMigration, BeginImmediate, Opens
<1>7. CASE Refuse(p) \/ Fail(p) \/ CommitChange(p)
  <2>1. Closes(p) /\ DOMAIN stored' = Fields /\ UNCHANGED already
    BY <1>2, <1>7, Held DEF Refuse, Fail, CommitChange, Rollback, Commit, Leave, Closes
  <2>. QED
    BY <1>2, <1>3, <1>4, <1>7, <2>1, LockKept DEF Refuse, Fail, CommitChange
<1>8. CASE MigrationFails(p) \/ Kill(p)
  <2>1. Closes(p) /\ DOMAIN stored' = Fields /\ UNCHANGED already
    BY <1>2, <1>8 DEF MigrationFails, Kill, Rollback, Leave, Closes
  <2>. QED
    BY <1>2, <1>3, <1>4, <1>8, <2>1, LockKept DEF MigrationFails, Kill
<1>9. CASE Read(p) \/ Update(p) \/ ReadLastHash(p) \/ InsertEvent(p) \/ Join(p)
  <2>. DEFINE step == at'[p]
  <2>1. at' = [at EXCEPT ![p] = step] /\ step \in ChangeSteps /\ at[p] \in ChangeSteps
    BY <1>9, <1>2 DEF Read, Update, ReadLastHash, InsertEvent, Join, LockInv
  <2>2. writer' = writer /\ stored' = stored /\ UNCHANGED already
    BY <1>9, <2>1, Held DEF Read, Update, ReadLastHash, InsertEvent, Join, Write
  <2>3. DOMAIN view' = Proc /\ \A q \in Proc : DOMAIN view'[q] = Fields
    BY <1>2, <1>9, <2>1, Held DEF Read, Update, ReadLastHash, InsertEvent, Join, Write, WithEvent
  <2>. HIDE DEF step
  <2>. QED
    BY <1>2, <1>3, <1>4, <2>1, <2>2, <2>3, LockKept
<1>10. CASE Execute(p) \/ RecordMigration(p)
  <2>. DEFINE step == at'[p]
  <2>1. at' = [at EXCEPT ![p] = step] /\ step \in MigrationSteps /\ at[p] \in MigrationSteps
    BY <1>10, <1>2 DEF Execute, RecordMigration, LockInv
  <2>2. writer' = writer /\ stored' = stored /\ UNCHANGED already
    BY <1>10, <2>1, Held DEF Execute, RecordMigration, Write
  <2>3. DOMAIN view' = Proc /\ \A q \in Proc : DOMAIN view'[q] = Fields
    BY <1>2, <1>10, <2>1, Held DEF Execute, RecordMigration, Write
  <2>. HIDE DEF step
  <2>. QED
    BY <1>2, <1>3, <1>4, <2>1, <2>2, <2>3, LockKept
<1>11. CASE Start(p) \/ Open(p) \/ GiveUpWaiting(p)
  <2>1. already' \in [Proc -> 0..HeadVersion]
    BY <1>2, <1>11 DEF SchemaInv, Start, Open, GiveUpWaiting
  <2>. DEFINE step == at'[p]
  <2>2. /\ at' = [at EXCEPT ![p] = step] /\ step \in Steps
        /\ step \notin MigrationSteps \cup ChangeSteps
        /\ at[p] \notin MigrationSteps \cup ChangeSteps
    BY <1>11, <1>2 DEF Start, Open, GiveUpWaiting, LockInv
  <2>3. writer' = writer /\ stored' = stored /\ view' = view
    BY <1>11 DEF Start, Open, GiveUpWaiting
  <2>. HIDE DEF step
  <2>. QED
    BY <1>2, <1>3, <1>4, <2>1, <2>2, <2>3, LockKept
<1>12. CASE CommitMigration(p)
  <2>1. already' \in [Proc -> 0..HeadVersion]
    BY <1>2, <1>12, DatabaseAssumption DEF CommitMigration, SchemaInv, Migrating, Migrations
  <2>2. Closes(p) /\ DOMAIN stored' = Fields
    BY <1>2, <1>12, Held DEF CommitMigration, Commit, Leave, Closes
  <2>. QED
    BY <1>2, <1>3, <1>4, <1>12, <2>1, <2>2, LockKept DEF CommitMigration
<1>. QED
  BY <1>5, <1>6, <1>7, <1>8, <1>9, <1>10, <1>11, <1>12 DEF ChangeStep, MigratorStep

-----------------------------------------------------------------------------
(* The migrator *)

\* What is left to run of a script that has not been overtaken.
LEMMA PendingIs ==
  ASSUME NEW p \in Proc, NEW k \in 0..Statements, NEW v \in Nat, already[p] = v,
         View(p).made = Ran(v, k)
  PROVE  Pending(p) = (k + 1)..Statements
<1>0. k \in Nat
  BY Counts
<1>1. ASSUME NEW i \in 1..Statements
      PROVE  Script(already[p] + 1)[i] \in Executed(View(p)) <=> i <= k
  <2>1. Script(already[p] + 1)[i] = <<v + 1, i>>
    BY DEF Script
  <2>2. Len(Ran(v, k)) = v * Statements + k
    BY <1>0, RanIs
  <2>3. Script(already[p] + 1)[i] \in Executed(View(p))
           <=> \E n \in 1..(v * Statements + k) : Ran(v, k)[n] = <<v + 1, i>>
    BY <2>1, <2>2 DEF Executed
  <2>4. \A u \in Nat :
            (\E n \in 1..(v * Statements + k) : Ran(v, k)[n] = <<u + 1, i>>)
               <=> (u < v \/ (u = v /\ i <= k))
    BY RanOf
  <2>5. (\E n \in 1..(v * Statements + k) : Ran(v, k)[n] = <<v + 1, i>>) <=> i <= k
    BY <2>4
  <2>. QED
    BY <2>3, <2>5
<1>2. k \in Nat /\ Statements \in Nat
  BY Counts
<1>. QED
  BY <1>1, <1>2 DEF Pending

\* Nothing is left of one that has.
LEMMA NothingPending ==
  ASSUME NEW p \in Proc, NEW v \in Nat, NEW u \in Nat, already[p] = v, v < u,
         View(p).made = Ran(u, 0)
  PROVE  Pending(p) = {}
<1>1. ASSUME NEW i \in 1..Statements
      PROVE  Script(already[p] + 1)[i] \in Executed(View(p))
  <2>1. Script(already[p] + 1)[i] = <<v + 1, i>>
    BY DEF Script
  <2>2. Len(Ran(u, 0)) = u * Statements + 0
    BY RanIs
  <2>3. Script(already[p] + 1)[i] \in Executed(View(p))
           <=> \E n \in 1..(u * Statements + 0) : Ran(u, 0)[n] = <<v + 1, i>>
    BY <2>1, <2>2 DEF Executed
  <2>4. 0 \in 0..Statements
    BY Counts
  <2>5. \E n \in 1..(u * Statements + 0) : Ran(u, 0)[n] = <<v + 1, i>>
    BY <2>4, RanOf
  <2>. QED
    BY <2>3, <2>5
<1>. QED
  BY <1>1 DEF Pending

\* Execute runs the next statement of the script.
LEMMA ExecuteOne ==
  ASSUME LockInv, SchemaInv, NEW p \in Proc, Execute(p)
  PROVE  /\ already[p] = stored.schema /\ writer = {p} /\ stored' = stored /\ writer' = writer
         /\ \E k \in 0..Statements :
               view' = [view EXCEPT ![p] = [view[p] EXCEPT !.made = Ran(already[p], k)]]
<1>1. at[p] = "execute" /\ View(p) = view[p] /\ writer = {p}
  BY Held DEF Execute, MigrationSteps
<1>2. already[p] \in Nat /\ stored.schema \in Nat /\ already[p] <= stored.schema
  BY DatabaseAssumption DEF SchemaInv, LockInv
<1>3. already[p] = stored.schema
  <2>1. SUFFICES ASSUME already[p] < stored.schema PROVE FALSE
    BY <1>1, <1>2 DEF SchemaInv, Migrating
  <2>2. View(p).made = Ran(stored.schema, 0)
    BY <1>1, <2>1 DEF SchemaInv, Migrating
  <2>3. Pending(p) = {}
    BY <1>2, <2>1, <2>2, NothingPending
  <2>. QED
    BY <2>3 DEF Execute
<1>4. PICK k \in 0..Statements : view[p].made = Ran(already[p], k)
  BY <1>1, <1>3, <1>2 DEF SchemaInv, Migrating
<1>5. Pending(p) = (k + 1)..Statements
  BY <1>1, <1>2, <1>4, PendingIs
<1>6. k + 1 \in 1..Statements /\ k \in 0..(Statements - 1) /\ k + 1 \in 0..Statements
  <2>1. PICK i \in (k + 1)..Statements : TRUE
    BY <1>5 DEF Execute
  <2>2. k \in Nat /\ Statements \in Nat
    BY Counts
  <2>. QED
    BY <2>1, <2>2
<1>7. (CHOOSE i \in Pending(p) : \A j \in Pending(p) : i <= j) = k + 1
  <2>1. k + 1 \in Pending(p) /\ \A j \in Pending(p) : k + 1 <= j
    BY <1>5, <1>6
  <2>2. \A i \in Pending(p) : (\A j \in Pending(p) : i <= j) => i = k + 1
    BY <1>5, <1>6, <2>1
  <2>. QED
    BY <2>1, <2>2
<1>8. Script(already[p] + 1)[k + 1] = <<already[p] + 1, k + 1>>
  BY <1>6 DEF Script
<1>9. Append(view[p].made, <<already[p] + 1, k + 1>>) = Ran(already[p], k + 1)
  BY <1>2, <1>4, <1>6, RanOneMore
<1>10. Write(p, [view[p] EXCEPT !.made = Append(@, Script(already[p] + 1)[k + 1])])
  BY <1>1, <1>7 DEF Execute
<1>11. Write(p, [view[p] EXCEPT !.made = Ran(already[p], k + 1)])
  BY <1>8, <1>9, <1>10
<1>12. /\ stored' = stored /\ writer' = writer
       /\ view' = [view EXCEPT ![p] = [view[p] EXCEPT !.made = Ran(already[p], k + 1)]]
  BY <1>1, <1>11 DEF Write
<1>. QED
  BY <1>1, <1>3, <1>6, <1>12

\* A step that leaves what is committed alone concerns its own process.
LEMMA SchemaOfOne ==
  ASSUME LockInv, SchemaInv, NEW p \in Proc, stored' = stored,
         \A q \in Proc \ {p} : at'[q] = at[q] /\ view'[q] = view[q] /\ already'[q] = already[q],
         already'[p] <= stored.schema, Migrating(p)',
         at'[p] \in ChangeSteps => view'[p].schema = stored.schema /\ view'[p].made = stored.made
  PROVE  SchemaInv'
<1>1. ASSUME NEW q \in Proc
      PROVE  already'[q] <= stored.schema /\ Migrating(q)'
  BY DEF SchemaInv, Migrating
<1>2. ASSUME NEW q \in Proc, at'[q] \in ChangeSteps
      PROVE  view'[q].schema = stored.schema /\ view'[q].made = stored.made
  BY <1>2 DEF SchemaInv
<1>. QED
  BY <1>1, <1>2 DEF SchemaInv

LEMMA SchemaStep ==
  ASSUME LockInv, SchemaInv, NEW p \in Proc, ChangeStep(p) \/ MigratorStep(p)
  PROVE  SchemaInv'
<1>. USE DEF MigrationSteps, ChangeSteps, Move, localVars, databaseVars
<1>1. /\ at[p] \in Steps /\ at \in [Proc -> Steps] /\ DOMAIN stored = Fields
      /\ already \in [Proc -> 0..HeadVersion]
      /\ DOMAIN view = Proc /\ \A q \in Proc : DOMAIN view[q] = Fields
  BY DEF LockInv
<1>2. /\ stored.schema \in 0..HeadVersion /\ stored.schema \in Nat /\ already[p] \in Nat
      /\ already[p] <= stored.schema /\ stored.made = Ran(stored.schema, 0)
      /\ 0 \in 0..Statements /\ HeadVersion \in Nat
  BY <1>1, DatabaseAssumption DEF SchemaInv
<1>3. CASE Refuse(p) \/ Fail(p) \/ MigrationFails(p) \/ Kill(p)
  <2>1. /\ stored' = stored /\ already' = already
        /\ \A q \in Proc \ {p} : at'[q] = at[q] /\ view'[q] = view[q]
        /\ at'[p] \in {"idle", "closed"}
    BY <1>1, <1>3 DEF Refuse, Fail, MigrationFails, Kill, Rollback, Leave
  <2>2. Migrating(p)'
    BY <2>1 DEF Migrating
  <2>. QED
    BY <1>2, <2>1, <2>2, SchemaOfOne
<1>4. CASE Start(p) \/ Open(p) \/ GiveUpWaiting(p)
  <2>1. /\ stored' = stored /\ view' = view
        /\ \A q \in Proc \ {p} : at'[q] = at[q] /\ already'[q] = already[q]
        /\ at'[p] \in {"migrate", "idle", "closed"} /\ already'[p] <= stored.schema
    BY <1>1, <1>2, <1>4 DEF Start, Open, GiveUpWaiting
  <2>2. Migrating(p)'
    BY <2>1 DEF Migrating
  <2>. QED
    BY <1>2, <2>1, <2>2, SchemaOfOne
<1>5. CASE Begin(p)
  <2>1. /\ stored' = stored /\ already' = already /\ at'[p] = "read" /\ view'[p] = stored
        /\ \A q \in Proc \ {p} : at'[q] = at[q] /\ view'[q] = view[q]
    BY <1>1, <1>5 DEF Begin, BeginImmediate
  <2>2. Migrating(p)'
    BY <2>1 DEF Migrating
  <2>. QED
    BY <1>2, <2>1, <2>2, SchemaOfOne
<1>6. CASE Read(p) \/ Update(p) \/ ReadLastHash(p) \/ InsertEvent(p) \/ Join(p)
  <2>0. at[p] \in ChangeSteps
    BY <1>6 DEF Read, Update, ReadLastHash, InsertEvent, Join
  <2>1. /\ stored' = stored /\ already' = already /\ at'[p] \in ChangeSteps
        /\ \A q \in Proc \ {p} : at'[q] = at[q] /\ view'[q] = view[q]
    BY <1>1, <1>6, <2>0, Held DEF Read, Update, ReadLastHash, InsertEvent, Join, Write
  <2>2. view'[p].schema = view[p].schema /\ view'[p].made = view[p].made
    BY <1>1, <1>6, <2>0, Held DEF Read, Update, ReadLastHash, InsertEvent, Join, Write,
         WithEvent, Fields
  <2>3. Migrating(p)'
    BY <2>1 DEF Migrating
  <2>4. view'[p].schema = stored.schema /\ view'[p].made = stored.made
    BY <2>0, <2>2 DEF SchemaInv
  <2>. QED
    BY <1>2, <2>1, <2>3, <2>4, SchemaOfOne
<1>7. CASE CommitChange(p)
  <2>1. /\ at[p] \in ChangeSteps /\ stored' = view[p] /\ already' = already
        /\ \A q \in Proc : at'[q] \notin ChangeSteps \cup MigrationSteps
    BY <1>1, <1>7, Held DEF CommitChange, Commit
  <2>2. stored'.schema = stored.schema /\ stored'.made = stored.made
    BY <2>1 DEF SchemaInv
  <2>. QED
    BY <2>1, <2>2 DEF SchemaInv, Migrating
<1>8. CASE BeginMigration(p)
  <2>1. /\ stored' = stored /\ already' = already /\ at'[p] = "execute" /\ view'[p] = stored
        /\ already[p] + 1 \in Migrations
        /\ \A q \in Proc \ {p} : at'[q] = at[q] /\ view'[q] = view[q]
    BY <1>1, <1>8 DEF BeginMigration, BeginImmediate
  <2>2. Migrating(p)'
    <3>1. CASE already[p] < stored.schema
      BY <2>1, <3>1 DEF Migrating
    <3>2. CASE already[p] = stored.schema
      BY <1>2, <2>1, <3>2 DEF Migrating
    <3>. QED
      BY <1>2, <3>1, <3>2
  <2>. QED
    BY <1>2, <2>1, <2>2, SchemaOfOne
<1>9. CASE Execute(p)
  <2>1. /\ at[p] = "execute" /\ at' = at /\ already' = already
    BY <1>9 DEF Execute
  <2>2. already[p] = stored.schema /\ stored' = stored
    BY <1>9, ExecuteOne
  <2>3. PICK k \in 0..Statements :
            view' = [view EXCEPT ![p] = [view[p] EXCEPT !.made = Ran(already[p], k)]]
    BY <1>9, ExecuteOne
  <2>4. /\ view'[p].made = Ran(already[p], k) /\ view'[p].schema = view[p].schema
        /\ view'[p].rows = view[p].rows /\ view'[p].events = view[p].events
        /\ \A q \in Proc \ {p} : view'[q] = view[q]
    BY <1>1, <2>3 DEF Fields
  <2>5. Migrating(p)'
    BY <2>1, <2>2, <2>4 DEF SchemaInv, Migrating
  <2>. QED
    BY <1>2, <2>1, <2>2, <2>4, <2>5, SchemaOfOne
<1>10. CASE RecordMigration(p)
  <2>1. /\ at[p] = "execute" /\ at' = [at EXCEPT ![p] = "commitMigration"] /\ already' = already
        /\ Pending(p) = {} /\ View(p).schema = already[p]
    BY <1>10 DEF RecordMigration
  <2>2. View(p) = view[p] /\ writer = {p}
    BY <2>1, Held
  <2>3. already[p] = stored.schema
    BY <1>2, <2>1, <2>2 DEF SchemaInv, Migrating
  <2>4. PICK k \in 0..Statements : view[p].made = Ran(already[p], k)
    BY <1>2, <2>1, <2>3 DEF SchemaInv, Migrating
  <2>5. k = Statements
    <3>1. Pending(p) = (k + 1)..Statements
      BY <1>2, <2>2, <2>4, PendingIs
    <3>2. k \in Nat /\ Statements \in Nat
      BY Counts
    <3>3. k + 1 \notin (k + 1)..Statements
      BY <2>1, <3>1
    <3>. QED
      BY <3>2, <3>3
  <2>6. view[p].made = Ran(already[p] + 1, 0)
    BY <1>2, <2>4, <2>5, RanWhole
  <2>7. stored' = stored /\ view' = [view EXCEPT ![p] = [view[p] EXCEPT !.schema = already[p] + 1]]
    BY <1>10, <2>2 DEF RecordMigration, Write
  <2>8. /\ view'[p].made = view[p].made /\ view'[p].schema = already[p] + 1
        /\ view'[p].rows = view[p].rows /\ view'[p].events = view[p].events
        /\ \A q \in Proc \ {p} : view'[q] = view[q]
    BY <1>1, <2>7 DEF Fields
  <2>9. Migrating(p)'
    BY <1>1, <2>1, <2>3, <2>6, <2>7, <2>8 DEF SchemaInv, Migrating
  <2>. QED
    BY <1>1, <1>2, <2>1, <2>7, <2>8, <2>9, SchemaOfOne
<1>11. CASE CommitMigration(p)
  <2>1. /\ at[p] = "commitMigration" /\ stored' = view[p]
        /\ already' = [already EXCEPT ![p] = @ + 1]
        /\ \A q \in Proc : at'[q] \notin ChangeSteps \cup MigrationSteps
    BY <1>1, <1>11, Held DEF CommitMigration, Commit
  <2>2. /\ already[p] = stored.schema /\ already[p] + 1 \in Migrations
        /\ stored'.schema = stored.schema + 1 /\ stored'.made = Ran(stored.schema + 1, 0)
    BY <2>1 DEF SchemaInv, Migrating
  <2>3. \A q \in Proc : already[q] <= stored.schema /\ already[q] \in Nat
    BY <1>1, DatabaseAssumption DEF SchemaInv
  <2>4. \A q \in Proc : already'[q] <= stored'.schema
    BY <1>1, <1>2, <2>1, <2>2, <2>3
  <2>5. stored'.schema \in 0..HeadVersion
    BY <1>2, <2>2 DEF Migrations
  <2>. QED
    BY <2>1, <2>2, <2>4, <2>5 DEF SchemaInv, Migrating
<1>. QED
  BY <1>3, <1>4, <1>5, <1>6, <1>7, <1>8, <1>9, <1>10, <1>11 DEF ChangeStep, MigratorStep

-----------------------------------------------------------------------------
(* The changes *)

\* No row is of two kinds, and a row tells whose it is.
LEMMA RowKinds ==
  /\ Job # Capacity /\ Job \in RowNames /\ Capacity \in RowNames
  /\ \A r \in Stage : r \in RowNames /\ r # Job /\ r # Capacity /\ r \notin Member
  /\ \A m \in Member : /\ m \in RowNames /\ m # Job /\ m # Capacity /\ m \notin Stage
                       /\ Active(m) \in RowNames /\ Active(m) # Job /\ Active(m) # Capacity
                       /\ Active(m) \notin Stage /\ Active(m) \notin Member
  /\ \A m, n \in Member : Active(m) = Active(n) => m = n
<1>1. \A r \in Stage : \E i \in 1..Stages : r = <<"stage", i>>
  BY DEF Stage
<1>2. \A m \in Member : \E i \in 1..Persons : m = <<"member", i>>
  BY DEF Member
<1>3. \A m \in Member : Active(m)[1] = "active" /\ m[1] = "member" /\ Active(m)[2] = m[2]
  BY <1>2 DEF Active
<1>4. \A r \in Stage : r[1] = "stage"
  BY <1>1
<1>5. Job[1] = "job" /\ Capacity[1] = "capacity"
  BY DEF Job, Capacity
<1>6. \A m, n \in Member : m[2] = n[2] => m = n
  BY <1>2
<1>. QED
  BY <1>3, <1>4, <1>5, <1>6 DEF RowNames

LEMMA MembersAreFinite ==
  ASSUME NEW S \in SUBSET Member
  PROVE  IsFiniteSet(S) /\ Cardinality(S) \in Nat
<1>1. IsFiniteSet({"member"})
  BY FS_Singleton
<1>2. IsFiniteSet(1..Persons)
  <2>1. 1 \in Int /\ Persons \in Int
    BY WorkflowAssumption
  <2>. QED
    BY <2>1, FS_Interval
<1>3. IsFiniteSet(Member)
  BY <1>1, <1>2, FS_Product DEF Member
<1>4. IsFiniteSet(S)
  BY <1>3, FS_Subset
<1>. QED
  BY <1>4, FS_CardinalityType

LEMMA JobTransitions ==
  ASSUME NEW rows, rows[Job] \in JobStates \cup {"none"}, NEW c \in JobChanges(rows)
  PROVE  c.row = Job /\ c.from = rows[Job] /\ c.to \in JobStates /\ c.to # "none"
<1>1. c.row = Job /\ c.from = rows[Job]
  BY DEF JobChanges, Change
<1>2. CASE rows[Job] = "none"
  BY <1>2 DEF JobChanges, Change, JobStates
<1>3. CASE rows[Job] # "none"
  <2>1. AllowedTransitions[rows[Job]] \subseteq JobStates
    BY <1>3, GraphAssumption DEF TransitionGraphIsSound
  <2>2. c.to \in AllowedTransitions[rows[Job]]
    BY <1>3 DEF JobChanges, Change
  <2>. QED
    BY <1>1, <2>1, <2>2 DEF JobStates
<1>. QED
  BY <1>1, <1>2, <1>3

LEMMA StageTransitions ==
  ASSUME NEW rows, \A r \in Stage : rows[r] \in DOMAIN AllowedStageTransitions,
         NEW c \in StageChanges(rows)
  PROVE  /\ c.row \in Stage /\ c.from = rows[c.row] /\ c.from # "none"
         /\ c.to \in DOMAIN AllowedStageTransitions
<1>1. PICK r \in Stage : \E s \in AllowedStageTransitions[rows[r]] : c = Change(r, rows[r], s)
  BY DEF StageChanges
<1>2. PICK s \in AllowedStageTransitions[rows[r]] : c = Change(r, rows[r], s)
  BY <1>1
<1>3. c.row = r /\ c.from = rows[r] /\ c.to = s
  BY <1>2 DEF Change
<1>4. \A x \in DOMAIN AllowedStageTransitions :
         /\ AllowedStageTransitions[x] \subseteq DOMAIN AllowedStageTransitions
         /\ AllowedStageTransitions["none"] = {}
  BY DEF AllowedStageTransitions
<1>. QED
  BY <1>2, <1>3, <1>4

LEMMA RestOfChanges ==
  ASSUME NEW rows, NEW p, NEW c
  PROVE  /\ c \in MemberChanges(rows) =>
              /\ c.row \in Member
              /\ \/ /\ c.to = "in" /\ c.row \notin Roster(rows) /\ rows[Active(c.row)] = "yes"
                    /\ Cardinality(Roster(rows)) < rows[Capacity]
                 \/ c.to = "out"
         /\ c \in ActiveChanges(rows) =>
              \E m \in Member : c.row = Active(m) /\ c.to \in {"yes", "no"}
         /\ c \in CapacityChanges(rows, p) =>
              /\ c.row = Capacity /\ c.from = rows[Capacity] /\ c.to \in Nat
              /\ c.to >= Cardinality(Roster(rows))
<1>1. c \in MemberChanges(rows) =>
              /\ c.row \in Member
              /\ \/ /\ c.to = "in" /\ c.row \notin Roster(rows) /\ rows[Active(c.row)] = "yes"
                    /\ Cardinality(Roster(rows)) < rows[Capacity]
                 \/ c.to = "out"
  BY DEF MemberChanges, Change, Roster
<1>2. c \in ActiveChanges(rows) => \E m \in Member : c.row = Active(m) /\ c.to \in {"yes", "no"}
  BY DEF ActiveChanges, Change
<1>3. c \in CapacityChanges(rows, p) =>
              /\ c.row = Capacity /\ c.from = rows[Capacity] /\ c.to \in Nat
              /\ c.to >= Cardinality(Roster(rows))
  BY DEF CapacityChanges, Change
<1>. QED
  BY <1>1, <1>2, <1>3

\* A legal change keeps the roster within its capacity, and everybody on it active.
LEMMA AppliedIsGood ==
  ASSUME NEW rows, GoodRows(rows), NEW c, NEW p, Legal(rows, c, p)
  PROVE  GoodRows(Applied(rows, c))
<1>. DEFINE after == Applied(rows, c)
<1>1. DOMAIN after = RowNames
  BY DEF Applied, GoodRows
<1>2. \A r \in RowNames : after[r] =
         IF r = c.row THEN c.to
         ELSE IF r \in Stage /\ c.row = Job /\ c.from = "none" THEN "PENDING"
         ELSE IF r \in Roster(rows) /\ c.row = Active(r) /\ c.to = "no" THEN "out"
         ELSE rows[r]
  BY DEF Applied, GoodRows
<1>3. \A S \in SUBSET Member : IsFiniteSet(S) /\ Cardinality(S) \in Nat
  BY MembersAreFinite
<1>4. Roster(rows) \in SUBSET Member /\ Roster(after) \in SUBSET Member
  BY DEF Roster
<1>. HIDE DEF after
<1>5. CASE c \in JobChanges(rows)
  <2>1. c.row = Job /\ c.from = rows[Job] /\ c.to \in JobStates /\ c.to # "none"
    BY <1>5, JobTransitions DEF GoodRows
  <2>2. /\ after[Job] = c.to /\ after[Capacity] = rows[Capacity]
        /\ \A m \in Member : after[m] = rows[m] /\ after[Active(m)] = rows[Active(m)]
        /\ \A r \in Stage : after[r] \in {"PENDING", rows[r]}
    BY <1>2, <2>1, RowKinds DEF Roster
  <2>3. Roster(after) = Roster(rows)
    BY <2>2 DEF Roster
  <2>4. Fit(after)
    BY <2>2, <2>3, <1>4 DEF Fit, GoodRows
  <2>5. "PENDING" \in DOMAIN AllowedStageTransitions
    BY DEF AllowedStageTransitions
  <2>. QED
    BY <1>1, <2>1, <2>2, <2>4, <2>5 DEF GoodRows, after
<1>6. CASE c \in StageChanges(rows)
  <2>1. /\ c.row \in Stage /\ c.from = rows[c.row] /\ c.from # "none"
        /\ c.to \in DOMAIN AllowedStageTransitions
    BY <1>6, StageTransitions DEF GoodRows
  <2>2. /\ after[Job] = rows[Job] /\ after[Capacity] = rows[Capacity]
        /\ \A m \in Member : after[m] = rows[m] /\ after[Active(m)] = rows[Active(m)]
        /\ \A r \in Stage : after[r] \in {c.to, rows[r]}
    BY <1>2, <2>1, RowKinds DEF Roster
  <2>3. Roster(after) = Roster(rows)
    BY <2>2 DEF Roster
  <2>4. Fit(after)
    BY <2>2, <2>3, <1>4 DEF Fit, GoodRows
  <2>5. rows[Job] # "none"
    BY <2>1 DEF GoodRows
  <2>. QED
    BY <1>1, <2>1, <2>2, <2>4, <2>5 DEF GoodRows, after
<1>7. CASE c \in MemberChanges(rows)
  <2>1. /\ c.row \in Member
        /\ \/ /\ c.to = "in" /\ c.row \notin Roster(rows) /\ rows[Active(c.row)] = "yes"
              /\ Cardinality(Roster(rows)) < rows[Capacity]
           \/ c.to = "out"
    BY <1>7, RestOfChanges
  <2>2. /\ after[Job] = rows[Job] /\ after[Capacity] = rows[Capacity]
        /\ \A m \in Member : /\ after[m] = (IF m = c.row THEN c.to ELSE rows[m])
                             /\ after[Active(m)] = rows[Active(m)]
        /\ \A r \in Stage : after[r] = rows[r]
    BY <1>2, <2>1, RowKinds
  <2>3. Fit(after)
    <3>1. CASE c.to = "out"
      <4>1. Roster(after) \in SUBSET Roster(rows)
        BY <2>2, <3>1 DEF Roster
      <4>2. Cardinality(Roster(after)) <= Cardinality(Roster(rows))
        BY <1>3, <1>4, <4>1, FS_Subset
      <4>. QED
        BY <1>3, <1>4, <2>2, <4>1, <4>2 DEF Fit, GoodRows
    <3>2. CASE c.to = "in" /\ c.row \notin Roster(rows) /\ rows[Active(c.row)] = "yes"
               /\ Cardinality(Roster(rows)) < rows[Capacity]
      <4>1. Roster(after) = Roster(rows) \cup {c.row}
        BY <2>1, <2>2, <3>2 DEF Roster
      <4>2. Cardinality(Roster(after)) = Cardinality(Roster(rows)) + 1
        BY <1>3, <1>4, <3>2, <4>1, FS_AddElement
      <4>. QED
        BY <1>3, <1>4, <2>2, <3>2, <4>1, <4>2 DEF Fit, GoodRows
    <3>. QED
      BY <2>1, <3>1, <3>2
  <2>. QED
    BY <1>1, <2>1, <2>2, <2>3 DEF GoodRows, after
<1>8. CASE c \in ActiveChanges(rows)
  <2>1. PICK n \in Member : c.row = Active(n) /\ c.to \in {"yes", "no"}
    BY <1>8, RestOfChanges
  <2>2. /\ after[Job] = rows[Job] /\ after[Capacity] = rows[Capacity]
        /\ \A r \in Stage : after[r] = rows[r]
    BY <1>2, <2>1, RowKinds DEF Roster
  <2>3. ASSUME NEW m \in Member
        PROVE  /\ after[Active(m)] = (IF m = n THEN c.to ELSE rows[Active(m)])
               /\ after[m] = (IF m \in Roster(rows) /\ m = n /\ c.to = "no" THEN "out" ELSE rows[m])
    <3>1. m # c.row /\ m \notin Stage /\ Active(m) \notin Stage /\ Active(m) \notin Roster(rows)
          /\ m \in RowNames /\ Active(m) \in RowNames /\ (c.row = Active(m) <=> m = n)
      BY <2>1, <1>4, RowKinds
    <3>. QED
      BY <1>2, <3>1
  <2>4. Fit(after)
    <3>1. Roster(after) \in SUBSET Roster(rows)
      BY <2>3 DEF Roster
    <3>2. Cardinality(Roster(after)) <= Cardinality(Roster(rows))
      BY <1>3, <1>4, <3>1, FS_Subset
    <3>3. ASSUME NEW m \in Roster(after)
          PROVE  after[Active(m)] = "yes"
      <4>1. m \in Member /\ m \in Roster(rows) /\ after[m] = "in"
        BY <3>1, <3>3 DEF Roster
      <4>2. ~(m = n /\ c.to = "no")
        BY <2>3, <4>1
      <4>. QED
        BY <2>1, <2>3, <4>1, <4>2 DEF GoodRows, Fit
    <3>. QED
      BY <1>3, <1>4, <2>2, <3>2, <3>3 DEF Fit, GoodRows
  <2>. QED
    BY <1>1, <2>1, <2>2, <2>3, <2>4 DEF GoodRows, after
<1>9. CASE c \in CapacityChanges(rows, p)
  <2>1. c.row = Capacity /\ c.to \in Nat /\ c.to >= Cardinality(Roster(rows))
    BY <1>9, RestOfChanges
  <2>2. /\ after[Job] = rows[Job] /\ after[Capacity] = c.to
        /\ \A m \in Member : after[m] = rows[m] /\ after[Active(m)] = rows[Active(m)]
        /\ \A r \in Stage : after[r] = rows[r]
    BY <1>2, <2>1, RowKinds DEF Roster
  <2>3. Roster(after) = Roster(rows)
    BY <2>2 DEF Roster
  <2>4. Fit(after)
    BY <1>3, <1>4, <2>1, <2>2, <2>3 DEF Fit, GoodRows
  <2>. QED
    BY <1>1, <2>1, <2>2, <2>4 DEF GoodRows, after
<1>. QED
  BY <1>5, <1>6, <1>7, <1>8, <1>9 DEF Legal

\* What a legal change says of the rows its event tells of.
LEMMA ChangeOfAudited ==
  ASSUME NEW rows, GoodRows(rows), NEW c, NEW p, Legal(rows, c, p)
  PROVE  /\ \A r \in Audited : r = c.row => c.from = rows[r] /\ Applied(rows, c)[r] = c.to
         /\ \A r \in Audited : r # c.row =>
               Applied(rows, c)[r] =
                  IF r \in Stage /\ c.row = Job /\ c.from = "none" THEN "PENDING" ELSE rows[r]
         /\ c.row = Job => c.to # "none"
         /\ c.row \in Stage => rows[Job] # "none"
<1>1. \A r \in Audited : /\ r \in RowNames /\ r \notin Roster(rows) /\ r \notin Member
                        /\ \A m \in Member : Active(m) # r
  BY RowKinds DEF Audited, Roster
<1>2. \A r \in Audited : Applied(rows, c)[r] =
         IF r = c.row THEN c.to
         ELSE IF r \in Stage /\ c.row = Job /\ c.from = "none" THEN "PENDING" ELSE rows[r]
  BY <1>1 DEF Applied, GoodRows
<1>3. /\ c.row \in Audited => c.from = rows[c.row]
      /\ c.row = Job => c.to # "none"
      /\ c.row \in Stage => rows[Job] # "none"
  <2>1. CASE c \in JobChanges(rows)
    BY <2>1, JobTransitions, RowKinds DEF GoodRows
  <2>2. CASE c \in StageChanges(rows)
    BY <2>2, StageTransitions, RowKinds DEF GoodRows
  <2>3. CASE c \in MemberChanges(rows) \cup ActiveChanges(rows)
    BY <1>1, <2>3, RestOfChanges, RowKinds DEF Audited
  <2>4. CASE c \in CapacityChanges(rows, p)
    BY <2>4, RestOfChanges, RowKinds
  <2>. QED
    BY <2>1, <2>2, <2>3, <2>4 DEF Legal
<1>. QED
  BY <1>2, <1>3

-----------------------------------------------------------------------------
(* The events *)

LEMMA OneMoreEvent ==
  ASSUME NEW events, IsTrail(events), NEW e
  PROVE  LET after == Append(events, e)
             n == Len(events)
         IN  /\ IsTrail(after) /\ n \in Nat /\ Len(after) = n + 1 /\ after[n + 1] = e
             /\ \A i \in 1..n : after[i] = events[i]
<1>. DEFINE after == Append(events, e)
            n == Len(events)
            S == {events[i] : i \in 1..n}
            T == {after[i] : i \in 1..Len(after)}
<1>1. events \in Seq(S) /\ n \in Nat
  BY DEF IsTrail
<1>. HIDE DEF S
<1>2. events \in Seq(S \cup {e})
  BY <1>1
<1>3. after \in Seq(S \cup {e}) /\ Len(after) = n + 1 /\ after[n + 1] = e
      /\ \A i \in 1..n : after[i] = events[i]
  BY <1>1, <1>2
<1>4. \A i \in 1..Len(after) : after[i] \in T
  OBVIOUS
<1>. HIDE DEF after, T
<1>5. after \in Seq(T)
  BY <1>3, <1>4
<1>. QED
  BY <1>1, <1>3, <1>5 DEF IsTrail, after, T

\* What has been told stays told, and the new event is the last of its row.
LEMMA TrailBehind ==
  ASSUME NEW events, IsTrail(events), NEW e, NEW r
  PROVE  LET after == Append(events, e)
             n == Len(events)
         IN  /\ EventsIn(after, r) =
                    EventsIn(events, r) \cup (IF e.change.row = r THEN {n + 1} ELSE {})
             /\ \A i \in 1..(n + 1) : Earlier(after, r, i) = Earlier(events, r, i)
             /\ Earlier(after, r, n + 2) = EventsIn(after, r)
             /\ Earlier(events, r, n + 1) = EventsIn(events, r)
<1>. DEFINE after == Append(events, e)
            n == Len(events)
<1>1. /\ n \in Nat /\ Len(after) = n + 1 /\ after[n + 1] = e
      /\ \A i \in 1..n : after[i] = events[i]
  BY OneMoreEvent
<1>. HIDE DEF after, n
<1>2. EventsIn(events, r) = {i \in 1..n : events[i].change.row = r}
  BY DEF EventsIn, n
<1>3. EventsIn(after, r) = {i \in 1..(n + 1) : after[i].change.row = r}
  BY <1>1 DEF EventsIn
<1>4. EventsIn(after, r) = EventsIn(events, r) \cup (IF e.change.row = r THEN {n + 1} ELSE {})
  BY <1>1, <1>2, <1>3
<1>5. \A i \in 1..(n + 1) : Earlier(after, r, i) = Earlier(events, r, i)
  BY <1>1, <1>2, <1>4 DEF Earlier
<1>6. Earlier(after, r, n + 2) = EventsIn(after, r)
  BY <1>1, <1>3 DEF Earlier
<1>7. Earlier(events, r, n + 1) = EventsIn(events, r)
  BY <1>1, <1>2 DEF Earlier
<1>. QED
  BY <1>4, <1>5, <1>6, <1>7 DEF after, n

LEMMA LeastNumber ==
  ASSUME NEW T \in SUBSET Nat, T # {}
  PROVE  \E x \in T : \A y \in T : x <= y
<1>1. PICK x \in T : \A y \in T : ~ (<<y, x>> \in OpToRel(<, Nat))
  BY NatLessThanWellFounded, WFMin
<1>2. \A y \in T : ~(y < x)
  BY <1>1 DEF OpToRel
<1>. QED
  BY <1>2

\* A set of naturals with a bound has a greatest member.
LEMMA GreatestNumber ==
  ASSUME NEW T \in SUBSET Nat, T # {}, NEW b \in Nat, \A x \in T : x <= b
  PROVE  \E x \in T : \A y \in T : y <= x
<1>. DEFINE D == {n \in 0..b : b - n \in T}
<1>1. D \subseteq Nat
  OBVIOUS
<1>2. ASSUME NEW x \in T PROVE b - x \in D
  <2>1. x \in Nat /\ b - x \in 0..b /\ b - (b - x) = x
    OBVIOUS
  <2>. QED
    BY <2>1
<1>3. D # {}
  BY <1>2
<1>4. PICK d \in D : \A e \in D : d <= e
  BY <1>1, <1>3, LeastNumber
<1>5. \A y \in T : y <= b - d
  BY <1>2, <1>4
<1>. QED
  BY <1>4, <1>5

LEMMA TheGreatest ==
  ASSUME NEW n \in Nat, NEW E \in SUBSET (1..n), E # {}
  PROVE  Greatest(E) \in E /\ (n \in E => Greatest(E) = n)
<1>1. E \in SUBSET Nat /\ (\A x \in E : x \in Nat) /\ (\A x \in E : x <= n)
  OBVIOUS
<1>2. \E x \in E : \A k \in E : k <= x
  BY <1>1, GreatestNumber
<1>3. Greatest(E) \in E /\ \A k \in E : k <= Greatest(E)
  BY <1>2 DEF Greatest
<1>4. Greatest(E) \in Nat /\ Greatest(E) <= n
  BY <1>1, <1>3, Zenon
<1>5. n \in E => n <= Greatest(E)
  BY <1>3
<1>. QED
  BY <1>3, <1>4, <1>5

LEMMA FirstRowsAre ==
  /\ DOMAIN FirstRows = RowNames /\ FirstRows[Job] = "none"
  /\ FirstRows[Capacity] = DefaultCapacity /\ \A r \in Stage : FirstRows[r] = "none"
  /\ \A m \in Member : FirstRows[m] = "none" /\ FirstRows[Active(m)] = "yes"
<1>1. /\ DOMAIN FirstRows = RowNames
      /\ \A r \in RowNames : FirstRows[r] =
            IF r = Capacity THEN DefaultCapacity ELSE IF r[1] = "active" THEN "yes" ELSE "none"
  BY DEF FirstRows, RowNames
<1>2. Job[1] = "job" /\ (\A r \in Stage : r[1] = "stage")
      /\ \A m \in Member : m[1] = "member" /\ Active(m)[1] = "active"
  BY DEF Job, Stage, Member, Active
<1>. QED
  BY <1>1, <1>2, RowKinds

\* The trail, with one more event at its end.
LEMMA TrailGrows ==
  ASSUME NEW rows, NEW events, GoodRows(rows), IsTrail(events), Trail(rows, events),
         NEW c, NEW p, Legal(rows, c, p)
  PROVE  LET e == [change |-> c, prev |-> Len(events)]
         IN  Trail(Applied(rows, c), Append(events, e))
<1>. DEFINE n == Len(events)
            e == [change |-> c, prev |-> n]
            after == Append(events, e)
            new == Applied(rows, c)
<1>1. /\ n \in Nat /\ Len(after) = n + 1 /\ after[n + 1] = e
      /\ \A i \in 1..n : after[i] = events[i]
  BY OneMoreEvent
<1>2. e.change = c /\ e.prev = n
  OBVIOUS
<1>3. ASSUME NEW r
      PROVE  /\ EventsIn(after, r) =
                   EventsIn(events, r) \cup (IF c.row = r THEN {n + 1} ELSE {})
             /\ \A i \in 1..(n + 1) : Earlier(after, r, i) = Earlier(events, r, i)
             /\ Earlier(after, r, n + 2) = EventsIn(after, r)
             /\ Earlier(events, r, n + 1) = EventsIn(events, r)
  BY <1>2, TrailBehind
<1>4. /\ \A r \in Audited : r = c.row => c.from = rows[r] /\ new[r] = c.to
      /\ \A r \in Audited : r # c.row =>
            new[r] = IF r \in Stage /\ c.row = Job /\ c.from = "none" THEN "PENDING" ELSE rows[r]
      /\ c.row = Job => c.to # "none"
      /\ c.row \in Stage => rows[Job] # "none"
  BY ChangeOfAudited
<1>5. Job \in Audited /\ Stage \subseteq Audited /\ \A r \in Stage : r # Job
  BY RowKinds DEF Audited
<1>. HIDE DEF n, e, after, new
<1>6. \A r : EventsIn(events, r) = {i \in 1..n : events[i].change.row = r}
  BY DEF EventsIn, n
<1>7. rows[Job] # "none" => new[Job] # "none"
  BY <1>4, <1>5
<1>8. ASSUME NEW i \in 1..(n + 1)
      PROVE  /\ after[i].prev = i - 1
             /\ after[i].change.row = Job => after[i].change.to # "none"
             /\ after[i].change.row \in Stage => new[Job] # "none"
  <2>1. CASE i = n + 1
    BY <1>1, <1>2, <1>4, <1>7, <2>1
  <2>2. CASE i \in 1..n
    BY <1>1, <1>7, <2>2 DEF Trail, n
  <2>3. i = n + 1 \/ i \in 1..n
    BY <1>1
  <2>. QED
    BY <2>1, <2>2, <2>3
\* While there is no event of the job there is none of a stage either.
<1>9. EventsIn(events, Job) = {} <=> rows[Job] = "none"
  <2>0. Earlier(events, Job, n + 1) = EventsIn(events, Job)
    BY <1>3
  <2>1. rows[Job] = Before(events, Job, n + 1)
    BY <1>5 DEF Trail, n
  <2>2. CASE EventsIn(events, Job) = {}
    BY <1>5, <2>0, <2>1, <2>2, FirstRowsAre DEF Before
  <2>3. CASE EventsIn(events, Job) # {}
    <3>. DEFINE x == Greatest(EventsIn(events, Job))
    <3>1. x \in EventsIn(events, Job)
      BY <1>1, <1>6, <2>3, TheGreatest
    <3>2. rows[Job] = events[x].change.to
      BY <2>0, <2>1, <2>3 DEF Before
    <3>. HIDE DEF x
    <3>3. x \in 1..Len(events) /\ events[x].change.row = Job
      BY <3>1 DEF EventsIn
    <3>. QED
      BY <2>3, <3>2, <3>3 DEF Trail
  <2>. QED
    BY <2>2, <2>3
<1>10. \A r \in Stage : EventsIn(events, r) # {} => rows[Job] # "none"
  BY DEF Trail, EventsIn
<1>11. EventsIn(after, Job) = {} <=> new[Job] = "none"
  <2>1. CASE c.row = Job
    BY <1>3, <1>4, <1>5, <2>1
  <2>2. CASE c.row # Job
    <3>1. new[Job] = rows[Job] /\ EventsIn(after, Job) = EventsIn(events, Job)
      BY <1>3, <1>4, <1>5, <2>2
    <3>. QED
      BY <3>1, <1>9
  <2>. QED
    BY <2>1, <2>2
\* The value a row had before an event is still what the trail says.
<1>12. ASSUME NEW r \in Audited, NEW i \in EventsIn(after, r)
       PROVE  Before(after, r, i) = Before(events, r, i)
  <2>1. i \in 1..(n + 1) /\ Earlier(after, r, i) = Earlier(events, r, i)
    BY <1>1, <1>3 DEF EventsIn
  <2>2. CASE Earlier(events, r, i) # {}
    <3>1. Earlier(events, r, i) \in SUBSET (1..n)
      BY <1>6 DEF Earlier
    <3>2. Greatest(Earlier(events, r, i)) \in 1..n
      BY <1>1, <2>2, <3>1, TheGreatest
    <3>. QED
      BY <1>1, <2>1, <2>2, <3>2 DEF Before
  <2>3. CASE Earlier(events, r, i) = {}
    <3>1. r \in Stage => EventsIn(events, Job) # {} /\ EventsIn(after, Job) # {}
      <4>1. SUFFICES ASSUME r \in Stage PROVE rows[Job] # "none"
        BY <1>7, <1>9, <1>11
      <4>2. c.row = r \/ i \in EventsIn(events, r)
        BY <1>3
      <4>. QED
        BY <4>1, <4>2, <1>4, <1>10
    <3>. QED
      BY <2>1, <2>3, <3>1 DEF Before
  <2>. QED
    BY <2>2, <2>3
<1>13. ASSUME NEW r \in Audited, NEW i \in EventsIn(after, r)
       PROVE  after[i].change.from = Before(after, r, i)
  <2>1. CASE i \in EventsIn(events, r)
    BY <1>1, <1>6, <1>12, <2>1 DEF Trail
  <2>2. CASE c.row = r /\ i = n + 1
    <3>1. after[i].change.from = rows[r]
      BY <1>1, <1>2, <1>4, <2>2
    <3>2. rows[r] = Before(events, r, i)
      BY <2>2 DEF Trail, n
    <3>. QED
      BY <1>12, <3>1, <3>2
  <2>3. i \in EventsIn(events, r) \/ (c.row = r /\ i = n + 1)
    BY <1>3
  <2>. QED
    BY <2>1, <2>2, <2>3
<1>14. ASSUME NEW r \in Audited
       PROVE  new[r] = Before(after, r, Len(after) + 1)
  <2>0. Len(after) + 1 = n + 2
    BY <1>1
  <2>1. CASE c.row = r
    <3>1. Earlier(after, r, n + 2) = EventsIn(after, r) /\ n + 1 \in EventsIn(after, r)
      BY <1>3, <2>1
    <3>2. Greatest(EventsIn(after, r)) = n + 1
      <4>1. EventsIn(after, r) \in SUBSET (1..(n + 1))
        BY <1>1 DEF EventsIn
      <4>. QED
        BY <1>1, <3>1, <4>1, TheGreatest
    <3>3. Before(after, r, n + 2) = after[n + 1].change.to
      BY <3>1, <3>2 DEF Before
    <3>. QED
      BY <1>1, <1>2, <1>4, <2>0, <2>1, <3>3
  <2>2. CASE c.row # r
    <3>1. /\ Earlier(after, r, n + 2) = EventsIn(events, r)
          /\ Earlier(events, r, n + 1) = EventsIn(events, r)
      <4>1. EventsIn(after, r) = EventsIn(events, r) \cup {}
        BY <1>3, <2>2
      <4>. QED
        BY <1>3, <4>1
    <3>2. rows[r] = Before(events, r, n + 1)
      BY DEF Trail, n
    <3>3. CASE EventsIn(events, r) # {}
      <4>1. Greatest(EventsIn(events, r)) \in 1..n
        BY <1>1, <1>6, <3>3, TheGreatest
      <4>2. Before(after, r, n + 2) = Before(events, r, n + 1)
        BY <1>1, <3>1, <3>3, <4>1 DEF Before
      <4>3. new[r] = rows[r]
        BY <1>4, <1>5, <1>10, <2>2, <3>3
      <4>. QED
        BY <2>0, <3>2, <4>2, <4>3
    <3>4. CASE EventsIn(events, r) = {}
      <4>1. Before(after, r, n + 2) =
              IF r \in Stage /\ EventsIn(after, Job) # {} THEN "PENDING" ELSE FirstRows[r]
        BY <3>1, <3>4 DEF Before
      <4>2. rows[r] = IF r \in Stage /\ EventsIn(events, Job) # {} THEN "PENDING" ELSE FirstRows[r]
        BY <3>1, <3>2, <3>4 DEF Before
      <4>3. CASE r \in Stage /\ c.row = Job
        BY <1>4, <1>5, <1>9, <1>11, <2>0, <2>2, <4>1, <4>2, <4>3
      <4>4. CASE ~(r \in Stage /\ c.row = Job)
        <5>1. new[r] = rows[r]
          BY <1>4, <2>2, <4>4
        <5>2. r \in Stage => EventsIn(after, Job) = EventsIn(events, Job)
          BY <1>3, <4>4
        <5>. QED
          BY <2>0, <4>1, <4>2, <5>1, <5>2
      <4>. QED
        BY <4>3, <4>4
    <3>. QED
      BY <3>3, <3>4
  <2>. QED
    BY <2>1, <2>2
<1>15. Trail(new, after)
  BY <1>1, <1>8, <1>13, <1>14 DEF Trail
<1>. QED
  BY <1>15 DEF e, n, after, new

-----------------------------------------------------------------------------
(* The steps of a change *)

LEMMA ChangeOfOne ==
  ASSUME ChangeInv, NEW p \in Proc, Good(stored'), Len(stored'.events) <= MaxEvents,
         \A q \in Proc \ {p} : /\ at'[q] = at[q] /\ view'[q] = view[q]
                              /\ change'[q] = change[q] /\ last'[q] = last[q],
         Changing(p)'
  PROVE  ChangeInv'
<1>1. ASSUME NEW q \in Proc
      PROVE  Changing(q)'
  BY DEF ChangeInv, Changing
<1>. QED
  BY <1>1 DEF ChangeInv

LEMMA ChangeStepKeeps ==
  ASSUME LockInv, ChangeInv, NEW p \in Proc, ChangeStep(p)
  PROVE  ChangeInv'
<1>. USE DEF ChangeSteps, MigrationSteps, Move, localVars, databaseVars
<1>1. /\ at \in [Proc -> Steps] /\ DOMAIN stored = Fields /\ DOMAIN view = Proc
      /\ \A q \in Proc : DOMAIN view[q] = Fields
      /\ DOMAIN change = Proc /\ DOMAIN last = Proc
  BY DEF LockInv
<1>2. Good(stored) /\ Len(stored.events) <= MaxEvents /\ Changing(p)
  BY DEF ChangeInv
<1>3. \A q \in Proc \ {p} : /\ at'[q] = at[q] /\ view'[q] = view[q]
                           /\ change'[q] = change[q] /\ last'[q] = last[q]
  <2>1. CASE Begin(p)
    BY <1>1, <2>1 DEF Begin, BeginImmediate
  <2>2. CASE Read(p) \/ ReadLastHash(p) \/ Join(p)
    BY <1>1, <2>2 DEF Read, ReadLastHash, Join, Choose, Forget
  <2>3. CASE Update(p) \/ InsertEvent(p)
    BY <1>1, <2>3 DEF Update, InsertEvent, Write
  <2>4. CASE Refuse(p) \/ CommitChange(p) \/ Fail(p)
    BY <1>1, <2>4 DEF Refuse, CommitChange, Fail, Rollback, Commit, Leave, Forget
  <2>. QED
    BY <2>1, <2>2, <2>3, <2>4 DEF ChangeStep
<1>4. CASE Begin(p)
  <2>1. at'[p] = "read" /\ view'[p] = stored /\ stored' = stored /\ Len(stored.events) < MaxEvents
    BY <1>1, <1>4 DEF Begin, BeginImmediate
  <2>2. Changing(p)'
    BY <1>2, <2>1 DEF Changing
  <2>. QED
    BY <1>2, <1>3, <2>1, <2>2, ChangeOfOne
<1>5. CASE Read(p)
  <2>1. at[p] = "read" /\ at'[p] = "update" /\ view' = view /\ stored' = stored
    BY <1>1, <1>5 DEF Read
  <2>2. View(p) = view[p]
    BY <2>1, Held
  <2>3. \E c : Legal(view[p].rows, c, p) /\ change' = [change EXCEPT ![p] = c]
    <3>. DEFINE rows == view[p].rows
    <3>1. \/ \E c \in JobChanges(rows) \cup StageChanges(rows) : Choose(p, c)
          \/ \E c \in MemberChanges(rows) \cup ActiveChanges(rows) : Choose(p, c)
          \/ \E c \in CapacityChanges(rows, p) : Choose(p, c)
      BY <1>5, <2>2 DEF Read
    <3>. QED
      BY <3>1 DEF Legal, Choose
  <2>4. Legal(view[p].rows, change'[p], p)
    BY <1>1, <2>3
  <2>5. Changing(p)'
    BY <1>2, <2>1, <2>4 DEF Changing
  <2>. QED
    BY <1>2, <1>3, <2>1, <2>5, ChangeOfOne
<1>6. CASE Update(p)
  <2>1. at[p] = "update" /\ at'[p] = "hash" /\ change' = change
    BY <1>1, <1>6 DEF Update
  <2>2. View(p) = view[p] /\ writer = {p}
    BY <2>1, Held
  <2>3. /\ stored' = stored
        /\ view' = [view EXCEPT ![p] = [view[p] EXCEPT !.rows = Applied(view[p].rows, change[p])]]
    BY <1>6, <2>2 DEF Update, Write
  <2>4. /\ view'[p].rows = Applied(view[p].rows, change[p]) /\ view'[p].events = view[p].events
    BY <1>1, <2>3 DEF Fields
  <2>5. /\ Good(view[p]) /\ Legal(view[p].rows, change[p], p) /\ Len(view[p].events) < MaxEvents
    BY <1>2, <2>1 DEF Changing
  <2>6. GoodRows(view'[p].rows)
    BY <2>4, <2>5, AppliedIsGood DEF Good
  <2>7. Unrecorded(view'[p], change'[p], p)
    BY <2>1, <2>4, <2>5, <2>6 DEF Unrecorded, Good
  <2>8. Changing(p)'
    BY <2>1, <2>4, <2>5, <2>7 DEF Changing
  <2>. QED
    BY <1>2, <1>3, <2>3, <2>8, ChangeOfOne
<1>7. CASE ReadLastHash(p)
  <2>1. at[p] = "hash" /\ at'[p] = "insert" /\ change' = change /\ view' = view /\ stored' = stored
    BY <1>1, <1>7 DEF ReadLastHash
  <2>2. last'[p] = Len(view[p].events)
    BY <1>1, <1>7, <2>1, Held DEF ReadLastHash, LastEvent
  <2>3. Changing(p)'
    BY <1>2, <2>1, <2>2 DEF Changing
  <2>. QED
    BY <1>2, <1>3, <2>1, <2>3, ChangeOfOne
<1>8. CASE InsertEvent(p)
  <2>. DEFINE c == change[p]
              events == view[p].events
              e == [change |-> c, prev |-> Len(events)]
  <2>1. at[p] = "insert" /\ at'[p] = "commit" /\ last[p] = Len(events)
    BY <1>1, <1>2, <1>8 DEF InsertEvent, Changing
  <2>2. View(p) = view[p] /\ writer = {p}
    BY <2>1, Held
  <2>3. /\ stored' = stored
        /\ view' = [view EXCEPT ![p] = [view[p] EXCEPT !.events = Append(events, e)]]
    BY <1>8, <2>1, <2>2 DEF InsertEvent, Write, WithEvent
  <2>. HIDE DEF e
  <2>4. view'[p].rows = view[p].rows /\ view'[p].events = Append(events, e)
    BY <1>1, <2>3 DEF Fields
  <2>5. Unrecorded(view[p], c, p) /\ Len(events) < MaxEvents
    BY <1>2, <2>1 DEF Changing
  <2>6. PICK rows : /\ GoodRows(rows) /\ Legal(rows, c, p) /\ Trail(rows, events)
                    /\ view[p].rows = Applied(rows, c)
    BY <2>5 DEF Unrecorded
  <2>7. IsTrail(events) /\ GoodRows(view[p].rows)
    BY <2>5 DEF Unrecorded
  <2>8. Trail(view[p].rows, Append(events, e))
    BY <2>6, <2>7, TrailGrows DEF e
  <2>9. IsTrail(Append(events, e)) /\ Len(Append(events, e)) = Len(events) + 1 /\ Len(events) \in Nat
    BY <2>7, OneMoreEvent
  <2>10. Good(view'[p])
    BY <2>4, <2>7, <2>8, <2>9 DEF Good
  <2>11. Len(view'[p].events) <= MaxEvents
    BY <2>4, <2>5, <2>9, WorkflowAssumption
  <2>12. Changing(p)'
    BY <2>1, <2>10, <2>11 DEF Changing
  <2>. QED
    BY <1>2, <1>3, <2>3, <2>12, ChangeOfOne
<1>9. CASE Join(p)
  <2>1. /\ at[p] = "commit" /\ at'[p] = "read" /\ view' = view /\ stored' = stored
        /\ Len(view[p].events) < MaxEvents
    BY <1>1, <1>9, Held DEF Join
  <2>2. Changing(p)'
    BY <1>2, <2>1 DEF Changing
  <2>. QED
    BY <1>2, <1>3, <2>1, <2>2, ChangeOfOne
<1>10. CASE CommitChange(p)
  <2>1. at[p] = "commit" /\ at'[p] = "idle" /\ stored' = view[p]
    BY <1>1, <1>10, Held DEF CommitChange, Commit
  <2>2. Good(stored') /\ Len(stored'.events) <= MaxEvents
    BY <1>2, <2>1 DEF Changing
  <2>3. Changing(p)'
    BY <2>1 DEF Changing
  <2>. QED
    BY <1>3, <2>2, <2>3, ChangeOfOne
<1>11. CASE Refuse(p) \/ Fail(p)
  <2>1. at'[p] = "idle" /\ stored' = stored
    BY <1>1, <1>11 DEF Refuse, Fail, Rollback
  <2>2. Changing(p)'
    BY <2>1 DEF Changing
  <2>. QED
    BY <1>2, <1>3, <2>1, <2>2, ChangeOfOne
<1>. QED
  BY <1>4, <1>5, <1>6, <1>7, <1>8, <1>9, <1>10, <1>11 DEF ChangeStep

\* The migrator leaves the rows and the events alone.
LEMMA MigratorStepKeeps ==
  ASSUME LockInv, SchemaInv, ChangeInv, NEW p \in Proc, MigratorStep(p), Forget(p)
  PROVE  ChangeInv'
<1>. USE DEF ChangeSteps, MigrationSteps, Move, localVars, databaseVars
<1>1. /\ at \in [Proc -> Steps] /\ DOMAIN stored = Fields /\ DOMAIN view = Proc
      /\ DOMAIN change = Proc /\ DOMAIN last = Proc
  BY DEF LockInv
<1>2. Good(stored) /\ Len(stored.events) <= MaxEvents
  BY DEF ChangeInv
<1>3. \A q \in Proc \ {p} : change'[q] = change[q] /\ last'[q] = last[q]
  BY <1>1 DEF Forget
<1>4. /\ \A q \in Proc \ {p} : at'[q] = at[q] /\ view'[q] = view[q]
      /\ at'[p] \in {"migrate", "execute", "commitMigration", "idle", "closed"}
      /\ stored'.rows = stored.rows /\ stored'.events = stored.events
  <2>1. CASE Start(p) \/ Open(p) \/ GiveUpWaiting(p)
    BY <1>1, <2>1 DEF Start, Open, GiveUpWaiting
  <2>2. CASE BeginMigration(p)
    BY <1>1, <2>2 DEF BeginMigration, BeginImmediate
  <2>3. CASE Execute(p) \/ RecordMigration(p)
    <3>1. View(p) = view[p] /\ writer = {p} /\ at[p] = "execute"
      BY <2>3, Held DEF Execute, RecordMigration
    <3>2. at'[p] \in {"execute", "commitMigration"} /\ \A q \in Proc \ {p} : at'[q] = at[q]
      BY <1>1, <2>3, <3>1 DEF Execute, RecordMigration
    <3>. QED
      BY <1>1, <2>3, <3>1, <3>2 DEF Execute, RecordMigration, Write
  <2>4. CASE CommitMigration(p)
    <3>1. View(p) = view[p] /\ at[p] = "commitMigration"
      BY <2>4, Held DEF CommitMigration
    <3>2. view[p].rows = stored.rows /\ view[p].events = stored.events
      BY <3>1 DEF SchemaInv, Migrating
    <3>. QED
      BY <1>1, <2>4, <3>1, <3>2 DEF CommitMigration, Commit, Leave
  <2>5. CASE MigrationFails(p) \/ Kill(p)
    BY <1>1, <2>5 DEF MigrationFails, Kill, Rollback, Leave
  <2>. QED
    BY <2>1, <2>2, <2>3, <2>4, <2>5 DEF MigratorStep
<1>5. Good(stored') /\ Len(stored'.events) <= MaxEvents
  BY <1>2, <1>4 DEF Good
<1>6. Changing(p)'
  BY <1>4 DEF Changing
<1>. QED
  BY <1>3, <1>4, <1>5, <1>6, ChangeOfOne

-----------------------------------------------------------------------------
(* The invariant *)

LEMMA FirstRowsAreGood ==
  /\ GoodRows(FirstRows) /\ Trail(FirstRows, <<>>) /\ IsTrail(<<>>)
<1>1. Roster(FirstRows) = {} /\ Cardinality({}) = 0
  BY FirstRowsAre, FS_EmptySet DEF Roster
<1>2. "none" \in DOMAIN AllowedStageTransitions /\ DefaultCapacity \in Nat
  BY WorkflowAssumption DEF AllowedStageTransitions
<1>3. Fit(FirstRows)
  BY <1>1, <1>2, FirstRowsAre DEF Fit
<1>4. GoodRows(FirstRows)
  BY <1>2, <1>3, FirstRowsAre DEF GoodRows
<1>5. \A r, i : EventsIn(<<>>, r) = {} /\ Earlier(<<>>, r, i) = {}
  BY DEF EventsIn, Earlier
<1>6. \A r \in Audited : Before(<<>>, r, Len(<<>>) + 1) = FirstRows[r]
  BY <1>5 DEF Before
<1>7. Trail(FirstRows, <<>>)
  BY <1>5, <1>6 DEF Trail
<1>8. IsTrail(<<>>)
  BY DEF IsTrail
<1>. QED
  BY <1>4, <1>7, <1>8

LEMMA InitHolds == Init => IInv
<1>. SUFFICES ASSUME Init PROVE IInv
  OBVIOUS
<1>. USE DEF Init, DatabaseInit
<1>1. /\ stored.schema = 0 /\ stored.made = <<>> /\ stored.rows = FirstRows /\ stored.events = <<>>
      /\ DOMAIN stored = Fields
  BY RowsAssumption DEF Empty, Fields
<1>2. LockInv
  BY DatabaseAssumption, <1>1 DEF LockInv, Steps, MigrationSteps, ChangeSteps
<1>3. Ran(0, 0) = <<>>
  <2>1. 0 * Statements + 0 = 0
    BY DatabaseAssumption
  <2>. QED
    BY <2>1 DEF Ran
<1>4. SchemaInv
  BY <1>1, <1>3, DatabaseAssumption DEF SchemaInv, Migrating, MigrationSteps, ChangeSteps
<1>5. Good(stored)
  BY <1>1, FirstRowsAreGood DEF Good
<1>6. Len(stored.events) <= MaxEvents
  BY <1>1, WorkflowAssumption
<1>7. \A p \in Proc : Changing(p)
  BY DEF Changing, ChangeSteps
<1>. QED
  BY <1>2, <1>4, <1>5, <1>6, <1>7 DEF IInv, ChangeInv

LEMMA NextKeeps == IInv /\ [Next]_vars => IInv'
<1>. SUFFICES ASSUME IInv, [Next]_vars PROVE IInv'
  OBVIOUS
<1>0. LockInv /\ SchemaInv /\ ChangeInv
  BY DEF IInv
<1>1. CASE UNCHANGED vars
  BY <1>0, <1>1 DEF vars, openVars, databaseVars, localVars, IInv, LockInv, SchemaInv, Migrating,
     ChangeInv, Changing
<1>2. CASE Next
  <2>1. PICK p \in Proc : ChangeStep(p) \/ (MigratorStep(p) /\ Forget(p))
    BY <1>2 DEF Next
  <2>2. LockInv'
    BY <1>0, <2>1, LockStep
  <2>3. SchemaInv'
    BY <1>0, <2>1, SchemaStep
  <2>4. ChangeInv'
    BY <1>0, <2>1, ChangeStepKeeps, MigratorStepKeeps
  <2>. QED
    BY <2>2, <2>3, <2>4 DEF IInv
<1>. QED
  BY <1>1, <1>2

LEMMA InvariantHolds == Spec => []IInv
BY InitHolds, NextKeeps, PTL DEF Spec

-----------------------------------------------------------------------------
(* What follows *)

(* Whatever crashes or collides, the statements that have run are those of   *)
(* the versions that are recorded, whole, each once and in order             *)
(* (apply_migrations).                                                       *)
THEOREM SchemaStaysWhole == Spec => []SchemaIsWhole
<1>1. IInv => SchemaIsWhole
  <2>. SUFFICES ASSUME IInv PROVE SchemaIsWhole
    OBVIOUS
  <2>1. stored.schema \in Nat /\ Statements \in Nat /\ stored.made = Ran(stored.schema, 0)
    BY DatabaseAssumption DEF IInv, SchemaInv
  <2>2. stored.schema * Statements + 0 = stored.schema * Statements
    BY <2>1
  <2>. QED
    BY <2>1, <2>2 DEF SchemaIsWhole, Ran
<1>. QED
  BY <1>1, InvariantHolds, PTL

(* However requests race and fail, no roster is over its capacity, and       *)
(* nobody on it is deactivated (add_to_meeting, set_active and               *)
(* set_meeting_capacity).                                                    *)
THEOREM RostersFit == Spec => []RosterFits
<1>1. IInv => RosterFits
  BY DEF IInv, ChangeInv, Good, GoodRows, Fit, RosterFits
<1>. QED
  BY <1>1, InvariantHolds, PTL

(* The hash chain verifies, the events of each job, stage and capacity       *)
(* follow on each other, and the last one ends where the row is              *)
(* (record_event, in the transaction of its change).                         *)
THEOREM TrailIsTrue == Spec => []TrailTellsTheState
<1>1. IInv => TrailTellsTheState
  <2>. SUFFICES ASSUME IInv PROVE TrailTellsTheState
    OBVIOUS
  <2>1. Trail(stored.rows, stored.events)
    BY DEF IInv, ChangeInv, Good
  <2>2. ChainVerifies(stored)
    BY <2>1 DEF Trail, ChainVerifies
  <2>3. \A r : EventsOf(r) = EventsIn(stored.events, r)
    BY DEF EventsOf, EventsIn
  <2>4. \A r, i : TrailBefore(r, i) = Before(stored.events, r, i)
    BY DEF TrailBefore, Before, EventsOf, EventsIn, Earlier, Greatest
  <2>. QED
    BY <2>1, <2>2, <2>3, <2>4 DEF Trail, TrailTellsTheState
<1>. QED
  BY <1>1, InvariantHolds, PTL

(* The state of the database and of the migrator is of its type, and one     *)
(* process at most is in a transaction.                                      *)
THEOREM WorkflowTyped == Spec => []TypeOK
<1>1. IInv => TypeOK
  <2>. SUFFICES ASSUME IInv PROVE TypeOK
    OBVIOUS
  <2>1. Cardinality(writer) <= 1
    <3>1. CASE writer = {}
      BY <3>1, FS_EmptySet
    <3>2. CASE writer # {}
      <4>1. PICK p \in writer : writer = {p}
        BY <3>2 DEF IInv, LockInv
      <4>. QED
        BY <4>1, FS_Singleton
    <3>. QED
      BY <3>1, <3>2
  <2>2. Executed(stored) \subseteq (1..HeadVersion) \X (1..Statements)
    <3>. DEFINE v == stored.schema
    <3>1. v \in 0..HeadVersion /\ stored.made = Ran(v, 0)
      BY DEF IInv, SchemaInv
    <3>2. HeadVersion \in Nat /\ Statements \in Nat \ {0} /\ v \in Nat /\ v * Statements + 0 \in Nat
      BY <3>1, Counts
    <3>. HIDE DEF v
    <3>3. ASSUME NEW n \in 1..(v * Statements + 0)
          PROVE  Ran(v, 0)[n] \in (1..HeadVersion) \X (1..Statements)
      <4>. DEFINE q == (n - 1) \div Statements
                  e == (n - 1) % Statements
      <4>1. q \in Nat /\ e \in 0..(Statements - 1) /\ n - 1 = Statements * q + e
        BY <3>2
      <4>2. Ran(v, 0)[n] = <<q + 1, e + 1>>
        <5>1. v \in Nat /\ 0 \in Nat
          BY <3>2
        <5>2. \A k \in 1..(v * Statements + 0) :
                 Ran(v, 0)[k] = <<((k - 1) \div Statements) + 1, ((k - 1) % Statements) + 1>>
          BY <5>1, RanIs, Zenon
        <5>. QED
          BY <5>2, Zenon
      <4>. HIDE DEF q, e
      <4>3. ASSUME q >= v PROVE FALSE
        <5>1. Statements * v <= Statements * q
          BY <3>2, <4>1, <4>3
        <5>. QED
          BY <3>2, <4>1, <5>1
      <4>4. q + 1 \in 1..HeadVersion /\ e + 1 \in 1..Statements
        BY <3>1, <3>2, <4>1, <4>3
      <4>. QED
        BY <4>2, <4>4
    <3>4. Len(Ran(v, 0)) = v * Statements + 0
      BY <3>2, RanIs
    <3>. QED
      BY <3>1, <3>3, <3>4 DEF Executed
  <2>. QED
    BY <2>1, <2>2, FirstRowsAre DEF TypeOK, DatabaseTypeOK, IInv, LockInv, SchemaInv, ChangeInv, Good,
       GoodRows
<1>. QED
  BY <1>1, InvariantHolds, PTL
=============================================================================
