------------------------------ MODULE Workflow ------------------------------
(***************************************************************************)
(* What the services keep of one meeting: its job and the stages of its    *)
(* pipeline (src/mom_igd/jobs/state_machine.py), its roster and capacity   *)
(* (src/mom_igd/enrollment/participants.py).  Every change is checked and  *)
(* made in one transaction of Database, together with its audit event; a   *)
(* caller that has a transaction open has the change join it.              *)
(*                                                                         *)
(* A row is named <<table, number>> and has one value.  Counters of        *)
(* attempts, times, checkpoints and texts are left out.                    *)
(***************************************************************************)
EXTENDS JobGraph, Database

CONSTANTS
    Stages,         \* stages of the pipeline
    Persons,        \* participants
    Ceiling,        \* maximum_meeting_participant_capacity as each process read it
    DefaultCapacity,
    MaxEvents       \* bound: changes

VARIABLES
    change,         \* the change a transaction is making
    last            \* the event whose hash record_event has read

localVars == <<change, last>>
vars == <<openVars, localVars>>

ASSUME WorkflowAssumption ==
    /\ Stages \in Nat /\ Persons \in Nat /\ DefaultCapacity \in Nat \ {0}
    /\ Ceiling \in [Proc -> Nat \ {0}] /\ MaxEvents \in Nat

Job == <<"job", 1>>
Capacity == <<"capacity", 1>>
Stage == {"stage"} \X (1..Stages)
Member == {"member"} \X (1..Persons)
Active(m) == <<"active", m[2]>>

FirstRows ==
    [r \in {Job, Capacity} \cup Stage \cup Member \cup {Active(m) : m \in Member} |->
        IF r = Capacity THEN DefaultCapacity
        ELSE IF r[1] = "active" THEN "yes" ELSE "none"]

ASSUME RowsAssumption == NoRows = FirstRows

-----------------------------------------------------------------------------
AllowedStageTransitions ==
    [none      |-> {},
     PENDING   |-> {"RUNNING", "SKIPPED", "CANCELLED"},
     RUNNING   |-> {"COMPLETED", "FAILED", "CANCELLED"},
     FAILED    |-> {"RUNNING", "SKIPPED", "CANCELLED"},
     COMPLETED |-> {}, SKIPPED |-> {}, CANCELLED |-> {}]

Change(r, from, to) == [row |-> r, from |-> from, to |-> to]

\* create_job and transition_job.
JobChanges(rows) ==
    {Change(Job, rows[Job], s) :
        s \in IF rows[Job] = "none" THEN {"DRAFT"} ELSE AllowedTransitions[rows[Job]]}

\* set_stage_status.
StageChanges(rows) ==
    UNION {{Change(r, rows[r], s) : s \in AllowedStageTransitions[rows[r]]} : r \in Stage}

Roster(rows) == {m \in Member : rows[m] = "in"}

\* add_to_meeting and remove_from_meeting.
MemberChanges(rows) ==
    {Change(m, rows[m], "in") :
        m \in {n \in Member \ Roster(rows) :
                  rows[Active(n)] = "yes" /\ Cardinality(Roster(rows)) < rows[Capacity]}}
    \cup {Change(m, "in", "out") : m \in Roster(rows)}

\* set_active, either way.
ActiveChanges(rows) ==
    {Change(Active(m), rows[Active(m)], IF rows[Active(m)] = "yes" THEN "no" ELSE "yes") :
        m \in Member}

\* set_meeting_capacity: a capacity above the ceiling may stay or be lowered.
CapacityChanges(rows, p) ==
    LET highest == IF rows[Capacity] > Ceiling[p] THEN rows[Capacity] ELSE Ceiling[p]
    IN  {Change(Capacity, rows[Capacity], n) :
            n \in {k \in 1..highest : k >= Cardinality(Roster(rows)) /\ k # rows[Capacity]}}

\* MUTANT: who is deactivated stays on the roster.
AppliedAlone(rows, c) ==
    [r \in DOMAIN rows |->
        IF r = c.row THEN c.to
        ELSE IF r \in Stage /\ c.row = Job /\ c.from = "none" THEN "PENDING" ELSE rows[r]]

\* A job is created with its stages; who is deactivated leaves the roster.
Applied(rows, c) ==
    [r \in DOMAIN rows |->
        IF r = c.row THEN c.to
        ELSE IF r \in Stage /\ c.row = Job /\ c.from = "none" THEN "PENDING"
        ELSE IF r \in Roster(rows) /\ c.row = Active(r) /\ c.to = "no" THEN "out"
        ELSE rows[r]]

-----------------------------------------------------------------------------
NoChange == Change(Job, "none", "none")

Init == DatabaseInit /\ change = [p \in Proc |-> NoChange] /\ last = [p \in Proc |-> 0]

Begin(p) ==
    /\ at[p] = "idle" /\ Len(stored.events) < MaxEvents
    /\ BeginImmediate(p) /\ Move(p, "read")
    /\ UNCHANGED <<already, faults, localVars>>

Choose(p, c) == change' = [change EXCEPT ![p] = c]

\* The rows are read and the request checked ...
Read(p) ==
    /\ at[p] = "read" /\ Move(p, "update")
    /\ LET rows == View(p).rows
       IN  \/ \E c \in JobChanges(rows) \cup StageChanges(rows) : Choose(p, c)
           \/ \E c \in MemberChanges(rows) \cup ActiveChanges(rows) : Choose(p, c)
           \/ \E c \in CapacityChanges(rows, p) : Choose(p, c)
    /\ UNCHANGED <<databaseVars, already, faults, last>>

Forget(p) == change' = [change EXCEPT ![p] = NoChange] /\ last' = [last EXCEPT ![p] = 0]

\* ... and refused, which undoes the caller's transaction as well.
Refuse(p) ==
    /\ at[p] = "read" /\ Rollback(p) /\ Move(p, "idle") /\ Forget(p)
    /\ UNCHANGED <<already, faults>>

Update(p) ==
    /\ at[p] = "update" /\ Move(p, "hash")
    /\ Write(p, [View(p) EXCEPT !.rows = Applied(View(p).rows, change[p])])
    /\ UNCHANGED <<already, faults, localVars>>

ReadLastHash(p) ==
    /\ at[p] = "hash" /\ Move(p, "insert")
    /\ last' = [last EXCEPT ![p] = LastEvent(View(p))]
    /\ UNCHANGED <<databaseVars, already, faults, change>>

InsertEvent(p) ==
    /\ at[p] = "insert" /\ Move(p, "commit")
    /\ Write(p, WithEvent(View(p), change[p], last[p]))
    /\ UNCHANGED <<already, faults, localVars>>

\* A caller's transaction goes on to another change, as when start creates the
\* meeting and its job.
Join(p) ==
    /\ at[p] = "commit" /\ Len(View(p).events) < MaxEvents
    /\ Move(p, "read") /\ Forget(p) /\ UNCHANGED <<databaseVars, already, faults>>

CommitChange(p) ==
    /\ at[p] = "commit" /\ Commit(p) /\ Move(p, "idle") /\ Forget(p)
    /\ UNCHANGED <<already, faults>>

\* A statement fails.
Fail(p) ==
    /\ at[p] \in {"update", "hash", "insert", "commit"}
    /\ faults < MaxFaults /\ faults' = faults + 1
    /\ Rollback(p) /\ Move(p, "idle") /\ Forget(p) /\ UNCHANGED already

ChangeStep(p) ==
    \/ Begin(p) \/ Read(p) \/ Refuse(p) \/ Update(p) \/ ReadLastHash(p)
    \/ InsertEvent(p) \/ Join(p) \/ CommitChange(p) \/ Fail(p)

Next == \E p \in Proc : ChangeStep(p) \/ (MigratorStep(p) /\ Forget(p))

Spec == Init /\ [][Next]_vars

-----------------------------------------------------------------------------
TypeOK ==
    /\ DatabaseTypeOK /\ DOMAIN stored.rows = DOMAIN FirstRows
    /\ stored.rows[Job] \in JobStates \cup {"none"}
    /\ \A r \in Stage : stored.rows[r] \in DOMAIN AllowedStageTransitions
    /\ Len(stored.events) <= MaxEvents

\* The rows whose events name the value before and the value after.
Audited == {Job, Capacity} \cup Stage

EventsOf(r) == {i \in 1..Len(stored.events) : stored.events[i].change.row = r}

\* The value the trail leaves a row at before event i.
TrailBefore(r, i) ==
    LET earlier == {j \in EventsOf(r) : j < i}
    IN  IF earlier # {}
          THEN stored.events[CHOOSE j \in earlier : \A k \in earlier : k <= j].change.to
        ELSE IF r \in Stage /\ EventsOf(Job) # {} THEN "PENDING" ELSE FirstRows[r]

(* State and audit trail cannot diverge: the chain of hashes verifies, each   *)
(* event starts where the one before about the same row ended, and the row is *)
(* where the last one ends.                                                   *)
TrailTellsTheState ==
    /\ ChainVerifies(stored)
    /\ \A r \in Audited :
          /\ \A i \in EventsOf(r) : stored.events[i].change.from = TrailBefore(r, i)
          /\ stored.rows[r] = TrailBefore(r, Len(stored.events) + 1)

(* However requests race, a roster is never over its capacity, and nobody on  *)
(* it is deactivated.                                                         *)
RosterFits ==
    /\ Cardinality(Roster(stored.rows)) <= stored.rows[Capacity]
    /\ \A m \in Roster(stored.rows) : stored.rows[Active(m)] = "yes"
=============================================================================
