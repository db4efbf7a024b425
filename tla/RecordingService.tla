-------------------------- MODULE RecordingService --------------------------
(***************************************************************************)
(* RecordingService of src/mom_igd/audio/service.py in several processes   *)
(* on one data root: the cross-process lock file, the recordings rows with *)
(* their single-active index, the capture session of each process and the  *)
(* job of the one meeting they all record.  _state_lock serialises the     *)
(* calls of a process; processes interleave between file and database      *)
(* operations, and may be killed between any two.                          *)
(*                                                                         *)
(* A file that its creator still has open cannot be unlinked (Windows):    *)
(* acquire then fails, and release waits here for the file to be closed.   *)
(* A database that is found not ready (_database_ready reads any exception *)
(* as no) makes an update of a row or of the job go missing, silently.     *)
(* A preflight reads the lock and the rows in one step; the disk and       *)
(* device checks it also makes only refuse more.                           *)
(***************************************************************************)
EXTENDS Integers, FiniteSets, JobGraph

CONSTANTS
    Proc,           \* processes that share the data root
    MaxRecs,        \* bound: recordings inserted
    MaxKills,       \* bound: processes killed
    MaxFaults       \* bound: disk, device and database errors

ASSUME ConstantsAssumption ==
    MaxRecs \in Nat \ {0} /\ MaxKills \in Nat /\ MaxFaults \in Nat

VARIABLES
    lock,           \* the lock file: {} or {[by, life, written]}
    status,         \* recordings.status of the rows 1..Len, "none" before the insert
    job,            \* jobs.state of the meeting's job
    up, life,       \* is the process running, and in which incarnation (its pid)?
    pc,             \* its next step inside a call, "idle" between calls
    active,         \* _active.recording_id, 0 if there is none
    lifecycle,      \* _active.lifecycle
    session,        \* its CaptureSession: "none", "live", "closed" or "failed"
    held,           \* SingleRecordingLock._held
    stray,          \* has a start that failed left its stream and its writer running?
    kills, faults   \* bound counters

procVars == <<pc, active, lifecycle, session, held, stray>>
vars == <<lock, status, job, up, life, procVars, kills, faults>>

Recs == 1..MaxRecs
ActiveStates == {"PREFLIGHT", "ARMED", "RECORDING", "PAUSED", "STOPPING", "FINALIZING"}
Lifecycles == ActiveStates \cup {"IDLE", "RECORDED", "RECOVERABLE", "FAILED", "CANCELLED"}

Init ==
    /\ lock = {} /\ status = [n \in Recs |-> "none"] /\ job = "DRAFT"
    /\ up = [p \in Proc |-> TRUE] /\ life = [p \in Proc |-> 0]
    /\ pc = [p \in Proc |-> "idle"] /\ active = [p \in Proc |-> 0]
    /\ lifecycle = [p \in Proc |-> "IDLE"] /\ session = [p \in Proc |-> "none"]
    /\ held = [p \in Proc |-> FALSE] /\ stray = [p \in Proc |-> FALSE]
    /\ kills = 0 /\ faults = 0

-----------------------------------------------------------------------------
Fault == faults < MaxFaults /\ faults' = faults + 1

At(p, step) == up[p] /\ pc[p] = step
Go(p, step) == pc' = [pc EXCEPT ![p] = step]
Free(p) == At(p, "idle") /\ active[p] = 0
Busy(p) == At(p, "idle") /\ active[p] # 0

OwnerAlive(l) == l.written /\ up[l.by] /\ life[l.by] = l.life
LiveHolder == \E l \in lock : OwnerAlive(l)
FileClosed == \A l \in lock : l.written \/ ~up[l.by] \/ life[l.by] # l.life

\* MUTANT: the unique index does not see a paused recording.
ActiveRowsUnpaused == {n \in Recs : status[n] \in ActiveStates \ {"PAUSED"}}

\* The rows of ux_recordings_single_active.
ActiveRows == {n \in Recs : status[n] \in ActiveStates}

SetStatus(n, s) == status' = [status EXCEPT ![n] = s]

\* The lifecycle moves in memory, then the row.  If the row cannot be written the call
\* raises; if the database is not ready the row is skipped and the call goes on.
\* Either way the two disagree.
Enter(p, s, next) ==
    /\ lifecycle' = [lifecycle EXCEPT ![p] = s]
    /\ \/ SetStatus(active[p], s) /\ Go(p, next) /\ UNCHANGED faults
       \/ Fault /\ UNCHANGED status /\ (Go(p, "idle") \/ Go(p, next))

\* MUTANT: release only forgets the lock.
ForgetLock(p) == held' = [held EXCEPT ![p] = FALSE] /\ UNCHANGED lock

\* SingleRecordingLock.release: whatever file is there goes.
Release(p) == lock' = {} /\ held' = [held EXCEPT ![p] = FALSE]

\* _advance_job: along the route, or not at all; an error on the way, which it
\* swallows, leaves the job where the last committed transition put it.  It asks by
\* itself whether the database is ready, so a row that was skipped does not stop it.
AdvanceJob(target) ==
    IF HasRoute(job, target)
      THEN \/ job' = target /\ UNCHANGED faults
           \/ Fault /\ job' \in RouteStates(job, target)
      ELSE UNCHANGED <<job, faults>>

-----------------------------------------------------------------------------
(* start *)

\* preflight passes: no row is active and no live process holds the lock.
Preflight(p) ==
    /\ Free(p) /\ ActiveRows = {} /\ ~LiveHolder
    /\ Go(p, "readLock")
    /\ UNCHANGED <<lock, status, job, up, life, active, lifecycle, session, held,
                   kills, faults, stray>>

\* acquire reads the holder and decides whether it is stale.
ReadLock(p) ==
    /\ At(p, "readLock")
    /\ Go(p, IF lock # {} /\ ~LiveHolder THEN "unlink" ELSE "create")
    /\ UNCHANGED <<lock, status, job, up, life, active, lifecycle, session, held,
                   kills, faults, stray>>

\* The file it took for stale is unlinked, whichever file that is by now.
ClearStale(p) ==
    /\ At(p, "unlink")
    /\ \/ FileClosed /\ lock' = {} /\ Go(p, "create")
       \/ ~FileClosed /\ UNCHANGED lock /\ Go(p, "idle")
    /\ UNCHANGED <<status, job, up, life, active, lifecycle, session, held, kills,
                   faults, stray>>

\* O_CREAT | O_EXCL.
CreateLock(p) ==
    /\ At(p, "create")
    /\ IF lock = {}
         THEN /\ lock' = {[by |-> p, life |-> life[p], written |-> FALSE]}
              /\ Go(p, "write")
         ELSE UNCHANGED lock /\ Go(p, "idle")
    /\ UNCHANGED <<status, job, up, life, active, lifecycle, session, held, kills,
                   faults, stray>>

WriteLock(p) ==
    /\ At(p, "write")
    /\ lock' = {[l EXCEPT !.written = TRUE] : l \in lock}
    /\ held' = [held EXCEPT ![p] = TRUE] /\ Go(p, "insert")
    /\ UNCHANGED <<status, job, up, life, active, lifecycle, session, kills, faults,
                   stray>>

\* The unique index admits the row.
Insertable(n) == status[n] = "none" /\ ActiveRows = {}

\* One transaction: the job if the meeting has none, and the ARMED row.
InsertRow(p) ==
    /\ At(p, "insert")
    /\ \E n \in Recs :
         /\ Insertable(n) /\ \A m \in Recs : m < n => status[m] # "none"
         /\ SetStatus(n, "ARMED")
         /\ active' = [active EXCEPT ![p] = n]
         /\ Go(p, "open")
    /\ UNCHANGED <<lock, job, up, life, lifecycle, session, held, kills, faults, stray>>

\* The index or the database refuses: the lock is released.
InsertFails(p) ==
    /\ At(p, "insert") /\ FileClosed
    /\ \/ ActiveRows # {} /\ UNCHANGED faults
       \/ Fault
    /\ Release(p) /\ Go(p, "idle")
    /\ UNCHANGED <<status, job, up, life, active, lifecycle, session, kills, stray>>

\* The directory cannot be made, before _active is set: the row stays ARMED.
SetupFails(p) ==
    /\ At(p, "open") /\ Fault /\ FileClosed
    /\ Release(p) /\ Go(p, "idle")
    /\ active' = [active EXCEPT ![p] = 0]
    /\ UNCHANGED <<status, job, up, life, lifecycle, session, kills, stray>>

OpenStream(p) ==
    /\ At(p, "open")
    /\ session' = [session EXCEPT ![p] = "live"]
    /\ lifecycle' = [lifecycle EXCEPT ![p] = "ARMED"]
    /\ Go(p, "started")
    /\ UNCHANGED <<lock, status, job, up, life, active, held, kills, faults, stray>>

\* session.start raises, before the stream is open or, appending to the manifest, with
\* stream and writer running: nobody stops these, and _active forgets them.  The lock
\* goes first, then the row becomes FAILED.
OpenFails(p) ==
    /\ At(p, "open") /\ Fault /\ FileClosed
    /\ \/ UNCHANGED stray
       \/ stray' = [stray EXCEPT ![p] = TRUE]
    /\ Release(p) /\ Go(p, "failRow")
    /\ UNCHANGED <<status, job, up, life, active, lifecycle, session, kills>>

\* Here too a row that cannot be written, or is skipped, stays as it was.
FailRow(p) ==
    /\ At(p, "failRow")
    /\ \/ SetStatus(active[p], "FAILED") /\ UNCHANGED faults
       \/ Fault /\ UNCHANGED status
    /\ active' = [active EXCEPT ![p] = 0] /\ Go(p, "idle")
    /\ UNCHANGED <<lock, job, up, life, lifecycle, session, held, kills, stray>>

RowStarted(p) ==
    /\ At(p, "started") /\ Enter(p, "RECORDING", "startJob")
    /\ UNCHANGED <<lock, job, up, life, active, session, held, kills, stray>>

JobStarted(p) ==
    /\ At(p, "startJob") /\ AdvanceJob("RECORDING") /\ Go(p, "idle")
    /\ UNCHANGED <<lock, status, up, life, active, lifecycle, session, held, kills,
                   stray>>

Start(p) == \/ Preflight(p) \/ ReadLock(p) \/ ClearStale(p) \/ CreateLock(p)
            \/ WriteLock(p) \/ InsertRow(p) \/ InsertFails(p) \/ SetupFails(p)
            \/ OpenStream(p) \/ OpenFails(p) \/ FailRow(p) \/ RowStarted(p)
            \/ JobStarted(p)

-----------------------------------------------------------------------------
(* pause, resume, stop, abandon *)

\* A failed session refuses both, and the lifecycle stays.
Pause(p) ==
    /\ Busy(p) /\ lifecycle[p] = "RECORDING" /\ session[p] = "live"
    /\ Enter(p, "PAUSED", "idle")
    /\ UNCHANGED <<lock, job, up, life, active, session, held, kills, stray>>

Resume(p) ==
    /\ Busy(p) /\ lifecycle[p] = "PAUSED" /\ session[p] = "live"
    /\ Enter(p, "RECORDING", "idle")
    /\ UNCHANGED <<lock, job, up, life, active, session, held, kills, stray>>

\* The writer thread or the device fails, of the session the service knows or of a
\* stray one.
SessionFails(p) ==
    /\ up[p] /\ Fault
    /\ \/ /\ session[p] = "live" /\ UNCHANGED stray
          /\ session' = [session EXCEPT ![p] = "failed"]
       \/ stray[p] /\ stray' = [stray EXCEPT ![p] = FALSE] /\ UNCHANGED session
    /\ UNCHANGED <<lock, status, job, up, life, pc, active, lifecycle, held, kills>>

\* Any other lifecycle refuses the transition to STOPPING.
Stop(p) ==
    /\ Busy(p) /\ lifecycle[p] \in {"RECORDING", "PAUSED"}
    /\ Enter(p, "STOPPING", "stopping")
    /\ UNCHANGED <<lock, job, up, life, active, session, held, kills, stray>>

\* MUTANT: the row is closed and the session left running.
LeaveSession(p) == UNCHANGED session

CloseSession(p) ==
    session' = [session EXCEPT ![p] = IF @ = "live" THEN "closed" ELSE @]

\* session.stop returns, or raises what it does not catch: then the call ends in
\* STOPPING.
StopSession(p) ==
    /\ At(p, "stopping")
    /\ \/ CloseSession(p) /\ Enter(p, "FINALIZING", "finalizing")
       \/ /\ Fault /\ session' = [session EXCEPT ![p] = "failed"]
          /\ Go(p, "idle") /\ UNCHANGED <<lifecycle, status>>
    /\ UNCHANGED <<lock, job, up, life, active, held, kills, stray>>

\* MUTANT: whatever was captured counts as recorded.
AlwaysRecorded(p, verified) == "RECORDED"

Outcome(p, verified) ==
    IF session[p] = "closed" /\ verified THEN "RECORDED" ELSE "RECOVERABLE"

\* The summary is written and the manifest verified, then the row closed, whatever
\* _database_ready would say; a summary or a transaction that raises leaves FINALIZING.
\* The chunks of a stray session are mirrored into whatever recording is active then,
\* which may fail its verification for them.
Finalise(p) ==
    /\ At(p, "finalizing")
    /\ \/ \E verified \in BOOLEAN :
            /\ IF verified \/ stray[p] THEN UNCHANGED faults ELSE Fault
            /\ SetStatus(active[p], Outcome(p, verified))
            /\ lifecycle' = [lifecycle EXCEPT ![p] = Outcome(p, verified)]
            /\ Go(p, "stopJob")
       \/ Fault /\ Go(p, "idle") /\ UNCHANGED <<lifecycle, status>>
    /\ UNCHANGED <<lock, job, up, life, active, session, held, kills, stray>>

\* MUTANT: the job follows the call, not the verdict.
AlwaysJobRecorded(p) == "RECORDED"

JobVerdict(p) == IF lifecycle[p] = "RECORDED" THEN "RECORDED" ELSE "FAILED"

JobStopped(p) ==
    /\ At(p, "stopJob") /\ AdvanceJob(JobVerdict(p))
    /\ Go(p, "release")
    /\ UNCHANGED <<lock, status, up, life, active, lifecycle, session, held, kills,
                   stray>>

\* The lock is released and _final_status clears _active.
Finish(p) ==
    /\ At(p, "release") /\ FileClosed /\ Release(p)
    /\ active' = [active EXCEPT ![p] = 0]
    /\ lifecycle' = [lifecycle EXCEPT ![p] = "IDLE"]
    /\ session' = [session EXCEPT ![p] = "none"] /\ Go(p, "idle")
    /\ UNCHANGED <<status, job, up, life, kills, faults, stray>>

\* abandon asks no lifecycle for permission; the audit event that follows the row may
\* raise, and then the recording stays active with a row that is closed.
Abandon(p) ==
    /\ Busy(p) /\ CloseSession(p)
    /\ \/ Enter(p, "RECOVERABLE", "stopJob")
       \/ /\ Fault /\ lifecycle' = [lifecycle EXCEPT ![p] = "RECOVERABLE"]
          /\ SetStatus(active[p], "RECOVERABLE") /\ Go(p, "idle")
    /\ UNCHANGED <<lock, job, up, life, active, held, kills, stray>>

\* Shutdown of the application ends in stop; a kill does not.  Recovery (recover_all,
\* _sync_recovery) counts chunks in the row and leaves its status, so it is no action.
Kill(p) ==
    /\ up[p] /\ kills < MaxKills /\ kills' = kills + 1
    /\ up' = [up EXCEPT ![p] = FALSE]
    /\ pc' = [pc EXCEPT ![p] = "idle"] /\ active' = [active EXCEPT ![p] = 0]
    /\ lifecycle' = [lifecycle EXCEPT ![p] = "IDLE"]
    /\ session' = [session EXCEPT ![p] = "none"]
    /\ held' = [held EXCEPT ![p] = FALSE] /\ stray' = [stray EXCEPT ![p] = FALSE]
    /\ UNCHANGED <<lock, status, job, life, faults>>

Restart(p) ==
    /\ ~up[p]
    /\ up' = [up EXCEPT ![p] = TRUE] /\ life' = [life EXCEPT ![p] = @ + 1]
    /\ UNCHANGED <<lock, status, job, procVars, kills, faults>>

Steps(p) ==
    \/ Start(p) \/ Pause(p) \/ Resume(p) \/ SessionFails(p) \/ Stop(p)
    \/ StopSession(p) \/ Finalise(p) \/ JobStopped(p) \/ Finish(p) \/ Abandon(p)
    \/ Kill(p) \/ Restart(p)

Next == \E p \in Proc : Steps(p)

\* A call that has begun goes on to its end.
Continue(p) ==
    \/ ReadLock(p) \/ ClearStale(p) \/ CreateLock(p) \/ WriteLock(p) \/ InsertRow(p)
    \/ InsertFails(p) \/ OpenStream(p) \/ FailRow(p) \/ RowStarted(p) \/ JobStarted(p)
    \/ StopSession(p) \/ Finalise(p) \/ JobStopped(p) \/ Finish(p)

Fairness == \A p \in Proc : WF_vars(Continue(p)) /\ WF_vars(Restart(p))

Spec == Init /\ [][Next]_vars /\ Fairness

-----------------------------------------------------------------------------
(* What must hold *)

PCs == {"idle", "readLock", "unlink", "create", "write", "insert", "open", "failRow",
        "started", "startJob", "stopping", "finalizing", "stopJob", "release"}

\* Every variable stays in its range: the lock is one file, the status a value the
\* CHECK constraint of migration 0002 admits.
TypeOK ==
    /\ lock \subseteq [by : Proc, life : Nat, written : BOOLEAN]
    /\ \A a, b \in lock : a = b
    /\ status \in [Recs -> {"none"} \cup Lifecycles] /\ job \in JobStates
    /\ up \in [Proc -> BOOLEAN] /\ life \in [Proc -> Nat]
    /\ pc \in [Proc -> PCs] /\ active \in [Proc -> {0} \cup Recs]
    /\ lifecycle \in [Proc -> Lifecycles]
    /\ session \in [Proc -> {"none", "live", "closed", "failed"}]
    /\ held \in [Proc -> BOOLEAN] /\ stray \in [Proc -> BOOLEAN] /\ kills \in Nat /\ faults \in Nat

\* A capture under way: of the session a service holds, or of a stray one, which no
\* service can reach and which ends with its device or its process.  A session that
\* failed stores nothing more (its stream: CaptureSession.AnsweredReleasesMicrophone).
Captures == {<<p, "held">> : p \in {q \in Proc : session[q] = "live"}}
                \cup {<<p, "stray">> : p \in {q \in Proc : stray[q]}}

Reachable(c) == c[2] = "held"

\* However the lock files race, go stale or are robbed, at most one process has a
\* capture under way that its service can pause, stop and show.  Stray captures are
\* excepted: OneRecordingPerRoot below, which does not hold, counts them too.
SingleCapture == \A c, d \in Captures : Reachable(c) /\ Reachable(d) => c = d

\* The row of a capture that a service holds is one that every preflight and the unique
\* index see, whichever of its updates failed or was skipped.  A stray capture has no
\* such row: its recording is FAILED, or ARMED with no process to hold it.
RowShowsCapture ==
    \A c \in Captures : Reachable(c) => status[active[c[1]]] \in ActiveStates

\* "One recording per data root, guarded twice" (phase-2-audio-capture.md:281): no two
\* captures under way, whoever still knows of them.
OneRecordingPerRoot == \A c, d \in Captures : c = d

\* A lock file of a living process belongs to a call or a capture of it.
NoLeakedLock ==
    \A l \in lock : OwnerAlive(l) => pc[l.by] # "idle" \/ active[l.by] # 0

\* "the job reaches RECORDING only after the stream is actually open [...]; it
\* reaches RECORDED only after every chunk [...] is final" (phase-2-audio-capture.md:
\* 270-273).  Of the audio, not of the rows: with updates skipped the job may be
\* RECORDING over a row that is still ARMED.
JobNeverAheadOfAudio ==
    [][/\ job # "RECORDING" /\ job' = "RECORDING" =>
              \E p \in Proc : active[p] # 0 /\ session[p] # "none"
       /\ job # "RECORDED" /\ job' = "RECORDED" =>
              \E p \in Proc : /\ active[p] # 0 /\ session[p] = "closed"
                              /\ status[active[p]] = "RECORDED"]_vars

\* A finished recording keeps its verdict, and the verdict RECORDED is given by a
\* process whose session closed without an error.
VerdictIsFinal ==
    [][\A n \in Recs :
           /\ status[n] \in {"RECORDED", "RECOVERABLE", "FAILED"} => status'[n] = status[n]
           /\ status[n] # "RECORDED" /\ status'[n] = "RECORDED" =>
                  \E p \in Proc : active[p] = n /\ session[p] = "closed"]_vars

\* "A crash must not leave the application permanently unable to record."
\* (tests/test_audio_service.py:751): a row whose recorder is gone is given up.
Orphan(n) == status[n] \in ActiveStates /\ \A p \in Proc : active[p] # n
CrashedRecordingIsGivenUp == \A n \in Recs : Orphan(n) ~> status[n] \notin ActiveStates
=============================================================================
