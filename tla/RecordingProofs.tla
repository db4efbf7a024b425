--------------------------- MODULE RecordingProofs ---------------------------
(***************************************************************************)
(* What TLAPS proves of RecordingService for every set of processes and    *)
(* every number of recordings, kills and faults.                           *)
(***************************************************************************)
EXTENDS RecordingService, TLAPS

-----------------------------------------------------------------------------
(* Types *)

LEMMA RecsAreNat == Recs \subseteq Nat /\ 0 \notin Recs
BY DEF Recs

LEMMA StatusType ==
  ASSUME TypeOK, NEW n, NEW s \in Lifecycles, SetStatus(n, s)
  PROVE  status' \in [Recs -> {"none"} \cup Lifecycles]
BY DEF TypeOK, SetStatus

LEMMA EnterType ==
  ASSUME TypeOK, NEW p \in Proc, NEW s \in Lifecycles, NEW next \in PCs,
         Enter(p, s, next)
  PROVE  /\ lifecycle' \in [Proc -> Lifecycles] /\ pc' \in [Proc -> PCs]
         /\ status' \in [Recs -> {"none"} \cup Lifecycles] /\ faults' \in Nat
<1>1. "idle" \in PCs
  BY DEF PCs
<1>2. CASE SetStatus(active[p], s) /\ Go(p, next) /\ UNCHANGED faults
  BY <1>2, StatusType DEF Enter, TypeOK, Go
<1>3. CASE Fault /\ UNCHANGED status /\ (Go(p, "idle") \/ Go(p, next))
  BY <1>1, <1>3 DEF Enter, TypeOK, Go, Fault
<1>. QED
  BY <1>2, <1>3 DEF Enter

LEMMA AdvanceType ==
  ASSUME TypeOK, NEW t \in JobStates, AdvanceJob(t)
  PROVE  job' \in JobStates /\ faults' \in Nat
BY DEF TypeOK, AdvanceJob, Fault, RouteStates

LEMMA StartKeepsTypes == ASSUME TypeOK, NEW p \in Proc, Start(p) PROVE TypeOK'
<1>. USE DEF TypeOK, Go, At, Free
<1>1. CASE Preflight(p)
  BY <1>1 DEF Preflight, PCs
<1>2. CASE ReadLock(p)
  BY <1>2 DEF ReadLock, PCs
<1>3. CASE ClearStale(p)
  BY <1>3 DEF ClearStale, PCs
<1>4. CASE CreateLock(p)
  <2>1. [by |-> p, life |-> life[p], written |-> FALSE]
            \in [by : Proc, life : Nat, written : BOOLEAN]
    OBVIOUS
  <2>2. /\ lock' \subseteq [by : Proc, life : Nat, written : BOOLEAN]
        /\ \A a, b \in lock' : a = b
    <3>1. CASE lock' = {[by |-> p, life |-> life[p], written |-> FALSE]}
      BY <2>1, <3>1
    <3>2. CASE UNCHANGED lock
      BY <3>2
    <3>. QED
      BY <1>4, <3>1, <3>2, Zenon DEF CreateLock
  <2>3. pc' \in [Proc -> PCs]
    BY <1>4 DEF CreateLock, PCs
  <2>. QED
    BY <1>4, <2>2, <2>3 DEF CreateLock
<1>5. CASE WriteLock(p)
  <2>1. \A l \in lock : [l EXCEPT !.written = TRUE]
                            \in [by : Proc, life : Nat, written : BOOLEAN]
    OBVIOUS
  <2>2. /\ lock' \subseteq [by : Proc, life : Nat, written : BOOLEAN]
        /\ \A a, b \in lock' : a = b
    BY <1>5, <2>1 DEF WriteLock
  <2>3. pc' \in [Proc -> PCs] /\ held' \in [Proc -> BOOLEAN]
    BY <1>5 DEF WriteLock, PCs
  <2>. QED
    BY <1>5, <2>2, <2>3 DEF WriteLock
<1>6. CASE InsertRow(p)
  <2>1. PICK n \in Recs : SetStatus(n, "ARMED") /\ active' = [active EXCEPT ![p] = n]
                            /\ Go(p, "open")
    BY <1>6 DEF InsertRow
  <2>2. "ARMED" \in Lifecycles /\ "open" \in PCs
    BY DEF Lifecycles, ActiveStates, PCs
  <2>3. status' \in [Recs -> {"none"} \cup Lifecycles]
    BY <2>1, <2>2, StatusType
  <2>. QED
    BY <1>6, <2>1, <2>2, <2>3 DEF InsertRow
<1>7. CASE InsertFails(p)
  BY <1>7 DEF InsertFails, Release, Fault, PCs
<1>8. CASE SetupFails(p)
  BY <1>8 DEF SetupFails, Release, Fault, PCs
<1>9. CASE OpenStream(p)
  BY <1>9 DEF OpenStream, PCs, Lifecycles, ActiveStates
<1>10. CASE OpenFails(p)
  <2>1. pc' \in [Proc -> PCs] /\ faults' \in Nat
    BY <1>10 DEF OpenFails, Fault, PCs
  <2>2. stray' = stray \/ stray' = [stray EXCEPT ![p] = TRUE]
    BY <1>10 DEF OpenFails
  <2>3. stray' \in [Proc -> BOOLEAN]
    BY <2>2
  <2>. QED
    BY <1>10, <2>1, <2>3 DEF OpenFails, Release
<1>11. CASE FailRow(p)
  <2>1. "FAILED" \in Lifecycles /\ "idle" \in PCs
    BY DEF Lifecycles, PCs
  <2>2. status' \in [Recs -> {"none"} \cup Lifecycles] /\ faults' \in Nat
    BY <1>11, <2>1, StatusType DEF FailRow, Fault
  <2>. QED
    BY <1>11, <2>1, <2>2 DEF FailRow
<1>12. CASE RowStarted(p)
  <2>1. "RECORDING" \in Lifecycles /\ "startJob" \in PCs
    BY DEF Lifecycles, ActiveStates, PCs
  <2>. QED
    BY <1>12, <2>1, EnterType DEF RowStarted
<1>13. CASE JobStarted(p)
  <2>1. "RECORDING" \in JobStates /\ "idle" \in PCs
    BY DEF JobStates, PCs
  <2>. QED
    BY <1>13, <2>1, AdvanceType DEF JobStarted
<1>. QED
  BY <1>1, <1>2, <1>3, <1>4, <1>5, <1>6, <1>7, <1>8, <1>9, <1>10, <1>11, <1>12, <1>13
     DEF Start

LEMMA StopKeepsTypes ==
  ASSUME TypeOK, NEW p \in Proc,
         Stop(p) \/ StopSession(p) \/ Finalise(p) \/ JobStopped(p) \/ Finish(p)
           \/ Abandon(p)
  PROVE  TypeOK'
<1>. USE DEF TypeOK, Go, At, Busy
<1>0. /\ {"STOPPING", "FINALIZING", "RECORDED", "RECOVERABLE", "IDLE"} \subseteq Lifecycles
      /\ {"idle", "stopping", "finalizing", "stopJob", "release"} \subseteq PCs
  BY DEF Lifecycles, ActiveStates, PCs
<1>a. CloseSession(p) => session' \in [Proc -> {"none", "live", "closed", "failed"}]
  BY DEF CloseSession
<1>1. CASE Stop(p)
  BY <1>0, <1>1, EnterType DEF Stop
<1>2. CASE StopSession(p)
  <2>1. CASE CloseSession(p) /\ Enter(p, "FINALIZING", "finalizing")
    BY <1>0, <1>a, <1>2, <2>1, EnterType DEF StopSession
  <2>2. CASE /\ Fault /\ session' = [session EXCEPT ![p] = "failed"]
             /\ Go(p, "idle") /\ UNCHANGED <<lifecycle, status>>
    BY <1>0, <1>2, <2>2 DEF StopSession, Fault
  <2>. QED
    BY <1>2, <2>1, <2>2 DEF StopSession
<1>3. CASE Finalise(p)
  <2>1. CASE Fault /\ Go(p, "idle") /\ UNCHANGED <<lifecycle, status>>
    BY <1>0, <1>3, <2>1 DEF Finalise, Fault
  <2>2. ASSUME NEW verified \in BOOLEAN,
               IF verified \/ stray[p] THEN UNCHANGED faults ELSE Fault,
               SetStatus(active[p], Outcome(p, verified)),
               lifecycle' = [lifecycle EXCEPT ![p] = Outcome(p, verified)],
               Go(p, "stopJob")
        PROVE  TypeOK'
    <3>1. Outcome(p, verified) \in Lifecycles
      BY <1>0 DEF Outcome
    <3>2. status' \in [Recs -> {"none"} \cup Lifecycles]
      BY <2>2, <3>1, StatusType
    <3>3. faults' \in Nat
      BY <2>2 DEF Fault
    <3>. QED
      BY <1>0, <1>3, <2>2, <3>1, <3>2, <3>3 DEF Finalise
  <2>. QED
    BY <1>3, <2>1, <2>2 DEF Finalise
<1>4. CASE JobStopped(p)
  <2>1. JobVerdict(p) \in JobStates
    BY DEF JobVerdict, JobStates
  <2>. QED
    BY <1>0, <1>4, <2>1, AdvanceType DEF JobStopped
<1>5. CASE Finish(p)
  BY <1>0, <1>5 DEF Finish, Release
<1>6. CASE Abandon(p)
  <2>1. CASE Enter(p, "RECOVERABLE", "stopJob")
    BY <1>0, <1>a, <1>6, <2>1, EnterType DEF Abandon
  <2>2. CASE /\ Fault /\ lifecycle' = [lifecycle EXCEPT ![p] = "RECOVERABLE"]
             /\ SetStatus(active[p], "RECOVERABLE") /\ Go(p, "idle")
    BY <1>0, <1>a, <1>6, <2>2, StatusType DEF Abandon, Fault
  <2>. QED
    BY <1>6, <2>1, <2>2 DEF Abandon
<1>. QED
  BY <1>1, <1>2, <1>3, <1>4, <1>5, <1>6

LEMMA OtherKeepsTypes ==
  ASSUME TypeOK, NEW p \in Proc,
         Pause(p) \/ Resume(p) \/ SessionFails(p) \/ Kill(p) \/ Restart(p)
  PROVE  TypeOK'
<1>. USE DEF TypeOK, Busy, At, Go
<1>0. {"RECORDING", "PAUSED", "IDLE"} \subseteq Lifecycles /\ "idle" \in PCs
  BY DEF Lifecycles, ActiveStates, PCs
<1>1. CASE Pause(p)
  BY <1>0, <1>1, EnterType DEF Pause
<1>2. CASE Resume(p)
  BY <1>0, <1>2, EnterType DEF Resume
<1>3. CASE SessionFails(p)
  <2>1. /\ session' = session \/ session' = [session EXCEPT ![p] = "failed"]
        /\ stray' = stray \/ stray' = [stray EXCEPT ![p] = FALSE]
        /\ faults' \in Nat
    BY <1>3 DEF SessionFails, Fault
  <2>2. session' \in [Proc -> {"none", "live", "closed", "failed"}]
    BY <2>1
  <2>3. stray' \in [Proc -> BOOLEAN]
    BY <2>1
  <2>. QED
    BY <1>3, <2>1, <2>2, <2>3 DEF SessionFails
<1>4. CASE Kill(p)
  BY <1>0, <1>4 DEF Kill
<1>5. CASE Restart(p)
  BY <1>5 DEF Restart, procVars
<1>. QED
  BY <1>1, <1>2, <1>3, <1>4, <1>5

\* Every value the service, its rows, its lock file and the job ever take is one
\* their declarations admit.
THEOREM ServiceTyped == Spec => []TypeOK
<1>1. Init => TypeOK
  BY DEF Init, TypeOK, Lifecycles, PCs, JobStates
<1>2. TypeOK /\ [Next]_vars => TypeOK'
  <2> SUFFICES ASSUME TypeOK, [Next]_vars PROVE TypeOK'
    OBVIOUS
  <2>1. CASE UNCHANGED vars
    BY <2>1 DEF TypeOK, vars, procVars
  <2>2. ASSUME NEW p \in Proc, Steps(p) PROVE TypeOK'
    BY <2>2, StartKeepsTypes, StopKeepsTypes, OtherKeepsTypes DEF Steps
  <2>. QED
    BY <2>1, <2>2 DEF Next
<1>. QED
  BY <1>1, <1>2, PTL DEF Spec

-----------------------------------------------------------------------------
(* One capture at a time *)

\* The calls that have a row, and those that have no session writing.
Holding == {"open", "failRow", "started", "stopping", "finalizing"}
Quiet == {"readLock", "unlink", "create", "write", "insert", "open", "failRow",
          "finalizing", "stopJob", "release"}
Closing == {"stopJob", "release"}

OneActiveRow == \A m, n \in ActiveRows : m = n
\* Between two calls, after the audit of an abandoned recording failed.
GivenUp(p) == /\ pc[p] = "idle" /\ lifecycle[p] = "RECOVERABLE"
              /\ session[p] # "live" /\ status[active[p]] = "RECOVERABLE"
RowExists(p) == active[p] # 0 => status[active[p]] # "none"
RowHeld(p) == active[p] # 0 /\ pc[p] \notin Closing =>
                  active[p] \in ActiveRows \/ GivenUp(p)
CallHolds(p) == pc[p] \in Holding => active[p] # 0
OneOwner == \A p, q \in Proc : active[p] # 0 /\ active[p] = active[q] => p = q
LiveOwned(p) == session[p] = "live" => active[p] # 0 /\ pc[p] \notin Quiet

Owns(p) == RowExists(p) /\ RowHeld(p) /\ CallHolds(p) /\ LiveOwned(p)

\* The strengthening of SingleCapture: every process that is not closing its
\* recording holds an active row of its own, and there is at most one such row.
IInv == OneActiveRow /\ OneOwner /\ \A p \in Proc : Owns(p)

\* What a step of p leaves alone: the other processes.
Local(p) == \A q \in Proc \ {p} :
                /\ active'[q] = active[q] /\ pc'[q] = pc[q]
                /\ session'[q] = session[q] /\ lifecycle'[q] = lifecycle[q]

\* The row of p is the only one it may write.
OwnRow(p) == \A n \in Recs : n = active[p] \/ status'[n] = status[n]

LEMMA OthersKeepTheirRows ==
  ASSUME TypeOK, IInv, NEW p \in Proc, Local(p), OwnRow(p),
         NEW q \in Proc, q # p
  PROVE  Owns(q)'
<1>1. /\ active'[q] = active[q] /\ pc'[q] = pc[q] /\ session'[q] = session[q]
      /\ lifecycle'[q] = lifecycle[q]
  BY DEF Local
<1>2. Owns(q)
  BY DEF IInv
<1>3. active[q] \in {0} \cup Recs
  BY DEF TypeOK
<1>4. active[q] # 0 => status'[active[q]] = status[active[q]]
  BY <1>3 DEF IInv, OneOwner, OwnRow
<1>5. active[q] # 0 /\ active[q] \in ActiveRows => active[q] \in ActiveRows'
  BY <1>4 DEF ActiveRows
<1>. QED
  BY <1>1, <1>2, <1>4, <1>5 DEF Owns, RowExists, RowHeld, GivenUp, CallHolds, LiveOwned

LEMMA StepKeepsIInv ==
  ASSUME TypeOK, IInv, NEW p \in Proc, Local(p), OwnRow(p),
         active'[p] \in {0, active[p]}, ActiveRows' \subseteq ActiveRows, Owns(p)'
  PROVE  IInv'
<1>1. OneActiveRow'
  BY DEF IInv, OneActiveRow
<1>2. OneOwner'
  BY DEF IInv, OneOwner, Local
<1>3. \A q \in Proc : Owns(q)'
  BY OthersKeepTheirRows
<1>. QED
  BY <1>1, <1>2, <1>3 DEF IInv

\* An active row that stays active, or any row that closes, adds no active row.
LEMMA RowWritten ==
  ASSUME TypeOK, NEW n \in Recs, NEW s \in Lifecycles, SetStatus(n, s),
         s \in ActiveStates => n \in ActiveRows
  PROVE  /\ ActiveRows' \subseteq ActiveRows /\ status'[n] = s
         /\ \A m \in Recs : m = n \/ status'[m] = status[m]
         /\ s \in ActiveStates => n \in ActiveRows'
<1>1. status' = [status EXCEPT ![n] = s] /\ status \in [Recs -> {"none"} \cup Lifecycles]
  BY DEF SetStatus, TypeOK
<1>2. status'[n] = s /\ \A m \in Recs : m = n \/ status'[m] = status[m]
  BY <1>1
<1>. QED
  BY <1>2 DEF ActiveRows

LEMMA SilentStep ==
  ASSUME TypeOK, IInv, NEW p \in Proc, Local(p), UNCHANGED status,
         active'[p] \in {0, active[p]}, Owns(p)'
  PROVE  IInv'
BY StepKeepsIInv DEF OwnRow, ActiveRows

\* Entering a lifecycle whose row is active, or closing the row.
LEMMA EnterKeepsIInv ==
  ASSUME TypeOK, IInv, NEW p \in Proc, NEW s \in Lifecycles, NEW next \in PCs,
         Enter(p, s, next), UNCHANGED active,
         \A q \in Proc \ {p} : session'[q] = session[q],
         active[p] # 0, active[p] \in ActiveRows, s # "none",
         s \notin ActiveStates => next \in Closing,
         session'[p] = "live" => next \notin Quiet
  PROVE  IInv'
<1>1. Owns(p) /\ active[p] \in Recs
  BY DEF IInv, TypeOK
<1>2. pc \in [Proc -> PCs] /\ lifecycle \in [Proc -> Lifecycles]
  BY DEF TypeOK
<1>0. \A q \in Proc \ {p} : lifecycle'[q] = lifecycle[q]
  BY <1>2 DEF Enter
<1>3. CASE SetStatus(active[p], s) /\ Go(p, next)
  <2>1. /\ ActiveRows' \subseteq ActiveRows /\ status'[active[p]] = s /\ OwnRow(p)
        /\ s \in ActiveStates => active[p] \in ActiveRows'
    BY <1>1, <1>3, RowWritten DEF OwnRow
  <2>2. pc'[p] = next /\ Local(p)
    BY <1>0, <1>2, <1>3 DEF Go, Local
  <2>3. Owns(p)'
    BY <2>1, <2>2 DEF Owns, RowExists, RowHeld, CallHolds, LiveOwned
  <2>. QED
    BY <2>1, <2>2, <2>3, StepKeepsIInv
<1>4. CASE (Go(p, "idle") \/ Go(p, next)) /\ UNCHANGED status
  <2>1. pc'[p] \in {"idle", next} /\ Local(p)
    BY <1>0, <1>2, <1>4 DEF Go, Local
  <2>2. active[p] \in ActiveRows'
    BY <1>4 DEF ActiveRows
  <2>3. Owns(p)'
    BY <1>1, <1>4, <2>1, <2>2
       DEF Owns, RowExists, RowHeld, CallHolds, LiveOwned, Holding, Quiet
  <2>. QED
    BY <1>4, <2>1, <2>3, SilentStep
<1>. QED
  BY <1>3, <1>4 DEF Enter

LEMMA AcquireKeepsIInv ==
  ASSUME TypeOK, IInv, NEW p \in Proc,
         Preflight(p) \/ ReadLock(p) \/ ClearStale(p) \/ CreateLock(p) \/ WriteLock(p)
           \/ InsertFails(p) \/ SetupFails(p) \/ OpenFails(p)
  PROVE  IInv'
<1>1. Owns(p) /\ pc \in [Proc -> PCs] /\ active \in [Proc -> {0} \cup Recs]
  BY DEF IInv, TypeOK
<1>2. UNCHANGED <<status, session, lifecycle>>
  BY DEF Preflight, ReadLock, ClearStale, CreateLock, WriteLock, InsertFails,
         SetupFails, OpenFails
<1>3. session[p] # "live"
  BY <1>1 DEF Owns, LiveOwned, Quiet, Free, At, Preflight, ReadLock, ClearStale,
              CreateLock, WriteLock, InsertFails, SetupFails, OpenFails
<1>4. \/ UNCHANGED active /\ Go(p, pc'[p]) /\ pc'[p] \notin Closing
            /\ pc[p] \notin Closing /\ (pc'[p] \in Holding => pc[p] \in Holding)
      \/ active' = [active EXCEPT ![p] = 0] /\ Go(p, "idle")
  BY <1>1 DEF Go, Closing, Holding, Free, At, Preflight, ReadLock, ClearStale,
              CreateLock, WriteLock, InsertFails, SetupFails, OpenFails
<1>5. Local(p) /\ active'[p] \in {0, active[p]}
  BY <1>1, <1>2, <1>4 DEF Local, Go
<1>6. ActiveRows' = ActiveRows
  BY <1>2 DEF ActiveRows
<1>7. Owns(p)'
  <2>1. active[p] # 0 => active[p] \in ActiveRows
    BY <1>1 DEF Owns, RowHeld, GivenUp, Closing, Free, At, Preflight, ReadLock, ClearStale,
                CreateLock, WriteLock, InsertFails, SetupFails, OpenFails
  <2>. QED
    BY <1>1, <1>2, <1>3, <1>4, <1>6, <2>1
       DEF Owns, RowExists, RowHeld, CallHolds, LiveOwned, Holding, Go
<1>. QED
  BY <1>2, <1>5, <1>7, SilentStep

\* The row is inserted where the unique index has none.
LEMMA InsertKeepsIInv ==
  ASSUME TypeOK, IInv, NEW p \in Proc, InsertRow(p) PROVE IInv'
<1>1. PICK n \in Recs : /\ Insertable(n) /\ SetStatus(n, "ARMED")
                        /\ active' = [active EXCEPT ![p] = n] /\ Go(p, "open")
  BY DEF InsertRow
<1>2. pc \in [Proc -> PCs] /\ active \in [Proc -> {0} \cup Recs]
        /\ status \in [Recs -> {"none"} \cup Lifecycles]
  BY DEF TypeOK
<1>3. ActiveRows = {} /\ status[n] = "none"
  BY <1>1 DEF Insertable
<1>4. status'[n] = "ARMED" /\ \A m \in Recs : m = n \/ status'[m] = status[m]
  BY <1>1, <1>2 DEF SetStatus
<1>5. ActiveRows' = {n}
  BY <1>3, <1>4 DEF ActiveRows, ActiveStates
<1>6. \A q \in Proc : active[q] # n
  BY <1>3, RecsAreNat DEF IInv, Owns, RowExists
<1>7. active'[p] = n /\ pc'[p] = "open" /\ UNCHANGED session /\ Local(p)
  BY <1>1, <1>2 DEF InsertRow, Go, Local
<1>8. Owns(p)'
  <2>1. session[p] # "live"
    BY DEF IInv, Owns, LiveOwned, Quiet, InsertRow, At
  <2>. QED
    BY <1>4, <1>5, <1>7, <2>1, RecsAreNat
       DEF Owns, RowExists, RowHeld, CallHolds, LiveOwned
<1>9. \A q \in Proc \ {p} : Owns(q)'
  <2> TAKE q \in Proc \ {p}
  <2>1. /\ active'[q] = active[q] /\ pc'[q] = pc[q] /\ session'[q] = session[q]
        /\ lifecycle'[q] = lifecycle[q]
    BY <1>7 DEF Local
  <2>2. Owns(q)
    BY DEF IInv
  <2>3. active[q] # 0 => status'[active[q]] = status[active[q]]
    BY <1>2, <1>4, <1>6
  <2>4. active[q] # 0 => pc[q] \in Closing \/ GivenUp(q)
    BY <1>3, <2>2 DEF Owns, RowHeld
  <2>. QED
    BY <2>1, <2>2, <2>3, <2>4 DEF Owns, RowExists, RowHeld, GivenUp, CallHolds, LiveOwned
<1>10. OneOwner'
  BY <1>6, <1>7 DEF IInv, OneOwner, Local
<1>11. OneActiveRow'
  BY <1>5 DEF OneActiveRow
<1>. QED
  BY <1>8, <1>9, <1>10, <1>11 DEF IInv

\* The steps of start that hold a row.
LEMMA OpenKeepsIInv ==
  ASSUME TypeOK, TypeOK', IInv, NEW p \in Proc,
         OpenStream(p) \/ FailRow(p) \/ RowStarted(p) \/ JobStarted(p)
  PROVE  IInv'
<1>1. /\ Owns(p) /\ pc \in [Proc -> PCs] /\ active \in [Proc -> {0} \cup Recs]
      /\ session \in [Proc -> {"none", "live", "closed", "failed"}]
      /\ lifecycle \in [Proc -> Lifecycles]
  BY DEF IInv, TypeOK
<1>2. CASE OpenStream(p)
  <2>1. pc'[p] = "started" /\ Local(p) /\ active[p] # 0 /\ active[p] \in ActiveRows
    BY <1>1, <1>2
       DEF OpenStream, At, Go, Local, Owns, CallHolds, RowHeld, GivenUp, Holding, Closing
  <2>2. ActiveRows' = ActiveRows
    BY <1>2 DEF OpenStream, ActiveRows
  <2>3. Owns(p)'
    BY <1>1, <1>2, <2>1, <2>2
       DEF OpenStream, Owns, RowExists, RowHeld, CallHolds, LiveOwned, Quiet
  <2>. QED
    BY <1>2, <2>1, <2>3, SilentStep DEF OpenStream
<1>3. CASE FailRow(p)
  <2>1. /\ pc'[p] = "idle" /\ active'[p] = 0 /\ Local(p) /\ active[p] \in Recs
        /\ session[p] # "live" /\ UNCHANGED session
    BY <1>1, <1>3
       DEF FailRow, At, Go, Local, Owns, CallHolds, Holding, LiveOwned, Quiet
  <2>2. Owns(p)'
    BY <2>1 DEF Owns, RowExists, RowHeld, CallHolds, LiveOwned, Holding
  <2>3. CASE SetStatus(active[p], "FAILED")
    <3>1. "FAILED" \in Lifecycles /\ "FAILED" \notin ActiveStates
      BY DEF Lifecycles, ActiveStates
    <3>2. ActiveRows' \subseteq ActiveRows /\ OwnRow(p)
      BY <2>1, <2>3, <3>1, RowWritten DEF OwnRow
    <3>. QED
      BY <2>1, <2>2, <3>2, StepKeepsIInv
  <2>4. CASE UNCHANGED status
    BY <2>1, <2>2, <2>4, SilentStep
  <2>. QED
    BY <1>3, <2>3, <2>4 DEF FailRow
<1>4. CASE RowStarted(p)
  <2>1. /\ "RECORDING" \in Lifecycles /\ "RECORDING" \in ActiveStates
        /\ "startJob" \in PCs \ Quiet
    BY DEF Lifecycles, ActiveStates, PCs, Quiet
  <2>2. active[p] # 0 /\ active[p] \in ActiveRows
    BY <1>1, <1>4 DEF RowStarted, At, Owns, CallHolds, RowHeld, GivenUp, Holding, Closing
  <2>3. UNCHANGED <<active, session>> /\ Enter(p, "RECORDING", "startJob")
    BY <1>4 DEF RowStarted
  <2>. QED
    BY <2>1, <2>2, <2>3, EnterKeepsIInv
<1>5. CASE JobStarted(p)
  <2>1. pc'[p] = "idle" /\ Local(p) /\ (active[p] # 0 => active[p] \in ActiveRows)
    BY <1>1, <1>5 DEF JobStarted, At, Go, Local, Closing, Owns, RowHeld, GivenUp
  <2>2. ActiveRows' = ActiveRows
    BY <1>5 DEF JobStarted, ActiveRows
  <2>3. Owns(p)'
    BY <1>1, <1>5, <2>1, <2>2
       DEF JobStarted, Owns, RowExists, RowHeld, CallHolds, LiveOwned, Quiet, Holding
  <2>. QED
    BY <1>5, <2>1, <2>3, SilentStep DEF JobStarted
<1>. QED
  BY <1>2, <1>3, <1>4, <1>5

LEMMA PauseKeepsIInv ==
  ASSUME TypeOK, IInv, NEW p \in Proc, Pause(p) \/ Resume(p) \/ Stop(p)
  PROVE  IInv'
<1>1. active[p] # 0 /\ active[p] \in ActiveRows /\ UNCHANGED <<active, session>>
  BY DEF Pause, Resume, Stop, Busy, At, Closing, IInv, Owns, RowHeld, GivenUp
<1>2. /\ {"PAUSED", "RECORDING", "STOPPING"} \subseteq Lifecycles \cap ActiveStates
      /\ {"idle", "stopping"} \subseteq PCs \ Quiet
  BY DEF Lifecycles, ActiveStates, PCs, Quiet
<1>3. CASE Pause(p)
  BY <1>1, <1>2, <1>3, EnterKeepsIInv DEF Pause
<1>4. CASE Resume(p)
  BY <1>1, <1>2, <1>4, EnterKeepsIInv DEF Resume
<1>5. CASE Stop(p)
  BY <1>1, <1>2, <1>5, EnterKeepsIInv DEF Stop
<1>. QED
  BY <1>3, <1>4, <1>5

LEMMA AbandonKeepsIInv ==
  ASSUME TypeOK, IInv, NEW p \in Proc, Abandon(p)
  PROVE  IInv'
<1>1. /\ active[p] # 0 /\ active[p] \in Recs /\ UNCHANGED active /\ pc[p] = "idle"
      /\ pc \in [Proc -> PCs] /\ lifecycle \in [Proc -> Lifecycles]
      /\ session \in [Proc -> {"none", "live", "closed", "failed"}]
  BY DEF Abandon, Busy, At, TypeOK
<1>2. (\A q \in Proc \ {p} : session'[q] = session[q]) /\ session'[p] # "live"
  BY <1>1 DEF Abandon, CloseSession
<1>3. "RECOVERABLE" \in Lifecycles \ ActiveStates
  BY DEF Lifecycles, ActiveStates
<1>4. /\ pc'[p] \in {"idle", "stopJob"} /\ lifecycle'[p] = "RECOVERABLE" /\ Local(p)
      /\ status' = status \/ SetStatus(active[p], "RECOVERABLE")
      /\ \/ pc'[p] = "idle" /\ SetStatus(active[p], "RECOVERABLE")
         \/ UNCHANGED status
         \/ pc'[p] = "stopJob"
  BY <1>1, <1>2 DEF Abandon, Enter, Go, Local
<1>5. CASE SetStatus(active[p], "RECOVERABLE")
  <2>1. /\ ActiveRows' \subseteq ActiveRows /\ OwnRow(p)
        /\ status'[active[p]] = "RECOVERABLE"
    BY <1>1, <1>3, <1>5, RowWritten DEF OwnRow
  <2>2. Owns(p)'
    BY <1>1, <1>2, <1>4, <2>1
       DEF Owns, RowExists, RowHeld, GivenUp, CallHolds, LiveOwned, Holding, Closing
  <2>. QED
    BY <1>1, <1>4, <2>1, <2>2, StepKeepsIInv
<1>6. CASE UNCHANGED status
  <2>1. ActiveRows' = ActiveRows /\ Owns(p)
    BY <1>6 DEF ActiveRows, IInv
  <2>2. Owns(p)'
    BY <1>1, <1>2, <1>4, <1>6, <2>1
       DEF Owns, RowExists, RowHeld, GivenUp, CallHolds, LiveOwned, Holding, Closing
  <2>. QED
    BY <1>1, <1>4, <1>6, <2>2, SilentStep
<1>. QED
  BY <1>4, <1>5, <1>6

LEMMA FinishKeepsIInv ==
  ASSUME TypeOK, IInv, NEW p \in Proc,
         StopSession(p) \/ Finalise(p) \/ JobStopped(p) \/ Finish(p)
  PROVE  IInv'
<1>1. /\ Owns(p) /\ pc \in [Proc -> PCs] /\ active \in [Proc -> {0} \cup Recs]
      /\ session \in [Proc -> {"none", "live", "closed", "failed"}]
      /\ lifecycle \in [Proc -> Lifecycles]
  BY DEF IInv, TypeOK
<1>2. CASE StopSession(p)
  <2>1. active[p] # 0 /\ active[p] \in ActiveRows /\ UNCHANGED active
    BY <1>1, <1>2
       DEF StopSession, At, Owns, CallHolds, RowHeld, GivenUp, Holding, Closing
  <2>2. (\A q \in Proc \ {p} : session'[q] = session[q]) /\ session'[p] # "live"
    BY <1>1, <1>2 DEF StopSession, CloseSession
  <2>3. CASE Enter(p, "FINALIZING", "finalizing")
    <3>1. "FINALIZING" \in Lifecycles \cap ActiveStates /\ "finalizing" \in PCs
      BY DEF Lifecycles, ActiveStates, PCs
    <3>. QED
      BY <2>1, <2>2, <2>3, <3>1, EnterKeepsIInv
  <2>4. CASE Go(p, "idle") /\ UNCHANGED <<lifecycle, status>>
    <3>1. pc'[p] = "idle" /\ Local(p) /\ ActiveRows' = ActiveRows
      BY <1>1, <2>1, <2>2, <2>4 DEF Go, Local, ActiveRows
    <3>2. Owns(p)'
      BY <1>1, <2>1, <2>2, <2>4, <3>1
         DEF Owns, RowExists, RowHeld, CallHolds, LiveOwned, Holding
    <3>. QED
      BY <2>1, <2>4, <3>1, <3>2, SilentStep
  <2>. QED
    BY <1>2, <2>3, <2>4 DEF StopSession
<1>3. CASE Finalise(p)
  <2>1. /\ active[p] \in Recs /\ active[p] # 0 /\ active[p] \in ActiveRows
        /\ session[p] # "live" /\ UNCHANGED <<active, session>>
    BY <1>1, <1>3, RecsAreNat
       DEF Finalise, At, Owns, CallHolds, RowHeld, GivenUp, LiveOwned, Holding, Closing,
           Quiet
  <2>2. CASE Go(p, "idle") /\ UNCHANGED <<lifecycle, status>>
    <3>1. pc'[p] = "idle" /\ Local(p) /\ ActiveRows' = ActiveRows
      BY <1>1, <2>1, <2>2 DEF Go, Local, ActiveRows
    <3>2. Owns(p)'
      BY <1>1, <2>1, <2>2, <3>1
         DEF Owns, RowExists, RowHeld, CallHolds, LiveOwned, Holding
    <3>. QED
      BY <2>1, <2>2, <3>1, <3>2, SilentStep
  <2>3. ASSUME NEW verified \in BOOLEAN, SetStatus(active[p], Outcome(p, verified)),
               lifecycle' = [lifecycle EXCEPT ![p] = Outcome(p, verified)],
               Go(p, "stopJob")
        PROVE  IInv'
    <3>1. Outcome(p, verified) \in Lifecycles \ ActiveStates
            /\ Outcome(p, verified) # "none"
      BY DEF Outcome, Lifecycles, ActiveStates
    <3>2. /\ ActiveRows' \subseteq ActiveRows /\ OwnRow(p)
          /\ status'[active[p]] # "none"
      BY <2>1, <2>3, <3>1, RowWritten DEF OwnRow
    <3>3. pc'[p] = "stopJob" /\ Local(p)
      BY <1>1, <2>1, <2>3 DEF Go, Local
    <3>4. Owns(p)'
      BY <2>1, <3>2, <3>3
         DEF Owns, RowExists, RowHeld, CallHolds, LiveOwned, Holding, Closing
    <3>. QED
      BY <2>1, <3>2, <3>3, <3>4, StepKeepsIInv
  <2>. QED
    BY <1>3, <2>2, <2>3 DEF Finalise
<1>4. CASE JobStopped(p)
  <2>1. /\ pc'[p] = "release" /\ Local(p) /\ session[p] # "live"
        /\ UNCHANGED <<active, session, status>>
    BY <1>1, <1>4 DEF JobStopped, At, Go, Local, Owns, LiveOwned, Quiet
  <2>2. Owns(p)'
    BY <1>1, <2>1 DEF Owns, RowExists, RowHeld, CallHolds, LiveOwned, Holding, Closing
  <2>. QED
    BY <2>1, <2>2, SilentStep
<1>5. CASE Finish(p)
  <2>1. /\ pc'[p] = "idle" /\ Local(p) /\ active'[p] = 0 /\ session'[p] = "none"
        /\ UNCHANGED status
    BY <1>1, <1>5 DEF Finish, At, Go, Local
  <2>2. Owns(p)'
    BY <2>1 DEF Owns, RowExists, RowHeld, CallHolds, LiveOwned, Holding
  <2>. QED
    BY <2>1, <2>2, SilentStep
<1>. QED
  BY <1>2, <1>3, <1>4, <1>5

LEMMA EnvironmentKeepsIInv ==
  ASSUME TypeOK, IInv, NEW p \in Proc, SessionFails(p) \/ Kill(p) \/ Restart(p)
  PROVE  IInv'
<1>1. /\ Owns(p) /\ pc \in [Proc -> PCs] /\ active \in [Proc -> {0} \cup Recs]
      /\ session \in [Proc -> {"none", "live", "closed", "failed"}]
      /\ lifecycle \in [Proc -> Lifecycles]
  BY DEF IInv, TypeOK
<1>2. UNCHANGED status /\ ActiveRows' = ActiveRows
  BY DEF SessionFails, Kill, Restart, ActiveRows
<1>3. CASE SessionFails(p)
  <2>1. /\ Local(p) /\ UNCHANGED <<pc, active, lifecycle>>
        /\ session'[p] \in {"failed", session[p]}
    BY <1>1, <1>3 DEF SessionFails, Local
  <2>2. Owns(p)'
    BY <1>1, <1>2, <2>1 DEF Owns, RowExists, RowHeld, GivenUp, CallHolds, LiveOwned
  <2>. QED
    BY <1>2, <2>1, <2>2, SilentStep
<1>4. CASE Kill(p)
  <2>1. Local(p) /\ pc'[p] = "idle" /\ active'[p] = 0 /\ session'[p] = "none"
    BY <1>1, <1>4 DEF Kill, Local
  <2>2. Owns(p)'
    BY <2>1 DEF Owns, RowExists, RowHeld, CallHolds, LiveOwned, Holding
  <2>. QED
    BY <1>2, <2>1, <2>2, SilentStep
<1>5. CASE Restart(p)
  <2>1. Local(p) /\ UNCHANGED <<pc, active, session, lifecycle>>
    BY <1>5 DEF Restart, procVars, Local
  <2>2. Owns(p)'
    BY <1>1, <1>2, <2>1 DEF Owns, RowExists, RowHeld, GivenUp, CallHolds, LiveOwned
  <2>. QED
    BY <1>2, <2>1, <2>2, SilentStep
<1>. QED
  BY <1>3, <1>4, <1>5

LEMMA Invariance == Spec => []IInv
<1>1. Init => IInv
  BY DEF Init, IInv, OneActiveRow, ActiveRows, ActiveStates, OneOwner, Owns, RowExists,
         RowHeld, CallHolds, LiveOwned, Holding
<1>2. TypeOK /\ TypeOK' /\ IInv /\ [Next]_vars => IInv'
  <2> SUFFICES ASSUME TypeOK, TypeOK', IInv, [Next]_vars PROVE IInv'
    OBVIOUS
  <2>1. CASE UNCHANGED vars
    BY <2>1 DEF vars, procVars, IInv, OneActiveRow, ActiveRows, OneOwner, Owns,
                RowExists, RowHeld, GivenUp, CallHolds, LiveOwned
  <2>2. ASSUME NEW p \in Proc, Steps(p) PROVE IInv'
    BY <2>2, AcquireKeepsIInv, InsertKeepsIInv, OpenKeepsIInv, PauseKeepsIInv,
       AbandonKeepsIInv, FinishKeepsIInv, EnvironmentKeepsIInv DEF Steps, Start
  <2>. QED
    BY <2>1, <2>2 DEF Next
<1>. QED
  BY <1>1, <1>2, ServiceTyped, PTL DEF Spec

LEMMA CapturesHaveRows ==
  ASSUME IInv, NEW c \in Captures, Reachable(c)
  PROVE  c = <<c[1], "held">> /\ c[1] \in Proc /\ active[c[1]] \in ActiveRows
           /\ active[c[1]] # 0
<1>1. PICK p \in Proc : c = <<p, "held">> /\ session[p] = "live"
  BY DEF Captures, Reachable
<1>2. active[p] # 0 /\ active[p] \in ActiveRows
  BY <1>1 DEF IInv, Owns, LiveOwned, RowHeld, GivenUp, Closing, Quiet
<1>. QED
  BY <1>1, <1>2

\* However their lock files race, are stolen or go stale, two processes never have a
\* capture that their services hold under way at once: the unique index alone
\* guarantees it.  It says nothing of a stray capture, which no index knows.
THEOREM OneCaptureAtATime == Spec => []SingleCapture
<1>1. IInv => SingleCapture
  <2> SUFFICES ASSUME IInv, NEW c \in Captures, NEW d \in Captures,
                      Reachable(c), Reachable(d)
               PROVE  c = d
    BY DEF SingleCapture
  <2>1. /\ c = <<c[1], "held">> /\ c[1] \in Proc /\ active[c[1]] \in ActiveRows
        /\ active[c[1]] # 0
    BY CapturesHaveRows
  <2>2. d = <<d[1], "held">> /\ d[1] \in Proc /\ active[d[1]] \in ActiveRows
    BY CapturesHaveRows
  <2>3. c[1] = d[1]
    BY <2>1, <2>2 DEF IInv, OneActiveRow, OneOwner
  <2>. QED
    BY <2>1, <2>2, <2>3
<1>. QED
  BY <1>1, Invariance, PTL

\* A capture that a service holds is never behind a row that a preflight of any process
\* would take for finished, even when updates of the row were lost or skipped.
THEOREM CapturesAreVisible == Spec => []RowShowsCapture
<1>1. IInv => RowShowsCapture
  BY CapturesHaveRows DEF RowShowsCapture, ActiveRows
<1>. QED
  BY <1>1, Invariance, PTL

-----------------------------------------------------------------------------
(* The verdict of a recording *)

\* A call touches its own process.
LEMMA StepsAreLocal ==
  ASSUME TypeOK, NEW p \in Proc, Steps(p), NEW q \in Proc \ {p}
  PROVE  /\ active'[q] = active[q] /\ pc'[q] = pc[q] /\ lifecycle'[q] = lifecycle[q]
         /\ session'[q] = session[q] /\ up'[q] = up[q] /\ life'[q] = life[q]
<1>. USE DEF TypeOK, Go, Enter
<1>1. CASE Start(p)
  BY <1>1 DEF Start, Preflight, ReadLock, ClearStale, CreateLock, WriteLock, InsertRow,
         InsertFails, SetupFails, OpenStream, OpenFails, FailRow, RowStarted, JobStarted
<1>2. CASE Pause(p) \/ Resume(p) \/ SessionFails(p) \/ Stop(p) \/ Abandon(p)
  BY <1>2 DEF Pause, Resume, SessionFails, Stop, Abandon, CloseSession
<1>3. CASE StopSession(p) \/ Finalise(p) \/ JobStopped(p) \/ Finish(p)
  BY <1>3 DEF StopSession, Finalise, JobStopped, Finish, CloseSession
<1>4. CASE Kill(p) \/ Restart(p)
  BY <1>4 DEF Kill, Restart, procVars
<1>. QED
  BY <1>1, <1>2, <1>3, <1>4 DEF Steps

\* What a step of p may do to a row: make it, or move the active row that p holds.
RowMoves(p, n) ==
    \/ status'[n] = status[n]
    \/ status[n] = "none" /\ status'[n] = "ARMED"
    \/ /\ n = active[p] /\ n \in ActiveRows /\ status'[n] \notin {"none", "ARMED"}
       /\ status'[n] = "RECORDED" => session[p] = "closed"
       /\ status'[n] = "FAILED" => pc[p] = "failRow"

LEMMA EnterMovesRow ==
  ASSUME TypeOK, IInv, NEW p \in Proc, NEW s, NEW next, Enter(p, s, next),
         s \notin {"none", "ARMED", "RECORDED", "FAILED"},
         active[p] \in ActiveRows, NEW n \in Recs
  PROVE  RowMoves(p, n)
<1>1. status' = status \/ status' = [status EXCEPT ![active[p]] = s]
  BY DEF Enter, SetStatus
<1>. QED
  BY <1>1 DEF RowMoves, TypeOK

LEMMA RowsMoveOn ==
  ASSUME TypeOK, IInv, NEW p \in Proc, Steps(p), NEW n \in Recs
  PROVE  RowMoves(p, n)
<1>0. Owns(p) /\ status \in [Recs -> {"none"} \cup Lifecycles]
  BY DEF IInv, TypeOK
<1>a. CASE UNCHANGED status
  BY <1>a DEF RowMoves
<1>b. ASSUME pc[p] \in Holding PROVE active[p] \in ActiveRows /\ active[p] # 0
  BY <1>0, <1>b DEF Owns, RowHeld, GivenUp, CallHolds, Holding, Closing
<1>1. CASE InsertRow(p)
  BY <1>0, <1>1 DEF InsertRow, Insertable, SetStatus, RowMoves
<1>2. CASE FailRow(p)
  <2>1. active[p] \in ActiveRows /\ pc[p] = "failRow"
    BY <1>b, <1>2 DEF FailRow, At, Holding
  <2>. QED
    BY <1>0, <1>2, <2>1 DEF FailRow, SetStatus, RowMoves
<1>3. CASE RowStarted(p)
  <2>1. active[p] \in ActiveRows
    BY <1>b, <1>3 DEF RowStarted, At, Holding
  <2>. QED
    BY <1>3, <2>1, EnterMovesRow DEF RowStarted
<1>4. CASE Pause(p) \/ Resume(p) \/ Stop(p)
  <2>1. active[p] \in ActiveRows
    BY <1>0, <1>4
       DEF Pause, Resume, Stop, Busy, At, Closing, Owns, RowHeld, GivenUp
  <2>. QED
    BY <1>4, <2>1, EnterMovesRow DEF Pause, Resume, Stop
<1>8. CASE Abandon(p)
  <2>1. active[p] \in ActiveRows \/ status[active[p]] = "RECOVERABLE"
    BY <1>0, <1>8 DEF Abandon, Busy, At, Closing, Owns, RowHeld, GivenUp
  <2>2. status' = status \/ SetStatus(active[p], "RECOVERABLE")
    BY <1>8 DEF Abandon, Enter
  <2>. QED
    BY <1>0, <2>1, <2>2 DEF SetStatus, RowMoves
<1>5. CASE StopSession(p)
  <2>1. active[p] \in ActiveRows
    BY <1>b, <1>5 DEF StopSession, At, Holding
  <2>. QED
    BY <1>a, <1>5, <2>1, EnterMovesRow DEF StopSession
<1>6. CASE Finalise(p)
  <2>1. active[p] \in ActiveRows
    BY <1>b, <1>6 DEF Finalise, At, Holding
  <2>2. ASSUME NEW verified \in BOOLEAN, SetStatus(active[p], Outcome(p, verified))
        PROVE  RowMoves(p, n)
    <3>1. /\ Outcome(p, verified) \in {"RECORDED", "RECOVERABLE"}
          /\ Outcome(p, verified) = "RECORDED" => session[p] = "closed"
      BY DEF Outcome
    <3>. QED
      BY <1>0, <2>1, <2>2, <3>1 DEF SetStatus, RowMoves
  <2>. QED
    BY <1>a, <1>6, <2>2 DEF Finalise
<1>7. UNCHANGED status \/ InsertRow(p) \/ FailRow(p) \/ RowStarted(p)
        \/ Pause(p) \/ Resume(p) \/ Stop(p) \/ Abandon(p) \/ StopSession(p) \/ Finalise(p)
  BY DEF Steps, Start, Preflight, ReadLock, ClearStale, CreateLock, WriteLock, InsertFails,
         SetupFails, OpenStream, OpenFails, JobStarted, SessionFails, JobStopped, Finish,
         Kill, Restart
<1>. QED
  BY <1>a, <1>1, <1>2, <1>3, <1>4, <1>5, <1>6, <1>7, <1>8

\* A recording that was given its verdict keeps it whatever later calls and races do,
\* and RECORDED is said only over a session that closed without an error.
THEOREM VerdictsAreFinal == Spec => VerdictIsFinal
<1>1. ASSUME TypeOK, IInv, NEW p \in Proc, Steps(p), NEW n \in Recs
      PROVE  /\ status[n] \in {"RECORDED", "RECOVERABLE", "FAILED"} => status'[n] = status[n]
             /\ status[n] # "RECORDED" /\ status'[n] = "RECORDED" =>
                    active[p] = n /\ session[p] = "closed"
  BY <1>1, RowsMoveOn DEF RowMoves, ActiveRows, ActiveStates
<1>2. TypeOK /\ IInv /\ [Next]_vars =>
          [\A n \in Recs :
             /\ status[n] \in {"RECORDED", "RECOVERABLE", "FAILED"} => status'[n] = status[n]
             /\ status[n] # "RECORDED" /\ status'[n] = "RECORDED" =>
                    \E p \in Proc : active[p] = n /\ session[p] = "closed"]_vars
  BY <1>1 DEF Next
<1>. QED
  BY <1>2, ServiceTyped, Invariance, PTL DEF Spec, VerdictIsFinal

-----------------------------------------------------------------------------
(* The job and the audio *)

\* The steps of a call before it has a row, and those between row and stream.
Rowless == {"idle", "readLock", "unlink", "create", "write", "insert"}
Opening == {"open", "failRow"}

\* What each step of a call knows of the recording it holds.
AudioFits(p) ==
    /\ pc[p] \notin Rowless => active[p] # 0
    /\ active[p] # 0 /\ pc[p] \notin Opening => session[p] # "none"
    /\ pc[p] = "stopJob" /\ lifecycle[p] = "RECORDED" =>
           session[p] = "closed" /\ status[active[p]] = "RECORDED"

\* The strengthening of JobNeverAheadOfAudio: the stream or the verdict that justifies
\* the step the job is about to make is there, and no other step takes it away.
JobInv == \A p \in Proc : AudioFits(p)

LEMMA OthersKeepFitting ==
  ASSUME TypeOK, IInv, NEW p \in Proc, Steps(p), NEW q \in Proc \ {p}, AudioFits(q)
  PROVE  AudioFits(q)'
<1>1. /\ active'[q] = active[q] /\ pc'[q] = pc[q] /\ lifecycle'[q] = lifecycle[q]
      /\ session'[q] = session[q]
  BY StepsAreLocal
<1>2. ASSUME active[q] # 0 PROVE status'[active[q]] = status[active[q]]
  <2>1. active[q] \in Recs /\ active[q] # active[p] /\ status[active[q]] # "none"
    BY <1>2 DEF TypeOK, IInv, OneOwner, Owns, RowExists
  <2>. QED
    BY <2>1, RowsMoveOn DEF RowMoves
<1>. QED
  BY <1>1, <1>2 DEF AudioFits, Rowless

LEMMA EnterFits ==
  ASSUME TypeOK, NEW p \in Proc, NEW s, NEW next \in PCs, Enter(p, s, next),
         active[p] # 0, active'[p] = active[p], session'[p] # "none",
         next \notin Opening, s # "RECORDED"
  PROVE  AudioFits(p)'
<1>1. lifecycle'[p] = s /\ pc'[p] \in {"idle", next}
  BY DEF Enter, Go, TypeOK
<1>. QED
  BY <1>1 DEF AudioFits, Opening

LEMMA OwnAudioFits ==
  ASSUME TypeOK, IInv, NEW p \in Proc, Steps(p), AudioFits(p)
  PROVE  AudioFits(p)'
<1>. USE DEF Rowless, Opening
<1>0. /\ Owns(p) /\ pc \in [Proc -> PCs] /\ active \in [Proc -> {0} \cup Recs]
      /\ session \in [Proc -> {"none", "live", "closed", "failed"}]
      /\ lifecycle \in [Proc -> Lifecycles] /\ status \in [Recs -> {"none"} \cup Lifecycles]
  BY DEF IInv, TypeOK
<1>1. CASE Preflight(p) \/ ReadLock(p) \/ ClearStale(p) \/ CreateLock(p) \/ WriteLock(p)
             \/ InsertFails(p) \/ JobStarted(p)
  <2>1. /\ pc[p] \notin Opening /\ pc'[p] \in Rowless
        /\ UNCHANGED <<active, lifecycle, session, status>>
    BY <1>0, <1>1 DEF Preflight, Free, At, ReadLock, ClearStale, CreateLock, WriteLock,
         InsertFails, JobStarted, Go
  <2>. QED
    BY <2>1 DEF AudioFits
<1>2. CASE SetupFails(p) \/ FailRow(p) \/ Finish(p) \/ Kill(p)
  BY <1>0, <1>2 DEF SetupFails, FailRow, Finish, Kill, Go, AudioFits
<1>3. CASE InsertRow(p)
  <2>1. PICK n \in Recs : active' = [active EXCEPT ![p] = n] /\ Go(p, "open")
    BY <1>3 DEF InsertRow
  <2>. QED
    BY <1>0, <2>1, RecsAreNat DEF Go, AudioFits
<1>4. CASE OpenStream(p) \/ OpenFails(p)
  <2>1. active[p] # 0 /\ UNCHANGED active
    BY <1>4 DEF AudioFits, OpenStream, OpenFails, At
  <2>. QED
    BY <1>0, <1>4, <2>1 DEF OpenStream, OpenFails, Go, AudioFits
<1>5. CASE RowStarted(p)
  <2>1. /\ active[p] # 0 /\ session[p] # "none" /\ UNCHANGED <<active, session>>
        /\ Enter(p, "RECORDING", "startJob") /\ "startJob" \in PCs
    BY <1>5 DEF RowStarted, At, AudioFits, PCs
  <2>. QED
    BY <2>1, EnterFits
<1>6. CASE Pause(p) \/ Resume(p) \/ Stop(p)
  <2>1. /\ active[p] # 0 /\ session[p] # "none" /\ UNCHANGED <<active, session>>
        /\ {"idle", "stopping"} \subseteq PCs
    BY <1>6 DEF Pause, Resume, Stop, Busy, At, AudioFits, PCs
  <2>. QED
    BY <1>6, <2>1, EnterFits DEF Pause, Resume, Stop
<1>7. CASE Abandon(p)
  <2>1. /\ active[p] # 0 /\ session[p] # "none" /\ UNCHANGED active /\ CloseSession(p)
        /\ "stopJob" \in PCs
    BY <1>7 DEF Abandon, Busy, At, AudioFits, PCs
  <2>2. session'[p] # "none"
    BY <1>0, <2>1 DEF CloseSession
  <2>3. CASE Enter(p, "RECOVERABLE", "stopJob")
    BY <2>1, <2>2, <2>3, EnterFits
  <2>4. CASE Go(p, "idle")
    BY <1>0, <2>1, <2>2, <2>4 DEF Go, AudioFits
  <2>. QED
    BY <1>7, <2>3, <2>4 DEF Abandon
<1>8. CASE StopSession(p)
  <2>1. active[p] # 0 /\ session[p] # "none" /\ UNCHANGED active /\ "finalizing" \in PCs
    BY <1>8 DEF StopSession, At, AudioFits, PCs
  <2>2. session'[p] # "none"
    BY <1>0, <1>8, <2>1 DEF StopSession, CloseSession
  <2>3. CASE Enter(p, "FINALIZING", "finalizing")
    BY <2>1, <2>2, <2>3, EnterFits
  <2>4. CASE Go(p, "idle")
    BY <1>0, <2>1, <2>2, <2>4 DEF Go, AudioFits
  <2>. QED
    BY <1>8, <2>3, <2>4 DEF StopSession
<1>9. CASE Finalise(p)
  <2>1. /\ active[p] # 0 /\ active[p] \in Recs /\ session[p] # "none"
        /\ UNCHANGED <<active, session>>
    BY <1>0, <1>9 DEF Finalise, At, AudioFits
  <2>2. CASE Go(p, "idle")
    BY <1>0, <2>1, <2>2 DEF Go, AudioFits
  <2>3. ASSUME NEW verified \in BOOLEAN, SetStatus(active[p], Outcome(p, verified)),
               lifecycle' = [lifecycle EXCEPT ![p] = Outcome(p, verified)],
               Go(p, "stopJob")
        PROVE  AudioFits(p)'
    <3>1. Outcome(p, verified) = "RECORDED" => session[p] = "closed"
      BY DEF Outcome
    <3>. QED
      BY <1>0, <2>1, <2>3, <3>1 DEF SetStatus, Go, AudioFits
  <2>. QED
    BY <1>9, <2>2, <2>3 DEF Finalise
<1>10. CASE JobStopped(p)
  BY <1>0, <1>10 DEF JobStopped, At, Go, AudioFits
<1>11. CASE SessionFails(p) \/ Restart(p)
  <2>1. /\ UNCHANGED <<pc, active, lifecycle, status>>
        /\ \/ session'[p] = session[p]
           \/ session[p] = "live" /\ session'[p] = "failed"
    BY <1>0, <1>11 DEF SessionFails, Restart, procVars
  <2>. QED
    BY <2>1 DEF AudioFits
<1>. QED
  BY <1>1, <1>2, <1>3, <1>4, <1>5, <1>6, <1>7, <1>8, <1>9, <1>10, <1>11 DEF Steps, Start

\* Where a step takes the job.
LEMMA JobMoves ==
  ASSUME TypeOK, NEW p \in Proc, Steps(p)
  PROVE  \/ job' = job
         \/ pc[p] = "startJob" /\ job' # "RECORDED"
         \/ /\ pc[p] = "stopJob"
            /\ job' = "RECORDED" /\ job # "RECORDED" => lifecycle[p] = "RECORDED"
<1>0. job \in JobStates
  BY DEF TypeOK
<1>1. CASE JobStarted(p)
  BY <1>0, <1>1, RouteAssumption DEF JobStarted, At, AdvanceJob
<1>2. CASE JobStopped(p)
  <2>1. lifecycle[p] # "RECORDED" => AdvanceJob("FAILED")
    BY <1>2 DEF JobStopped, JobVerdict
  <2>2. lifecycle[p] # "RECORDED" /\ job' = "RECORDED" => job = "RECORDED"
    BY <1>0, <2>1, RouteAssumption DEF AdvanceJob
  <2>. QED
    BY <1>2, <2>2 DEF JobStopped, At
<1>3. UNCHANGED job \/ JobStarted(p) \/ JobStopped(p)
  BY DEF Steps, Start, Preflight, ReadLock, ClearStale, CreateLock, WriteLock, InsertFails,
         SetupFails, OpenStream, OpenFails, InsertRow, FailRow, RowStarted, SessionFails,
         Pause, Resume, Stop, StopSession, Finalise, Abandon, Finish, Kill, Restart
<1>. QED
  BY <1>1, <1>2, <1>3

LEMMA JobInvariance == Spec => []JobInv
<1>1. Init => JobInv
  BY DEF Init, JobInv, AudioFits, Rowless
<1>2. TypeOK /\ IInv /\ JobInv /\ [Next]_vars => JobInv'
  <2> SUFFICES ASSUME TypeOK, IInv, JobInv, [Next]_vars PROVE JobInv'
    OBVIOUS
  <2>1. CASE UNCHANGED vars
    BY <2>1 DEF vars, procVars, JobInv, AudioFits
  <2>2. ASSUME NEW p \in Proc, Steps(p) PROVE JobInv'
    BY <2>2, OthersKeepFitting, OwnAudioFits DEF JobInv
  <2>. QED
    BY <2>1, <2>2 DEF Next
<1>. QED
  BY <1>1, <1>2, ServiceTyped, Invariance, PTL DEF Spec

\* The job moves to RECORDING only in a call whose stream was opened, and to RECORDED
\* only in one whose session closed and whose recording was verified, wherever a
\* transition of it was refused or lost and a row was skipped.
THEOREM JobFollowsAudio == Spec => JobNeverAheadOfAudio
<1> DEFINE Ahead ==
      /\ job # "RECORDING" /\ job' = "RECORDING" =>
             \E p \in Proc : active[p] # 0 /\ session[p] # "none"
      /\ job # "RECORDED" /\ job' = "RECORDED" =>
             \E p \in Proc : /\ active[p] # 0 /\ session[p] = "closed"
                             /\ status[active[p]] = "RECORDED"
<1>1. ASSUME TypeOK, JobInv, NEW p \in Proc, Steps(p)
      PROVE  Ahead
  <2>1. AudioFits(p)
    BY <1>1 DEF JobInv
  <2>2. CASE job' = job
    BY <2>2
  <2>3. CASE pc[p] = "startJob" /\ job' # "RECORDED"
    BY <2>1, <2>3 DEF AudioFits, Rowless, Opening
  <2>4. CASE /\ pc[p] = "stopJob"
             /\ job' = "RECORDED" /\ job # "RECORDED" => lifecycle[p] = "RECORDED"
    BY <2>1, <2>4 DEF AudioFits, Rowless, Opening
  <2>. QED
    BY <1>1, <2>2, <2>3, <2>4, JobMoves
<1>2. TypeOK /\ JobInv /\ [Next]_vars => [Ahead]_vars
  BY <1>1 DEF Next
<1>. QED
  BY <1>2, ServiceTyped, JobInvariance, PTL DEF Spec, JobNeverAheadOfAudio

-----------------------------------------------------------------------------
(* The lock file *)

\* A call that has no lock yet, or none any more.
Unlocked(p) ==
    \/ pc[p] = "idle" /\ active[p] = 0
    \/ pc[p] \in {"readLock", "unlink", "create", "failRow"}

NewLock(p) == [by |-> p, life |-> life[p], written |-> FALSE]

\* The strengthening of NoLeakedLock: a file is of the present life of its process, in
\* which that process knows of it, or of an earlier one; and one that is still being
\* written is the writer's, whom nobody could rob of it.
LockInv ==
    /\ \A l \in lock :
           /\ l.life <= life[l.by]
           /\ up[l.by] /\ l.life = life[l.by] => ~Unlocked(l.by)
    /\ \A p \in Proc : pc[p] = "write" => up[p] /\ lock = {NewLock(p)}

\* The file stays or goes, and goes only when it is closed; the process that takes the
\* step does not forget the file.
LEMMA StepKeepsLock ==
  ASSUME TypeOK, LockInv, NEW p \in Proc, Steps(p),
         UNCHANGED lock \/ (FileClosed /\ lock' = {}),
         pc'[p] # "write", life'[p] \in Nat, life[p] <= life'[p],
         lock' = {} \/ ~up'[p] \/ life[p] < life'[p] \/ (Unlocked(p)' => Unlocked(p)),
         up'[p] => up[p] \/ life[p] < life'[p]
  PROVE  LockInv'
<1>1. ASSUME NEW q \in Proc, q # p
      PROVE  /\ active'[q] = active[q] /\ pc'[q] = pc[q]
             /\ up'[q] = up[q] /\ life'[q] = life[q]
  BY <1>1, StepsAreLocal
<1>2. ASSUME NEW l \in lock'
      PROVE  /\ l.life <= life'[l.by]
             /\ up'[l.by] /\ l.life = life'[l.by] => ~Unlocked(l.by)'
  <2>1. l \in lock /\ l.by \in Proc /\ l.life \in Nat /\ life[l.by] \in Nat
    BY <1>2 DEF TypeOK
  <2>2. l.life <= life[l.by] /\ (up[l.by] /\ l.life = life[l.by] => ~Unlocked(l.by))
    BY <2>1 DEF LockInv
  <2>3. CASE l.by = p
    BY <1>2, <2>1, <2>2, <2>3 DEF Unlocked
  <2>4. CASE l.by # p
    BY <1>1, <2>1, <2>2, <2>4 DEF Unlocked
  <2>. QED
    BY <2>3, <2>4
<1>3. ASSUME NEW q \in Proc, pc'[q] = "write"
      PROVE  up'[q] /\ lock' = {NewLock(q)'}
  <2>1. q # p /\ pc[q] = "write" /\ up[q] /\ lock = {NewLock(q)}
    BY <1>1, <1>3 DEF LockInv
  <2>2. NewLock(q)' = NewLock(q) /\ up'[q]
    BY <1>1, <2>1 DEF NewLock
  <2>3. NewLock(q) \in lock /\ ~NewLock(q).written /\ NewLock(q).by = q
          /\ NewLock(q).life = life[q]
    BY <2>1 DEF NewLock
  <2>4. ~FileClosed
    BY <2>1, <2>3 DEF FileClosed
  <2>. QED
    BY <2>1, <2>2, <2>4
<1>. QED
  BY <1>2, <1>3 DEF LockInv

LEMMA LockMade ==
  ASSUME TypeOK, LockInv, NEW p \in Proc, Steps(p), CreateLock(p), lock = {}
  PROVE  LockInv'
<1>1. lock' = {NewLock(p)} /\ pc'[p] = "write" /\ up'[p] /\ up[p] /\ life' = life
  BY DEF CreateLock, At, Go, NewLock, TypeOK
<1>2. NewLock(p)' = NewLock(p) /\ NewLock(p).by = p /\ NewLock(p).life = life[p]
        /\ life[p] \in Nat /\ ~Unlocked(p)'
  BY <1>1 DEF NewLock, TypeOK, Unlocked
<1>3. \A q \in Proc : pc'[q] = "write" => q = p
  <2> SUFFICES ASSUME NEW q \in Proc, q # p, pc'[q] = "write" PROVE FALSE
    OBVIOUS
  <2>1. pc[q] = "write"
    BY StepsAreLocal
  <2>. QED
    BY <2>1 DEF LockInv
<1>. QED
  BY <1>1, <1>2, <1>3 DEF LockInv

LEMMA LockWritten ==
  ASSUME TypeOK, LockInv, NEW p \in Proc, Steps(p), WriteLock(p)
  PROVE  LockInv'
<1>1. lock = {NewLock(p)} /\ pc'[p] = "insert" /\ up[p] /\ life' = life /\ up' = up
  BY DEF WriteLock, At, Go, LockInv, TypeOK
<1>2. \A l \in lock' : l.by = p /\ l.life = life[p]
  BY <1>1 DEF WriteLock, NewLock
<1>3. life[p] \in Nat /\ ~Unlocked(p)'
  BY <1>1 DEF TypeOK, Unlocked
<1>4. \A q \in Proc : pc'[q] # "write"
  <2> SUFFICES ASSUME NEW q \in Proc, pc'[q] = "write" PROVE FALSE
    OBVIOUS
  <2>1. q # p /\ pc[q] = "write"
    BY <1>1, StepsAreLocal
  <2>2. NewLock(q) = NewLock(p)
    BY <1>1, <2>1 DEF LockInv
  <2>3. NewLock(q).by = q /\ NewLock(p).by = p
    BY DEF NewLock
  <2>. QED
    BY <2>1, <2>2, <2>3
<1>. QED
  BY <1>1, <1>2, <1>3, <1>4 DEF LockInv

LEMMA LockKept ==
  ASSUME TypeOK, IInv, JobInv, LockInv, NEW p \in Proc, Steps(p)
  PROVE  LockInv'
<1>0. /\ Owns(p) /\ AudioFits(p) /\ pc \in [Proc -> PCs] /\ active \in [Proc -> {0} \cup Recs]
      /\ life \in [Proc -> Nat] /\ up \in [Proc -> BOOLEAN] /\ life[p] <= life[p]
  BY DEF IInv, JobInv, TypeOK
<1>a. ASSUME pc[p] \in Holding \cup {"startJob"} PROVE active[p] # 0
  BY <1>0, <1>a DEF Owns, CallHolds, AudioFits, Rowless
<1>1. CASE Preflight(p) \/ ReadLock(p) \/ (CreateLock(p) /\ lock # {}) \/ FailRow(p)
  <2>1. Unlocked(p) /\ UNCHANGED <<lock, life, up>> /\ pc'[p] # "write"
    BY <1>0, <1>1
       DEF Preflight, ReadLock, CreateLock, FailRow, Free, At, Unlocked, Go
  <2>. QED
    BY <1>0, <2>1, StepKeepsLock
<1>2. CASE ClearStale(p)
  <2>1. /\ Unlocked(p) /\ UNCHANGED <<life, up>> /\ pc'[p] # "write"
        /\ UNCHANGED lock \/ (FileClosed /\ lock' = {})
    BY <1>0, <1>2 DEF ClearStale, At, Unlocked, Go
  <2>. QED
    BY <1>0, <2>1, StepKeepsLock
<1>3. CASE CreateLock(p) /\ lock = {}
  BY <1>3, LockMade
<1>4. CASE WriteLock(p)
  BY <1>4, LockWritten
<1>5. CASE InsertFails(p) \/ SetupFails(p) \/ OpenFails(p) \/ Finish(p)
  <2>1. FileClosed /\ lock' = {} /\ UNCHANGED <<life, up>> /\ pc'[p] # "write"
    BY <1>0, <1>5 DEF InsertFails, SetupFails, OpenFails, Finish, Release, Go
  <2>. QED
    BY <1>0, <2>1, StepKeepsLock
<1>6. CASE InsertRow(p) \/ OpenStream(p) \/ JobStopped(p)
  <2>1. /\ UNCHANGED <<lock, life, up>> /\ pc'[p] \in {"open", "started", "release"}
    BY <1>0, <1>6 DEF InsertRow, OpenStream, JobStopped, Go
  <2>. QED
    BY <1>0, <2>1, StepKeepsLock DEF Unlocked
<1>10. CASE SessionFails(p)
  BY <1>10 DEF SessionFails, LockInv, Unlocked, NewLock
<1>7. CASE RowStarted(p) \/ JobStarted(p) \/ StopSession(p) \/ Finalise(p)
             \/ Pause(p) \/ Resume(p) \/ Stop(p) \/ Abandon(p)
  <2>1. UNCHANGED <<lock, life, up, active>> /\ active[p] # 0
    BY <1>a, <1>7 DEF RowStarted, JobStarted, StopSession, Finalise, Pause, Resume, Stop,
                      Abandon, Busy, At, Holding
  <2>2. pc'[p] \in {"idle", "startJob", "finalizing", "stopJob", "stopping"}
    BY <1>0, <1>7 DEF RowStarted, JobStarted, StopSession, Finalise, Pause, Resume, Stop,
                      Abandon, Enter, Go
  <2>. QED
    BY <1>0, <2>1, <2>2, StepKeepsLock DEF Unlocked
<1>8. CASE Kill(p)
  <2>1. UNCHANGED <<lock, life>> /\ ~up'[p] /\ pc'[p] # "write"
    BY <1>0, <1>8 DEF Kill
  <2>. QED
    BY <1>0, <2>1, StepKeepsLock
<1>9. CASE Restart(p)
  <2>1. UNCHANGED <<lock, pc>> /\ life'[p] = life[p] + 1 /\ pc[p] # "write"
    BY <1>0, <1>9 DEF Restart, procVars, LockInv
  <2>. QED
    BY <1>0, <2>1, StepKeepsLock
<1>. QED
  BY <1>1, <1>2, <1>3, <1>4, <1>5, <1>6, <1>7, <1>8, <1>9, <1>10 DEF Steps, Start

\* However calls fail, race or are killed, no lock file of a living process is left
\* that neither a call nor a recording of that process will release.
THEOREM LocksAreReleased == Spec => []NoLeakedLock
<1>1. Init => LockInv
  BY DEF Init, LockInv
<1>2. TypeOK /\ IInv /\ JobInv /\ LockInv /\ [Next]_vars => LockInv'
  <2> SUFFICES ASSUME TypeOK, IInv, JobInv, LockInv, [Next]_vars PROVE LockInv'
    OBVIOUS
  <2>1. CASE UNCHANGED vars
    BY <2>1 DEF vars, procVars, LockInv, Unlocked, NewLock
  <2>2. ASSUME NEW p \in Proc, Steps(p) PROVE LockInv'
    BY <2>2, LockKept
  <2>. QED
    BY <2>1, <2>2 DEF Next
<1>3. LockInv => NoLeakedLock
  BY DEF LockInv, NoLeakedLock, OwnerAlive, Unlocked
<1>. QED
  BY <1>1, <1>2, <1>3, ServiceTyped, Invariance, JobInvariance, PTL DEF Spec
=============================================================================
