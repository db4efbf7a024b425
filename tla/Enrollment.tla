------------------------------ MODULE Enrollment ------------------------------
(***************************************************************************)
(* EnrollmentService, ConsentService and EnrollmentCaptureController of    *)
(* src/mom_igd/enrollment over one VoiceprintStore: the enrollment that is *)
(* in flight, the thread that records its samples, and the callers that    *)
(* withdraw consent, delete, verify and clean up meanwhile, from threads   *)
(* of the server or from the command line in a process of its own.         *)
(*                                                                         *)
(* Enrollments run in the server only.  _state_lock is held exactly while  *)
(* pc # "idle", and a step is what happens between two transactions or     *)
(* file operations.  The lock file is taken and released in one step; its  *)
(* races are RecordingService's.                                           *)
(***************************************************************************)
EXTENDS VoiceprintStore, KeyStore, Sequences

CONSTANTS
    Api, Cli,       \* callers in the server and in other processes
    SamplesTarget,  \* samples that finalize asks for
    MaxConsents,    \* bound: consent events of a participant
    MaxMishaps      \* bound: disk and database errors, damaged envelopes, kills

ASSUME EnrollmentAssumption ==
    /\ Voiceprints \subseteq Nat \ {0} /\ IsFiniteSet(Voiceprints)
    /\ SamplesTarget \in Nat \ {0}
    /\ MaxConsents \in Nat /\ MaxMishaps \in Nat
    /\ Api \cap Cli = {} /\ NoOne \notin Participants

VARIABLES
    consent,        \* consent_events of each participant, GRANTED and REVOKED in turn
    isActive,       \* participants.is_active
    sealedWith,     \* the key each voiceprint is sealed under, once it is to be
    sessions,       \* enrollment_sessions.state, "NONE" before the insert
    lock,           \* the capture lock: "free", "enrollment", "recording", "stale", or
                    \* "unreleased": an enrollment's that release() failed to remove
    active,         \* _active
    pc,             \* the step of the call that holds _state_lock
    started,        \* what a start has read: the participant and the consent event
    capture,        \* capture_sample: its step, and whose session it saw
    caller,         \* the step, participant and voiceprint of each caller
    owed,           \* history: withdrawn, and the deletion has not committed since
    raced,          \* history: voiceprints whose save overlapped a withdrawal
    mishaps         \* bound counter

people == <<consent, isActive>>
keys == <<keyVars, sealedWith>>
server == <<sessions, lock, active, pc, started, capture>>
vars == <<storeVars, people, keys, server, caller, owed, raced, mishaps>>

\* A session and the voiceprint it saves share an identifier.
Sessions == Voiceprints

Live == {"READY", "CAPTURING", "VALIDATING", "EMBEDDING", "ENCRYPTING"}
\* FAILED stands for REJECTED and CANCELLED too: nothing that acts reads which it was.
Terminal == {"COMPLETED", "FAILED"}

NoSession ==
    [id |-> 0, participant |-> NoOne, consent |-> 0, state |-> "NONE", samples |-> <<>>]
NoCapture == [step |-> "idle", of |-> NoOne]
NoStart == [participant |-> NoOne, consent |-> 0]
NoCall == [step |-> "idle", participant |-> NoOne, voiceprint |-> 0]

SaveSteps == {"key", "temp", "insert_row", "rename", "readback", "markfail", "activate"}
Steps == SaveSteps \cup
    {"idle", "acquire", "insert", "recheck", "check", "complete"}
Callers == Api \cup Cli

TypeOK ==
    /\ StoreTypeOK
    /\ consent \in [Participants -> 0..MaxConsents] /\ isActive \in [Participants -> BOOLEAN]
    /\ sessions \in [Sessions -> Live \cup Terminal \cup {"NONE"}]
    /\ lock \in {"free", "enrollment", "recording", "unreleased", "stale"}
    /\ active.id \in Sessions \cup {0} /\ active.participant \in Participants \cup {NoOne}
    /\ active.consent \in 0..MaxConsents /\ active.samples \in Seq(Participants)
    /\ active.state \in Live \cup Terminal \cup {"NONE"}
    /\ pc \in Steps
    /\ started \in [participant : Participants \cup {NoOne}, consent : 0..MaxConsents]
    /\ capture \in [step : {"idle", "opening", "recording", "handover"},
                    of : Participants \cup {NoOne}]
    /\ caller \in [Callers -> [step : {"idle", "event", "delete", "verify"},
                               participant : Participants \cup {NoOne},
                               voiceprint : Voiceprints \cup {0}]]
    /\ key \in {NoKey, Altered} \cup 1..keysMade /\ keysMade \in Nat
    /\ sealedWith \in [Voiceprints -> 0..keysMade]
    /\ owed \subseteq Participants /\ raced \subseteq Voiceprints
    /\ mishaps \in 0..MaxMishaps

Init ==
    /\ StoreInit /\ KeyInit /\ sealedWith = [v \in Voiceprints |-> 0]
    /\ consent = [p \in Participants |-> 0] /\ isActive = [p \in Participants |-> TRUE]
    /\ sessions = [s \in Sessions |-> "NONE"] /\ lock = "free"
    /\ active = NoSession /\ pc = "idle"
    /\ started = NoStart
    /\ capture = NoCapture
    /\ caller = [c \in Callers |-> NoCall]
    /\ owed = {} /\ raced = {} /\ mishaps = 0

-----------------------------------------------------------------------------
\* Something fails, or a process is killed.
Fault == mishaps < MaxMishaps /\ mishaps' = mishaps + 1

\* ConsentService.state: the latest event is a grant.
Granted(p) == consent[p] % 2 = 1

HasSession == active.state \in Live
Saving(p) == pc \in SaveSteps /\ active.participant = p

At(step) == pc = step /\ UNCHANGED <<people, keys, started, capture, caller, owed, raced>>
Idle == pc = "idle"

\* _set_state: memory first, then the row.
Enter(s) ==
    /\ active' = [active EXCEPT !.state = s]
    /\ sessions' = [sessions EXCEPT ![active.id] = s]

\* MUTANT: _finish forgets the lock.
EndKeepingLock(s) ==
    /\ sessions' = [sessions EXCEPT ![active.id] = s]
    /\ UNCHANGED lock

\* SingleRecordingLock.release, or an error of it: the file that stays names a living
\* process, and every start refuses it until the server ends and it is stale.  MaxMishaps
\* does not bound it: it only brings enrollments to an end.
Released == lock' \in {"free", "unreleased"}

\* _set_state to a terminal state and _finish: the row is closed and the lock released;
\* _finish swallows an error of the release, and the session ends all the same.
End(s) ==
    /\ sessions' = [sessions EXCEPT ![active.id] = s]
    /\ Released

\* What is left in memory of a session that is over, when nobody forgets it.
Over(s) == active' = [NoSession EXCEPT !.id = active.id, !.state = s]

\* _fail; if the row cannot be written it raises before anything is released.
Fail ==
    /\ Over("FAILED")
    /\ \/ End("FAILED") /\ UNCHANGED mishaps
       \/ Fault /\ UNCHANGED <<sessions, lock>>

\* cancel of a live session also forgets it, unless _fail raised: before the row is
\* written, or after the release.
Abandon ==
    \/ End("FAILED") /\ active' = NoSession /\ UNCHANGED mishaps
    \/ Fault /\ Over("FAILED") /\ (End("FAILED") \/ UNCHANGED <<sessions, lock>>)

-----------------------------------------------------------------------------
(* start *)

\* start reads the participant and the consent; whatever else it checks only refuses.
Start(p) ==
    /\ Idle /\ ~HasSession /\ isActive[p] /\ Granted(p)
    /\ started' = [participant |-> p, consent |-> consent[p]]
    /\ pc' = "acquire"
    /\ UNCHANGED <<storeVars, people, keys, sessions, lock, active, capture, caller, owed,
                   raced, mishaps>>

\* A living holder is refused, a dead one's file cleared.
AcquireLock ==
    /\ pc = "acquire"
    /\ IF lock \in {"free", "stale"}
         THEN lock' = "enrollment" /\ pc' = "insert" /\ UNCHANGED started
         ELSE UNCHANGED lock /\ pc' = "idle" /\ started' = NoStart
    /\ UNCHANGED <<storeVars, people, keys, sessions, active, capture, caller, owed, raced,
                   mishaps>>

\* The READY row, if ux_enrollment_single_active admits it; the lock is given back if not.
InsertSession ==
    /\ pc = "insert" /\ pc' = "idle" /\ started' = NoStart
    /\ UNCHANGED <<storeVars, people, keys, capture, caller, owed, raced>>
    /\ \/ /\ \A s \in Sessions : sessions[s] \notin Live
          /\ \E s \in Sessions :
                /\ sessions[s] = "NONE" /\ \A t \in Sessions : t < s => sessions[t] # "NONE"
                /\ sessions' = [sessions EXCEPT ![s] = "READY"]
                /\ active' = [id |-> s, participant |-> started.participant,
                              consent |-> started.consent, state |-> "READY",
                              samples |-> <<>>]
          /\ UNCHANGED <<lock, mishaps>>
       \/ /\ Released /\ UNCHANGED <<sessions, active>>
          /\ IF \A s \in Sessions : sessions[s] \notin Live THEN Fault ELSE UNCHANGED mishaps

-----------------------------------------------------------------------------
(* capture_sample and add_sample *)

RestOfCapture == <<storeVars, people, keys, sessions, lock, active, pc, started, caller, owed,
                   raced, mishaps>>

\* The slot is claimed, and status() shows a session.
ClaimCapture ==
    /\ capture.step = "idle" /\ HasSession
    /\ capture' = [step |-> "opening", of |-> active.participant]
    /\ UNCHANGED RestOfCapture

\* The stream opens, whatever has become of the session.
OpenStream ==
    /\ capture.step = "opening"
    /\ capture' = [capture EXCEPT !.step = "recording"]
    /\ UNCHANGED RestOfCapture

\* Enough audio: the stream is closed and the PCM taken.
TakeSample ==
    /\ capture.step = "recording"
    /\ capture' = [capture EXCEPT !.step = "handover"]
    /\ UNCHANGED RestOfCapture

\* The device cannot be opened, or it falls silent and the deadline passes.
GiveUpSample ==
    /\ capture.step \in {"opening", "recording"}
    /\ capture' = NoCapture
    /\ UNCHANGED RestOfCapture

\* One of the _set_state calls of add_sample raises: what memory and the row say then,
\* and whether the sample is in the session.
Interrupted(s) ==
    {<<"VALIDATING", "CAPTURING", TRUE>>, <<"CAPTURING", "VALIDATING", TRUE>>,
     <<"CAPTURING", "VALIDATING", FALSE>>}
        \cup (IF s = "READY" THEN {<<"CAPTURING", "READY", FALSE>>} ELSE {})

With(sample) == Append(active.samples, sample)
Room == Len(active.samples) < SamplesTarget

\* add_sample, called with the PCM in hand, on the session there is by now.  No more
\* samples than the target are tried, a bound.
AddSample ==
    /\ Idle /\ capture.step = "handover" /\ capture' = NoCapture
    /\ UNCHANGED <<storeVars, people, keys, pc, started, caller, owed, raced>>
    /\ IF active.state \in {"READY", "CAPTURING"}
         THEN \/ \* accepted
                 /\ Room
                 /\ active' = [active EXCEPT !.state = "CAPTURING",
                                  !.samples = With(capture.of)]
                 /\ sessions' = [sessions EXCEPT ![active.id] = "CAPTURING"]
                 /\ UNCHANGED <<lock, mishaps>>
              \/ \* rejected by its quality
                 Enter("CAPTURING") /\ UNCHANGED <<lock, mishaps>>
              \/ \* the device changed, or the buffer is full
                 Fail
              \/ \E ms \in Interrupted(active.state) :
                    /\ Fault /\ UNCHANGED lock /\ (ms[3] => Room)
                    /\ active' = [active EXCEPT !.state = ms[1],
                                     !.samples = IF ms[3] THEN With(capture.of) ELSE @]
                    /\ sessions' = [sessions EXCEPT ![active.id] = ms[2]]
         ELSE UNCHANGED <<sessions, lock, active, mishaps>>

-----------------------------------------------------------------------------
(* finalize *)

Failed == Fail /\ pc' = "idle"

\* An error that nothing catches: the session stays as it is.
Escape == Fault /\ pc' = "idle"

\* The provider and the quality gates accept or reject.
Finalize ==
    /\ At("idle") /\ UNCHANGED storeVars
    /\ active.state = "CAPTURING" /\ Len(active.samples) >= SamplesTarget
    /\ \/ Enter("EMBEDDING") /\ pc' = "recheck" /\ UNCHANGED <<lock, mishaps>>
       \/ Fail /\ UNCHANGED pc

\* MUTANT: any grant will do, not only the one the session was started under.
StillGranted == isActive[active.participant] /\ Granted(active.participant)

\* Nothing changed while the operator was speaking.
StillConsented ==
    /\ isActive[active.participant] /\ Granted(active.participant)
    /\ consent[active.participant] = active.consent

\* _recheck_preconditions, of device and calibration too; then ENCRYPTING.
Recheck ==
    /\ At("recheck") /\ UNCHANGED storeVars
    /\ \/ /\ StillConsented /\ Enter("ENCRYPTING") /\ pc' = "key"
          /\ UNCHANGED <<lock, mishaps>>
       \/ Failed
       \/ Escape /\ UNCHANGED <<sessions, lock, active>>

-----------------------------------------------------------------------------
(* save, inside finalize *)

Proceed(step) == pc' = step /\ UNCHANGED <<sessions, lock, active, mishaps>>
\* The fault is in the store, so the session's own cleanup goes through.
FailedByFault ==
    /\ Fault /\ End("FAILED") /\ Over("FAILED") /\ pc' = "idle"

\* seal: under this key, with the identity of the row and the participant bound to it.
Seal(k) == sealedWith' = [sealedWith EXCEPT ![active.id] = k]

\* The key, which has to be there before anything is sealed.
SaveKey ==
    /\ pc = "key"
    /\ UNCHANGED <<storeVars, people, started, capture, caller, owed, raced>>
    /\ \/ CreateIfMissing /\ Proceed("temp") /\ Seal(keysMade')
       \/ UNCHANGED keys /\ (IF key = Altered THEN Failed ELSE FailedByFault)

\* A write that raises may leave the temporary file.
SaveTemp ==
    /\ At("temp")
    /\ \/ WriteTemp(active.id) /\ Proceed("insert_row")
       \/ (WriteTemp(active.id) \/ UNCHANGED storeVars) /\ FailedByFault

SaveRow ==
    /\ At("insert_row")
    /\ \/ InsertPending(active.id, active.participant, active.consent) /\ Proceed("rename")
       \/ DropTemp(active.id) /\ FailedByFault

SaveRename ==
    /\ At("rename")
    /\ \/ Rename(active.id) /\ Proceed("readback")
       \/ Fault /\ pc' = "markfail" /\ UNCHANGED <<storeVars, sessions, lock, active>>

\* Step 8: the file is read again.
SaveReadBack ==
    /\ At("readback") /\ UNCHANGED storeVars
    /\ Proceed(IF envelope[active.id] = "good" THEN "activate" ELSE "markfail")

\* MUTANT: the row is marked, but the exception is not raised again.
SwallowError ==
    /\ At("markfail")
    /\ FailSave(active.id) /\ Proceed("activate")

\* The row is marked and the temporary dropped, or the marking raises too.
SaveMark ==
    /\ At("markfail")
    /\ \/ FailSave(active.id) /\ Failed
       \/ UNCHANGED storeVars /\ FailedByFault

\* The activation commits, or raises after it unlinked some of the old envelopes.
SaveActivate ==
    LET old == Superseded(active.id)
    IN  /\ At("activate")
        /\ \/ \E stuck \in SUBSET CanStick(old) :
                 /\ Activate(active.id, stuck) /\ pc' = "check"
                 /\ active' = [active EXCEPT !.samples = <<>>]
                 /\ UNCHANGED <<sessions, lock>>
                 /\ IF stuck = {} THEN UNCHANGED mishaps ELSE Fault
           \/ ~Activatable(active.id) /\ RolledBack(old) /\ Failed
           \/ (\E gone \in SUBSET old : RolledBack(gone)) /\ FailedByFault

\* verify() of the new template.
VerifyOwn ==
    /\ At("check")
    /\ \/ /\ IF Usable(active.id) THEN VerifyEnvelope(active.id) ELSE UNCHANGED storeVars
          /\ Proceed("complete")
       \/ Escape /\ UNCHANGED <<storeVars, sessions, lock, active>>

\* _persist_quality, COMPLETED, _finish.
Complete ==
    /\ At("complete") /\ UNCHANGED storeVars
    /\ \/ End("COMPLETED") /\ active' = NoSession /\ pc' = "idle" /\ UNCHANGED mishaps
       \/ Escape /\ UNCHANGED <<sessions, lock, active>>
       \/ Escape /\ Over("COMPLETED")
          /\ (End("COMPLETED") \/ UNCHANGED <<sessions, lock>>)

-----------------------------------------------------------------------------
(* cancel and withdrawal *)

CallerAt(c, step) == caller[c].step = step /\ UNCHANGED <<started>>
CallerGoes(c, step) == caller' = [caller EXCEPT ![c].step = step]
CallerDone(c) == caller' = [caller EXCEPT ![c] = NoCall]

\* abort() closes an open stream; it misses one that is about to open, and a sample that
\* has been taken.  capture_sample keeps its slot until its deadline, which is all it does.
Abort == capture' = IF capture.step = "recording" THEN NoCapture ELSE capture

\* The cancel route and the shutdown: abort(), then cancel().
Cancel ==
    /\ Idle /\ Abort
    /\ IF HasSession THEN Abandon ELSE UNCHANGED <<sessions, lock, active, mishaps>>
    /\ UNCHANGED <<storeVars, people, keys, pc, started, caller, owed, raced>>

\* revoke_consent_and_delete: in the server it first cancels the participant's own
\* enrollment; an error there ends the call before anything is withdrawn.
Revoke(c, p) ==
    LET next == [step |-> "event", participant |-> p, voiceprint |-> 0]
        own == c \in Api /\ HasSession /\ active.participant = p
    IN  /\ CallerAt(c, "idle") /\ consent[p] > 0
        /\ c \in Api => Idle
        /\ IF own
             THEN Abandon /\ caller' = [caller EXCEPT ![c] =
                     IF active' = NoSession THEN next ELSE NoCall]
             ELSE UNCHANGED <<sessions, lock, active, mishaps>>
                  /\ caller' = [caller EXCEPT ![c] = next]
        /\ UNCHANGED <<storeVars, people, keys, pc, capture, owed, raced>>

RestOfServer == <<sessions, lock, active, pc, capture>>

\* consent._append: GRANTED and REVOKED take turns, so that the events of a
\* participant are a number.
AppendEvent(p) ==
    /\ consent[p] < MaxConsents
    /\ consent' = [consent EXCEPT ![p] = @ + 1]

\* ConsentService.revoke: the event, unless the latest is one already.
RevokeEvent(c) ==
    LET p == caller[c].participant
    IN  /\ CallerAt(c, "event")
        /\ UNCHANGED <<storeVars, isActive, keys, RestOfServer>>
        /\ \/ /\ Granted(p) /\ AppendEvent(p)
              /\ owed' = owed \cup {p}
              /\ raced' = IF Saving(p) THEN raced \cup {active.id} ELSE raced
              /\ CallerGoes(c, "delete") /\ UNCHANGED mishaps
           \/ ~Granted(p) /\ CallerGoes(c, "delete") /\ UNCHANGED <<consent, owed, raced, mishaps>>
           \/ Fault /\ CallerDone(c) /\ UNCHANGED <<consent, owed, raced>>

\* delete_for_revocation: commits, or raises after some unlinks.
RevokeDelete(c) ==
    LET p == caller[c].participant
    IN  /\ CallerAt(c, "delete") /\ CallerDone(c) /\ UNCHANGED <<people, keys, RestOfServer>>
        /\ \/ \E stuck \in SUBSET CanStick(Deletable(p)) :
                 /\ DeleteForRevocation(p, stuck)
                 /\ IF stuck = {} THEN UNCHANGED mishaps ELSE Fault
                 /\ owed' = owed \ {p}
                 /\ raced' = IF Saving(p) THEN raced \cup {active.id} ELSE raced
           \/ /\ \E gone \in SUBSET Deletable(p) : RolledBack(gone)
              /\ Fault /\ UNCHANGED <<owed, raced>>

-----------------------------------------------------------------------------
(* the other calls *)

\* grant appends nothing while consent is active.
Grant(p) ==
    /\ ~Granted(p) /\ isActive[p] /\ AppendEvent(p)
    /\ UNCHANGED <<storeVars, isActive, keys, server, caller, owed, raced, mishaps>>

SetActive(p) ==
    /\ isActive' = [isActive EXCEPT ![p] = ~@]
    /\ UNCHANGED <<storeVars, consent, keys, server, caller, owed, raced, mishaps>>

RetryCleanup(c) ==
    /\ CallerAt(c, "idle") /\ Owed # {}
    /\ \E stuck \in SUBSET CanStick(Owed) :
          /\ RetryPendingCleanup(stuck)
          /\ IF stuck = {} THEN UNCHANGED mishaps ELSE Fault
    /\ UNCHANGED <<people, keys, RestOfServer, caller, owed, raced>>

\* verify() reads the row, and looks at the file when others have gone on.  It takes no
\* lock, so it is all the same in which process it runs.
VerifyRead(c, v) ==
    /\ c \in Cli /\ CallerAt(c, "idle") /\ Usable(v)
    /\ caller' = [caller EXCEPT ![c] =
          [step |-> "verify", participant |-> NoOne, voiceprint |-> v]]
    /\ UNCHANGED <<storeVars, people, keys, RestOfServer, owed, raced, mishaps>>

VerifyCheck(c) ==
    /\ CallerAt(c, "verify") /\ CallerDone(c)
    /\ VerifyEnvelope(caller[c].voiceprint)
    /\ UNCHANGED <<people, keys, RestOfServer, owed, raced, mishaps>>

\* Recovery, when nobody is at work on the store.
RecoverStore ==
    /\ pc = "idle" /\ \A c \in Callers : caller[c].step = "idle"
    /\ UNCHANGED <<people, keys, server, caller, owed, raced, mishaps>>
    /\ Recover(Voiceprints) /\ storeVars' # storeVars

\* A recovery that is killed has dealt with some files.  MaxMishaps does not bound it: it
\* only brings the store nearer to where a complete one ends.
RecoverySomeThenKilled(vs) ==
    /\ vs # Voiceprints /\ pc = "idle" /\ \A c \in Callers : caller[c].step = "idle"
    /\ Recover(vs) /\ storeVars' # storeVars
    /\ UNCHANGED <<people, keys, server, caller, owed, raced, mishaps>>

\* A meeting recording of the same server takes the lock, and gives it back; if that
\* fails its recording stays active, which is as if it had not ended.
MeetingStarts ==
    /\ lock \in {"free", "stale"} /\ lock' = "recording"
    /\ UNCHANGED <<storeVars, people, keys, sessions, active, pc, started, capture, caller,
                   owed, raced, mishaps>>

MeetingEnds ==
    /\ lock = "recording" /\ lock' = "free"
    /\ UNCHANGED <<storeVars, people, keys, sessions, active, pc, started, capture, caller,
                   owed, raced, mishaps>>

Kill == Fault /\ UNCHANGED <<people, keys, owed, raced>>

\* The files that the transaction in progress may have unlinked when its process dies.
UnlinkedByServer == IF pc = "activate" THEN Superseded(active.id) ELSE {}
UnlinkedBy(c) == IF caller[c].step = "delete" THEN Deletable(caller[c].participant) ELSE {}

KillServer ==
    /\ Kill
    /\ \E gone \in SUBSET (UnlinkedByServer \cup UNION {UnlinkedBy(c) : c \in Api}) :
          RolledBack(gone)
    /\ lock' = IF lock = "free" THEN "free" ELSE "stale"
    /\ active' = NoSession /\ pc' = "idle"
    /\ started' = NoStart
    /\ capture' = NoCapture
    /\ caller' = [c \in Callers |-> IF c \in Api THEN NoCall ELSE caller[c]]
    /\ UNCHANGED sessions

KillCommand(c) ==
    /\ Kill /\ c \in Cli /\ caller[c].step # "idle"
    /\ \E gone \in SUBSET UnlinkedBy(c) : RolledBack(gone)
    /\ CallerDone(c) /\ UNCHANGED server

LoseKeyFile ==
    /\ Fault /\ LoseKey
    /\ UNCHANGED <<storeVars, people, sealedWith, server, caller, owed, raced>>

DamageEnvelope ==
    /\ Fault /\ \E v \in Voiceprints : Damage(v)
    /\ UNCHANGED <<people, keys, server, caller, owed, raced>>

-----------------------------------------------------------------------------
SaveNext ==
    \/ SaveKey \/ SaveTemp \/ SaveRow \/ SaveRename \/ SaveReadBack \/ SaveMark \/ SaveActivate
    \/ VerifyOwn \/ Complete

SessionNext ==
    \/ \E p \in Participants : Start(p)
    \/ AcquireLock \/ InsertSession \/ ClaimCapture \/ OpenStream \/ TakeSample
    \/ Cancel \/ GiveUpSample \/ AddSample \/ Finalize \/ Recheck

CallerNext(c) ==
    \/ (\E p \in Participants : Revoke(c, p)) \/ RevokeEvent(c) \/ RevokeDelete(c)
    \/ RetryCleanup(c) \/ (\E v \in Voiceprints : VerifyRead(c, v)) \/ VerifyCheck(c)
    \/ KillCommand(c)

Environment ==
    \/ \E p \in Participants : Grant(p) \/ SetActive(p)
    \/ RecoverStore \/ (\E vs \in SUBSET Voiceprints : RecoverySomeThenKilled(vs))
    \/ MeetingStarts \/ MeetingEnds \/ KillServer \/ DamageEnvelope \/ LoseKeyFile

Next == SaveNext \/ SessionNext \/ (\E c \in Callers : CallerNext(c)) \/ Environment

Spec == Init /\ [][Next]_vars

-----------------------------------------------------------------------------
(* PROPERTIES *)

\* A finished envelope is never one that no row knows of: the row is inserted before
\* the rename (store.py, "never a finished file that nothing knows about").
FinishedEnvelopeIsKnown ==
    \A v \in Voiceprints : envelope[v] # "none" => Status(v) # "NONE"

\* A participant has at most one usable template.  The activation retires the others
\* first, so the unique index, which is not in the model, is never violated.
OneLiveTemplate ==
    \A u, v \in Voiceprints :
        Usable(u) /\ Usable(v) /\ voiceprints[u].participant = voiceprints[v].participant
            => u = v

\* The envelope of a usable template is on disk and intact, unless it was damaged from
\* outside or unlinked by a transaction that did not commit.
UsableHasEnvelope ==
    \A v \in Voiceprints : Usable(v) => envelope[v] = "good" \/ v \in lostFile

\* A row that points nowhere has no envelope left: the pointer is cleared only when the
\* file went, except that a save overtaken by a withdrawal renames its file afterwards.
NoStrandedEnvelope ==
    \A v \in Voiceprints :
        Status(v) # "NONE" /\ ~voiceprints[v].path => envelope[v] = "none" \/ v \in raced

\* The rows and the envelopes on disk agree at every step of a save, a withdrawal and a
\* recovery, whichever of them was cut off before.
RowsAndEnvelopesAgree ==
    FinishedEnvelopeIsKnown /\ OneLiveTemplate /\ UsableHasEnvelope /\ NoStrandedEnvelope

\* Once a template was deleted or is to be deleted it is never usable again, unless its
\* own save was still running when consent was withdrawn.
DeletedStaysDeleted ==
    [][\A v \in Voiceprints :
          Status(v) \in {"REVOKED", "SUPERSEDED", "DELETE_PENDING", "INTEGRITY_FAILED"}
              => ~Usable(v)' \/ v \in raced]_vars

\* Who is eligible for identification is so by a template made under the consent that is
\* now in force - except where a withdrawal has not got to its deletion, and where it
\* overlapped the save.
EligibleUnderCurrentConsent ==
    \A v \in Voiceprints :
        LET p == voiceprints[v].participant
        IN  Usable(v) /\ Granted(p) => \/ voiceprints[v].consent = consent[p]
                                       \/ p \in owed \/ v \in raced

\* The enrollment's lock is held for a call or for the session in memory, and the row of
\* that session still shows it: a failure to write the row may keep the lock, but never
\* for a session that the database calls finished.  Only a release() that itself failed
\* leaves a file behind an enrollment that is over ("unreleased").
LockHasAHolder ==
    lock = "enrollment" =>
        pc # "idle" \/ (active # NoSession /\ sessions[active.id] \in Live)

\* The one lock for the microphone is neither kept by an enrollment that is over, unless
\* its release failed, nor taken from a meeting by one that is not: release() unlinks
\* whatever file is there.
LockIsRespected ==
    [][/\ LockHasAHolder'
       /\ lock = "recording" => lock' = "recording" \/ MeetingEnds \/ KillServer]_vars

\* After a withdrawal whose deletion committed, and with no save in progress, no envelope
\* of that participant is left but those that are owed for deletion ("When consent is
\* withdrawn the envelope must actually go", store.py).
WithdrawnEnvelopeGoes ==
    \A v \in Voiceprints :
        LET p == voiceprints[v].participant
        IN  Status(v) # "NONE" /\ ~Granted(p) /\ p \notin owed /\ pc = "idle"
              => envelope[v] = "none" \/ Status(v) = "DELETE_PENDING"

\* Every sample of an enrollment is of the participant who is being enrolled: the session
\* that capture_sample asks for "is what proves consent" (capture.py).
SamplesAreOfTheParticipant ==
    \A i \in 1..Len(active.samples) : active.samples[i] = active.participant
=============================================================================
