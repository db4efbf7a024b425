--------------------------- MODULE VoiceprintStore ---------------------------
(***************************************************************************)
(* The steps of VoiceprintStore, src/mom_igd/enrollment/store.py: what a   *)
(* file operation or a committed transaction does to the envelopes on disk *)
(* and to the rows of voiceprints.  Enrollment says who takes them when.   *)
(*                                                                         *)
(* ACTIVE stands for ACTIVE and DEVELOPMENT_ONLY, which the store treats   *)
(* alike.  A row's path is TRUE while envelope_relative_path is not NULL.  *)
(* ux_voiceprints_one_live_per_participant is left out: OneLiveTemplate of *)
(* Enrollment shows that the code's own order suffices.                    *)
(***************************************************************************)
EXTENDS Naturals, FiniteSets

CONSTANTS
    Voiceprints,    \* identifiers, a new one for each save
    Participants,
    NoOne           \* the participant of no row

VARIABLES
    voiceprints,    \* the rows, status "NONE" before the insert
    tempFile,       \* is there a <uuid>.vpx.tmp?
    envelope,       \* <uuid>.vpx: "none", "good" (hash matches) or "bad"
    quarantine,     \* <<uuid, suffix>> of the files set aside
    lostFile        \* history: envelopes gone although no row was told

storeVars == <<voiceprints, tempFile, envelope, quarantine, lostFile>>

Statuses == {"NONE", "PENDING_WRITE", "ACTIVE", "SUPERSEDED", "RE_ENROLL_REQUIRED",
             "REVOKED", "DELETE_PENDING", "INTEGRITY_FAILED"}

NoRow == [status |-> "NONE", path |-> FALSE, participant |-> NoOne, consent |-> 0]

StoreTypeOK ==
    /\ voiceprints \in [Voiceprints ->
          [status : Statuses, path : BOOLEAN,
           participant : Participants \cup {NoOne}, consent : Nat]]
    /\ tempFile \in [Voiceprints -> BOOLEAN]
    /\ envelope \in [Voiceprints -> {"none", "good", "bad"}]
    /\ quarantine \subseteq Voiceprints \X {"tmp", "vpx"}
    /\ lostFile \subseteq Voiceprints

StoreInit ==
    /\ voiceprints = [v \in Voiceprints |-> NoRow]
    /\ tempFile = [v \in Voiceprints |-> FALSE]
    /\ envelope = [v \in Voiceprints |-> "none"]
    /\ quarantine = {} /\ lostFile = {}

Status(v) == voiceprints[v].status
Usable(v) == Status(v) = "ACTIVE"

-----------------------------------------------------------------------------
(* save *)

\* Steps 3 and 4: the sealed bytes are durable under the temporary name.
WriteTemp(v) ==
    /\ tempFile' = [tempFile EXCEPT ![v] = TRUE]
    /\ UNCHANGED <<voiceprints, envelope, quarantine, lostFile>>

\* Step 6: the row claims the envelope before it has its name.
InsertPending(v, p, c) ==
    /\ voiceprints' = [voiceprints EXCEPT ![v] =
          [status |-> "PENDING_WRITE", path |-> TRUE, participant |-> p, consent |-> c]]
    /\ UNCHANGED <<tempFile, envelope, quarantine, lostFile>>

\* The insert raised: the temporary file references nothing and goes.
DropTemp(v) ==
    /\ tempFile' = [tempFile EXCEPT ![v] = FALSE]
    /\ UNCHANGED <<voiceprints, envelope, quarantine, lostFile>>

\* Step 7: os.replace.
Rename(v) ==
    /\ tempFile' = [tempFile EXCEPT ![v] = FALSE]
    /\ envelope' = [envelope EXCEPT ![v] = "good"]
    /\ UNCHANGED <<voiceprints, quarantine, lostFile>>

\* _mark(INTEGRITY_FAILED): by id, whatever the row has become.
MarkFailed(v) ==
    /\ voiceprints' = [voiceprints EXCEPT ![v].status = "INTEGRITY_FAILED"]
    /\ UNCHANGED <<tempFile, envelope, quarantine, lostFile>>

\* The replace or the reading back raised: mark the row, then drop the temporary.
FailSave(v) ==
    /\ voiceprints' = [voiceprints EXCEPT ![v].status = "INTEGRITY_FAILED"]
    /\ tempFile' = [tempFile EXCEPT ![v] = FALSE]
    /\ UNCHANGED <<envelope, quarantine, lostFile>>

\* The templates that a new one replaces.
Superseded(v) ==
    {u \in Voiceprints \ {v} :
        Usable(u) /\ voiceprints[u].participant = voiceprints[v].participant}

\* A row without a path has nothing left to unlink.
WithoutFiles(vs) ==
    [u \in Voiceprints |->
        IF u \in vs /\ voiceprints[u].path THEN "none" ELSE envelope[u]]

\* The pointer is cleared only where the file went; the others stay owed.
Retire(vs, stuck, retired) ==
    [u \in Voiceprints |->
        IF u \in vs \ stuck
          THEN [voiceprints[u] EXCEPT !.status = retired, !.path = FALSE]
        ELSE IF u \in vs
          THEN [voiceprints[u] EXCEPT !.status = "DELETE_PENDING"]
        ELSE voiceprints[u]]

\* Files whose unlink can fail: a missing one counts as deleted.
CanStick(vs) == {u \in vs : voiceprints[u].path /\ envelope[u] # "none"}

\* MUTANT: the schema lets a row be live without a path.
ActivationAllowed(v) == TRUE

\* CHECK voiceprints_live_has_envelope.
Activatable(v) == voiceprints[v].path

\* Step 9, one transaction: unlink and retire the old templates, then this row
\* is usable, whatever its status has become.
Activate(v, stuck) ==
    LET old == Superseded(v)
    IN  /\ Activatable(v)
        /\ voiceprints' = [Retire(old, stuck, "SUPERSEDED") EXCEPT ![v].status = "ACTIVE"]
        /\ envelope' = WithoutFiles(old \ stuck)
        /\ UNCHANGED <<tempFile, quarantine, lostFile>>

\* A transaction that unlinked these files and was rolled back, by an exception or a
\* kill: the rows are as before, the files are not.
RolledBack(gone) ==
    /\ envelope' = WithoutFiles(gone)
    /\ lostFile' = lostFile \cup {u \in gone : voiceprints[u].path}
    /\ UNCHANGED <<voiceprints, tempFile, quarantine>>

-----------------------------------------------------------------------------
(* verify, deletion, recovery *)

\* verify() of a row read as usable: a missing or altered envelope marks it.
VerifyEnvelope(v) ==
    IF envelope[v] = "good" THEN UNCHANGED storeVars ELSE MarkFailed(v)

\* The rows that delete_for_revocation selects.
Deletable(p) ==
    {u \in Voiceprints : /\ voiceprints[u].participant = p
                         /\ Status(u) \notin {"NONE", "REVOKED", "SUPERSEDED"}}

\* delete_for_revocation, one transaction.
DeleteForRevocation(p, stuck) ==
    /\ voiceprints' = Retire(Deletable(p), stuck, "REVOKED")
    /\ envelope' = WithoutFiles(Deletable(p) \ stuck)
    /\ UNCHANGED <<tempFile, quarantine, lostFile>>

Owed == {u \in Voiceprints : Status(u) = "DELETE_PENDING"}

\* retry_pending_cleanup, one transaction.
RetryPendingCleanup(stuck) ==
    /\ voiceprints' = Retire(Owed, stuck, "REVOKED")
    /\ envelope' = WithoutFiles(Owed \ stuck)
    /\ UNCHANGED <<tempFile, quarantine, lostFile>>

Pending == {v \in Voiceprints : Status(v) = "PENDING_WRITE"}

\* An interrupted save is not completed; a usable row answers for its envelope.
Recovered(v) ==
    IF v \in Pending /\ envelope[v] = "good" THEN "RE_ENROLL_REQUIRED"
    ELSE IF v \in Pending \/ (Usable(v) /\ envelope[v] # "good") THEN "INTEGRITY_FAILED"
    ELSE Status(v)

\* recover_incomplete_operations, as far as the files and rows vs.  A complete pass
\* takes all of them; one that is killed, some.
Recover(vs) ==
    LET strayTemp == {v \in vs \ Pending : tempFile[v]}
        orphan == {v \in vs : Status(v) = "NONE" /\ envelope[v] # "none"}
    IN  /\ voiceprints' = [v \in Voiceprints |->
              IF v \in vs THEN [voiceprints[v] EXCEPT !.status = Recovered(v)]
              ELSE voiceprints[v]]
        /\ tempFile' = [v \in Voiceprints |->
              tempFile[v] /\ (v \in vs => v \in Pending /\ envelope[v] = "bad")]
        /\ envelope' = [v \in Voiceprints |-> IF v \in orphan THEN "none" ELSE envelope[v]]
        /\ quarantine' = quarantine \cup (strayTemp \X {"tmp"}) \cup (orphan \X {"vpx"})
        /\ UNCHANGED lostFile

\* Something outside the program removes or alters an envelope.
Damage(v) ==
    /\ envelope[v] = "good"
    /\ \E left \in {"none", "bad"} : envelope' = [envelope EXCEPT ![v] = left]
    /\ lostFile' = lostFile \cup {v}
    /\ UNCHANGED <<voiceprints, tempFile, quarantine>>
=============================================================================
