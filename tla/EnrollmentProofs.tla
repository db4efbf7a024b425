--------------------------- MODULE EnrollmentProofs ---------------------------
(***************************************************************************)
(* Proofs about Enrollment and its observers, for any number of people,    *)
(* templates, callers, consent events, errors and kills: the rows and the  *)
(* envelopes agree, a deleted template stays deleted, who is eligible is   *)
(* so under the consent in force, and the lock of the microphone has a     *)
(* holder.                                                                 *)
(***************************************************************************)
EXTENDS EnrollmentDoctor, TLAPS

Session == [id : Sessions \cup {0}, participant : Participants \cup {NoOne},
            consent : 0..MaxConsents, state : Live \cup Terminal \cup {"NONE"},
            samples : Seq(Participants)]
StartRead == [participant : Participants \cup {NoOne}, consent : 0..MaxConsents]
Capture == [step : {"idle", "opening", "recording", "handover"},
            of : Participants \cup {NoOne}]
Call == [step : {"idle", "event", "delete", "verify"},
         participant : Participants \cup {NoOne}, voiceprint : Voiceprints \cup {0}]

\* The type invariant in three parts, by who keeps the variables; the rows and files are
\* typed by StoreTypeOK.
ServerTyped ==
    /\ sessions \in [Sessions -> Live \cup Terminal \cup {"NONE"}]
    /\ lock \in {"free", "enrollment", "recording", "unreleased", "stale"}
    /\ active \in Session /\ pc \in Steps /\ started \in StartRead /\ capture \in Capture

PeopleTyped ==
    /\ consent \in [Participants -> 0..MaxConsents] /\ isActive \in [Participants -> BOOLEAN]
    /\ owed \subseteq Participants /\ raced \subseteq Voiceprints
    /\ mishaps \in 0..MaxMishaps

OtherTyped ==
    /\ caller \in [Callers -> Call]
    /\ key \in {NoKey, Altered} \cup 1..keysMade /\ keysMade \in Nat
    /\ sealedWith \in [Voiceprints -> 0..keysMade]

EncryptSteps == SaveSteps \cup {"check", "complete"}
RowSteps == {"rename", "readback", "markfail", "activate"}

\* Which call holds _state_lock, what the session in memory is then, and whose the lock is.
SessionInv ==
    /\ HasSession => /\ active.id \in Sessions /\ active.participant \in Participants
                     /\ sessions[active.id] \in Live /\ lock = "enrollment"
    /\ pc \in {"acquire", "insert"} => ~HasSession /\ started.participant \in Participants
    /\ pc = "insert" => lock = "enrollment"
    /\ pc = "recheck" => active.state = "EMBEDDING"
    /\ pc \in EncryptSteps => active.state = "ENCRYPTING"
    /\ lock = "enrollment" /\ pc \in {"idle", "acquire"} =>
          active.id \in Sessions /\ sessions[active.id] \in Live
    /\ capture.step # "idle" => capture.of \in Participants

\* A usable template was made under a grant that nobody has withdrawn since, unless the
\* deletion is owed or the withdrawal overlapped the save.
UnderConsent(v) ==
    LET p == voiceprints[v].participant
    IN  v \in raced \/ p \in owed \/ (Granted(p) /\ voiceprints[v].consent = consent[p])

RowInv ==
    /\ \A v \in Voiceprints :
          /\ Status(v) # "NONE" =>
                sessions[v] # "NONE" /\ voiceprints[v].participant \in Participants
          /\ Usable(v) => UnderConsent(v)
    /\ RowsAndEnvelopesAgree

Sound(v) == envelope[v] = "good" \/ v \in lostFile

\* The session has no row before its save inserts it.  While the save goes on its row is as
\* it left it and the consent as it was, unless a withdrawal has overtaken it.
SaveInv ==
    /\ HasSession /\ (active.state # "ENCRYPTING" \/ pc \in {"key", "temp", "insert_row"})
          => Status(active.id) = "NONE"
    /\ pc \in SaveSteps =>
          \/ active.id \in raced
          \/ Granted(active.participant) /\ active.consent = consent[active.participant]
    /\ pc \in RowSteps =>
          /\ Status(active.id) # "NONE"
          /\ voiceprints[active.id].participant = active.participant
          /\ voiceprints[active.id].consent = active.consent
          /\ \/ active.id \in raced
             \/ Status(active.id) = "PENDING_WRITE" /\ voiceprints[active.id].path
    /\ pc = "activate" /\ voiceprints[active.id].path => Sound(active.id)

\* A template that a caller has read as usable has long had its row.
CallerInv ==
    \A c \in Callers :
        /\ caller[c].step = "verify" =>
              /\ caller[c].voiceprint \in Voiceprints
              /\ Status(caller[c].voiceprint) \notin {"NONE", "PENDING_WRITE"}
        /\ caller[c].step \in {"event", "delete"} => caller[c].participant \in Participants

Typed == StoreTypeOK /\ ServerTyped /\ PeopleTyped /\ OtherTyped

IInv == Typed /\ SessionInv /\ RowInv /\ SaveInv /\ CallerInv

-----------------------------------------------------------------------------
(* What the operations of the store do, row by row *)

Row == [status : Statuses, path : BOOLEAN,
        participant : Participants \cup {NoOne}, consent : Nat]

LEMMA StoreTyping ==
  /\ StoreTypeOK <=>
       /\ voiceprints \in [Voiceprints -> Row]
       /\ tempFile \in [Voiceprints -> BOOLEAN]
       /\ envelope \in [Voiceprints -> {"none", "good", "bad"}]
       /\ quarantine \subseteq Voiceprints \X {"tmp", "vpx"}
       /\ lostFile \subseteq Voiceprints
  /\ StoreTypeOK' <=>
       /\ voiceprints' \in [Voiceprints -> Row]
       /\ tempFile' \in [Voiceprints -> BOOLEAN]
       /\ envelope' \in [Voiceprints -> {"none", "good", "bad"}]
       /\ quarantine' \subseteq Voiceprints \X {"tmp", "vpx"}
       /\ lostFile' \subseteq Voiceprints
BY Zenon DEF StoreTypeOK, Row

LEMMA RowParts ==
  ASSUME StoreTypeOK, NEW v \in Voiceprints
  PROVE  /\ voiceprints[v] \in Row /\ Status(v) \in Statuses /\ voiceprints[v].path \in BOOLEAN
         /\ voiceprints[v].participant \in Participants \cup {NoOne}
         /\ voiceprints[v].consent \in Nat /\ envelope[v] \in {"none", "good", "bad"}
BY StoreTyping DEF Row, Status

\* A status that is changed in place leaves the rest of the row.
LEMMA StatusSet ==
  ASSUME NEW r \in Row, NEW s \in Statuses
  PROVE  /\ [r EXCEPT !.status = s] \in Row /\ [r EXCEPT !.status = s].status = s
         /\ [r EXCEPT !.status = s].path = r.path
         /\ [r EXCEPT !.status = s].participant = r.participant
         /\ [r EXCEPT !.status = s].consent = r.consent
BY DEF Row

LEMMA RowRetired ==
  ASSUME NEW r \in Row, NEW s \in Statuses
  PROVE  /\ [r EXCEPT !.status = s, !.path = FALSE] \in Row
         /\ [r EXCEPT !.status = s, !.path = FALSE].status = s
         /\ [r EXCEPT !.status = s, !.path = FALSE].path = FALSE
         /\ [r EXCEPT !.status = s, !.path = FALSE].participant = r.participant
         /\ [r EXCEPT !.status = s, !.path = FALSE].consent = r.consent
BY DEF Row

\* The rows after a retirement.
LEMMA RetireIs ==
  ASSUME StoreTypeOK, NEW vs \in SUBSET Voiceprints, NEW stuck, NEW s \in Statuses
  PROVE  /\ Retire(vs, stuck, s) \in [Voiceprints -> Row]
         /\ \A u \in Voiceprints :
               /\ Retire(vs, stuck, s)[u].participant = voiceprints[u].participant
               /\ Retire(vs, stuck, s)[u].consent = voiceprints[u].consent
               /\ u \notin vs => Retire(vs, stuck, s)[u] = voiceprints[u]
               /\ u \in vs /\ u \in stuck =>
                     /\ Retire(vs, stuck, s)[u].status = "DELETE_PENDING"
                     /\ Retire(vs, stuck, s)[u].path = voiceprints[u].path
               /\ u \in vs /\ u \notin stuck =>
                     /\ Retire(vs, stuck, s)[u].status = s
                     /\ ~Retire(vs, stuck, s)[u].path
<1>. "DELETE_PENDING" \in Statuses
  BY DEF Statuses
<1>1. ASSUME NEW u \in Voiceprints
      PROVE  LET r == IF u \in vs \ stuck
                        THEN [voiceprints[u] EXCEPT !.status = s, !.path = FALSE]
                      ELSE IF u \in vs
                        THEN [voiceprints[u] EXCEPT !.status = "DELETE_PENDING"]
                      ELSE voiceprints[u]
             IN  /\ Retire(vs, stuck, s)[u] = r /\ r \in Row
                 /\ r.participant = voiceprints[u].participant
                 /\ r.consent = voiceprints[u].consent
                 /\ u \notin vs => r = voiceprints[u]
                 /\ u \in vs /\ u \in stuck =>
                       r.status = "DELETE_PENDING" /\ r.path = voiceprints[u].path
                 /\ u \in vs /\ u \notin stuck => r.status = s /\ ~r.path
  <2>1. voiceprints[u] \in Row
    BY RowParts
  <2>2. CASE u \in vs \ stuck
    BY <2>1, <2>2, RowRetired DEF Retire
  <2>3. CASE u \in vs /\ u \in stuck
    BY <2>1, <2>3, StatusSet DEF Retire
  <2>4. CASE u \notin vs
    BY <2>1, <2>4 DEF Retire
  <2>. QED
    BY <2>2, <2>3, <2>4
<1>2. Retire(vs, stuck, s) = [u \in Voiceprints |-> Retire(vs, stuck, s)[u]]
  BY DEF Retire
<1>. QED
  BY <1>1, <1>2

LEMMA RetiredRow ==
  ASSUME StoreTypeOK, NEW vs \in SUBSET Voiceprints, NEW stuck, NEW s \in Statuses,
         NEW u \in Voiceprints
  PROVE  /\ Retire(vs, stuck, s)[u].participant = voiceprints[u].participant
         /\ Retire(vs, stuck, s)[u].consent = voiceprints[u].consent
         /\ u \notin vs => Retire(vs, stuck, s)[u] = voiceprints[u]
         /\ u \in vs /\ u \in stuck =>
               /\ Retire(vs, stuck, s)[u].status = "DELETE_PENDING"
               /\ Retire(vs, stuck, s)[u].path = voiceprints[u].path
         /\ u \in vs /\ u \notin stuck =>
               /\ Retire(vs, stuck, s)[u].status = s
               /\ ~Retire(vs, stuck, s)[u].path
BY RetireIs

LEMMA WithoutFilesIs ==
  ASSUME StoreTypeOK, NEW vs
  PROVE  /\ WithoutFiles(vs) \in [Voiceprints -> {"none", "good", "bad"}]
         /\ \A u \in Voiceprints :
               /\ u \in vs /\ voiceprints[u].path => WithoutFiles(vs)[u] = "none"
               /\ u \notin vs \/ ~voiceprints[u].path => WithoutFiles(vs)[u] = envelope[u]
BY DEF WithoutFiles, StoreTypeOK

\* A status that an operation sets by identifier.
LEMMA MarkIs ==
  ASSUME StoreTypeOK, NEW v \in Voiceprints, NEW s \in Statuses,
         voiceprints' = [voiceprints EXCEPT ![v].status = s]
  PROVE  /\ voiceprints' \in [Voiceprints -> Row]
         /\ \A u \in Voiceprints :
               /\ voiceprints'[u].status = IF u = v THEN s ELSE voiceprints[u].status
               /\ voiceprints'[u].path = voiceprints[u].path
               /\ voiceprints'[u].participant = voiceprints[u].participant
               /\ voiceprints'[u].consent = voiceprints[u].consent
<1>1. voiceprints \in [Voiceprints -> Row] /\ voiceprints[v] \in Row
  BY StoreTyping, RowParts
<1>2. voiceprints' = [voiceprints EXCEPT ![v] = [voiceprints[v] EXCEPT !.status = s]]
  OBVIOUS
<1>. QED
  BY <1>1, <1>2, StatusSet

\* Each operation of the store keeps the types of its rows and files.
LEMMA SaveOpTypes ==
  ASSUME StoreTypeOK, NEW v \in Voiceprints,
         WriteTemp(v) \/ DropTemp(v) \/ Rename(v) \/ FailSave(v) \/ MarkFailed(v)
  PROVE  StoreTypeOK'
<1>. USE StoreTyping
<1>. "INTEGRITY_FAILED" \in Statuses
  BY DEF Statuses
<1>1. CASE WriteTemp(v) \/ DropTemp(v)
  BY <1>1 DEF WriteTemp, DropTemp
<1>2. CASE Rename(v)
  BY <1>2 DEF Rename
<1>3. CASE FailSave(v)
  BY <1>3, MarkIs DEF FailSave
<1>4. CASE MarkFailed(v)
  BY <1>4, MarkIs DEF MarkFailed
<1>. QED
  BY <1>1, <1>2, <1>3, <1>4

LEMMA InsertIs ==
  ASSUME StoreTypeOK, NEW v \in Voiceprints, NEW p \in Participants, NEW c \in Nat,
         InsertPending(v, p, c)
  PROVE  /\ StoreTypeOK' /\ UNCHANGED <<envelope, lostFile>>
         /\ \A u \in Voiceprints : u # v => voiceprints'[u] = voiceprints[u]
         /\ voiceprints'[v] = [status |-> "PENDING_WRITE", path |-> TRUE,
                               participant |-> p, consent |-> c]
<1>. DEFINE r == [status |-> "PENDING_WRITE", path |-> TRUE, participant |-> p, consent |-> c]
<1>1. r \in Row /\ voiceprints' = [voiceprints EXCEPT ![v] = r]
  BY DEF Row, Statuses, InsertPending
<1>. HIDE DEF r
<1>2. voiceprints' \in [Voiceprints -> Row]
  BY <1>1, StoreTyping
<1>3. /\ voiceprints'[v] = r
      /\ \A u \in Voiceprints : u # v => voiceprints'[u] = voiceprints[u]
  BY <1>1, StoreTyping
<1>4. StoreTypeOK' /\ UNCHANGED <<envelope, lostFile>>
  BY <1>2, StoreTyping DEF InsertPending
<1>. QED
  BY <1>3, <1>4 DEF r

\* One transaction that retires rows and unlinks the envelopes of those that had one.
LEMMA UnlinkIs ==
  ASSUME StoreTypeOK, NEW vs \in SUBSET Voiceprints, NEW stuck, NEW s \in Statuses,
         voiceprints' = Retire(vs, stuck, s), envelope' = WithoutFiles(vs \ stuck),
         UNCHANGED <<tempFile, quarantine, lostFile>>
  PROVE  StoreTypeOK'
BY RetireIs, WithoutFilesIs, StoreTyping

LEMMA RevokedIs ==
  ASSUME StoreTypeOK, NEW p \in Participants, NEW stuck, DeleteForRevocation(p, stuck)
  PROVE  /\ StoreTypeOK' /\ Deletable(p) \in SUBSET Voiceprints
         /\ voiceprints' = Retire(Deletable(p), stuck, "REVOKED")
         /\ envelope' = WithoutFiles(Deletable(p) \ stuck) /\ UNCHANGED lostFile
<1>1. Deletable(p) \in SUBSET Voiceprints /\ "REVOKED" \in Statuses
  BY DEF Deletable, Statuses
<1>. QED
  BY <1>1, UnlinkIs DEF DeleteForRevocation

LEMMA CleanedIs ==
  ASSUME StoreTypeOK, NEW stuck, RetryPendingCleanup(stuck)
  PROVE  /\ StoreTypeOK' /\ Owed \in SUBSET Voiceprints
         /\ voiceprints' = Retire(Owed, stuck, "REVOKED")
         /\ envelope' = WithoutFiles(Owed \ stuck) /\ UNCHANGED lostFile
<1>1. Owed \in SUBSET Voiceprints /\ "REVOKED" \in Statuses
  BY DEF Owed, Statuses
<1>. QED
  BY <1>1, UnlinkIs DEF RetryPendingCleanup

LEMMA ActivateIs ==
  ASSUME StoreTypeOK, NEW v \in Voiceprints, NEW stuck, Activate(v, stuck)
  PROVE  /\ StoreTypeOK' /\ UNCHANGED lostFile /\ voiceprints[v].path
         /\ envelope' = WithoutFiles(Superseded(v) \ stuck)
         /\ voiceprints'[v].status = "ACTIVE" /\ voiceprints'[v].path
         /\ \A u \in Voiceprints :
               /\ voiceprints'[u].participant = voiceprints[u].participant
               /\ voiceprints'[u].consent = voiceprints[u].consent
               /\ u # v => voiceprints'[u] = Retire(Superseded(v), stuck, "SUPERSEDED")[u]
<1>. DEFINE s == "SUPERSEDED"
            old == Superseded(v)
            R == Retire(old, stuck, s)
<1>0. old \in SUBSET Voiceprints /\ v \notin old /\ s \in Statuses /\ "ACTIVE" \in Statuses
  BY DEF Superseded, Statuses
<1>1. /\ R \in [Voiceprints -> Row] /\ R[v] = voiceprints[v]
      /\ \A u \in Voiceprints :
            R[u].participant = voiceprints[u].participant /\ R[u].consent = voiceprints[u].consent
  <2>. HIDE DEF s, old
  <2>1. R \in [Voiceprints -> Row]
    BY <1>0, RetireIs
  <2>2. ASSUME NEW u \in Voiceprints
        PROVE  /\ R[u].participant = voiceprints[u].participant
               /\ R[u].consent = voiceprints[u].consent
    BY <1>0, RetiredRow
  <2>3. R[v] = voiceprints[v]
    BY <1>0, RetiredRow
  <2>. QED
    BY <2>1, <2>2, <2>3
<1>2. /\ voiceprints' = [R EXCEPT ![v] = [R[v] EXCEPT !.status = "ACTIVE"]]
      /\ envelope' = WithoutFiles(Superseded(v) \ stuck) /\ voiceprints[v].path
      /\ UNCHANGED <<tempFile, quarantine, lostFile>>
  BY DEF Activate, Activatable
<1>. HIDE DEF R
<1>. DEFINE r == [R[v] EXCEPT !.status = "ACTIVE"]
<1>3. /\ r \in Row /\ r.status = "ACTIVE" /\ r.path = voiceprints[v].path
      /\ r.participant = voiceprints[v].participant /\ r.consent = voiceprints[v].consent
  BY <1>0, <1>1, StatusSet
<1>4. voiceprints' = [R EXCEPT ![v] = r]
  BY <1>2
<1>. HIDE DEF r
<1>5. /\ voiceprints' \in [Voiceprints -> Row] /\ voiceprints'[v] = r
      /\ \A u \in Voiceprints : u # v => voiceprints'[u] = R[u]
  BY <1>1, <1>3, <1>4
<1>6. StoreTypeOK'
  BY <1>2, <1>5, WithoutFilesIs, StoreTyping
<1>7. \A u \in Voiceprints :
         /\ voiceprints'[u].participant = voiceprints[u].participant
         /\ voiceprints'[u].consent = voiceprints[u].consent
  BY <1>1, <1>3, <1>5
<1>8. \A u \in Voiceprints : u # v => voiceprints'[u] = Retire(Superseded(v), stuck, "SUPERSEDED")[u]
  BY <1>5 DEF R
<1>9. voiceprints'[v].status = "ACTIVE" /\ voiceprints'[v].path
  BY <1>2, <1>3, <1>5
<1>. QED
  BY <1>2, <1>6, <1>7, <1>8, <1>9

LEMMA RollBackTypes ==
  ASSUME StoreTypeOK, NEW gone \in SUBSET Voiceprints, RolledBack(gone)
  PROVE  StoreTypeOK'
BY WithoutFilesIs, StoreTyping DEF RolledBack

LEMMA DamageTypes ==
  ASSUME StoreTypeOK, NEW v \in Voiceprints, Damage(v)
  PROVE  StoreTypeOK'
BY StoreTyping DEF Damage

LEMMA RecoverIs ==
  ASSUME StoreTypeOK, NEW vs \in SUBSET Voiceprints, Recover(vs)
  PROVE  /\ StoreTypeOK' /\ UNCHANGED lostFile
         /\ \A u \in Voiceprints :
               /\ voiceprints'[u].status = IF u \in vs THEN Recovered(u) ELSE Status(u)
               /\ voiceprints'[u].path = voiceprints[u].path
               /\ voiceprints'[u].participant = voiceprints[u].participant
               /\ voiceprints'[u].consent = voiceprints[u].consent
               /\ envelope'[u] = IF u \in vs /\ Status(u) = "NONE" THEN "none" ELSE envelope[u]
<1>1. \A u \in Voiceprints : Recovered(u) \in Statuses
  BY RowParts DEF Recovered, Statuses
<1>2. voiceprints' = [u \in Voiceprints |->
          IF u \in vs THEN [voiceprints[u] EXCEPT !.status = Recovered(u)] ELSE voiceprints[u]]
  BY DEF Recover
<1>3. ASSUME NEW u \in Voiceprints
      PROVE  /\ voiceprints'[u] \in Row
             /\ voiceprints'[u].status = IF u \in vs THEN Recovered(u) ELSE Status(u)
             /\ voiceprints'[u].path = voiceprints[u].path
             /\ voiceprints'[u].participant = voiceprints[u].participant
             /\ voiceprints'[u].consent = voiceprints[u].consent
  <2>1. CASE u \in vs
    <3>1. voiceprints'[u] = [voiceprints[u] EXCEPT !.status = Recovered(u)]
      BY <1>2, <2>1
    <3>. QED
      BY <1>1, <2>1, <3>1, RowParts, StatusSet
  <2>2. CASE u \notin vs
    BY <1>2, <2>2, RowParts DEF Status
  <2>. QED
    BY <2>1, <2>2
<1>4. voiceprints' \in [Voiceprints -> Row]
  <2>1. voiceprints' = [u \in Voiceprints |-> voiceprints'[u]]
    BY <1>2
  <2>. QED
    BY <1>3, <2>1
<1>5. \A u \in Voiceprints :
         envelope'[u] = IF u \in vs /\ Status(u) = "NONE" THEN "none" ELSE envelope[u]
  BY RowParts DEF Recover
<1>6. /\ tempFile' \in [Voiceprints -> BOOLEAN] /\ UNCHANGED lostFile
      /\ envelope' \in [Voiceprints -> {"none", "good", "bad"}]
      /\ quarantine' \subseteq Voiceprints \X {"tmp", "vpx"}
  BY StoreTyping DEF Recover
<1>7. StoreTypeOK'
  BY <1>4, <1>6, StoreTyping
<1>. QED
  BY <1>3, <1>5, <1>6, <1>7

-----------------------------------------------------------------------------
(* Types *)

LEMMA SessionParts ==
  ASSUME ServerTyped
  PROVE  /\ active \in Session /\ active.id \in Sessions \cup {0}
         /\ active.participant \in Participants \cup {NoOne}
         /\ active.consent \in 0..MaxConsents /\ active.consent \in Nat
         /\ active.state \in Live \cup Terminal \cup {"NONE"}
         /\ active.samples \in Seq(Participants)
         /\ pc \in Steps /\ lock \in {"free", "enrollment", "recording", "unreleased", "stale"}
BY DEF ServerTyped, Session

\* During finalize, once it encrypts, there is a session and it holds the lock.
LEMMA AtSave ==
  ASSUME IInv, pc \in EncryptSteps
  PROVE  /\ HasSession /\ active.state = "ENCRYPTING" /\ lock = "enrollment"
         /\ active.id \in Voiceprints /\ active.participant \in Participants
         /\ active.consent \in Nat /\ sessions[active.id] \in Live
BY SessionParts DEF IInv, Typed, SessionInv, HasSession, Live, Sessions

LEMMA SaveStoreTypes ==
  ASSUME IInv, SaveNext
  PROVE  StoreTypeOK'
<1>. DEFINE v == active.id
<1>1. StoreTypeOK
  BY DEF IInv, Typed
<1>2. pc \in EncryptSteps => v \in Voiceprints
  BY AtSave
<1>3. CASE SaveKey \/ SaveReadBack \/ Complete
  BY <1>1, <1>3, StoreTyping DEF SaveKey, SaveReadBack, Complete, storeVars
<1>4. CASE SaveTemp
  <2>1. pc \in EncryptSteps /\ (WriteTemp(v) \/ UNCHANGED storeVars)
    BY <1>4 DEF SaveTemp, At, EncryptSteps, SaveSteps
  <2>. QED
    BY <1>1, <1>2, <2>1, SaveOpTypes, StoreTyping DEF storeVars
<1>5. CASE SaveRow
  <2>1. /\ pc \in EncryptSteps
        /\ InsertPending(v, active.participant, active.consent) \/ DropTemp(v)
    BY <1>5 DEF SaveRow, At, EncryptSteps, SaveSteps
  <2>. QED
    BY <1>1, <1>2, <2>1, AtSave, InsertIs, SaveOpTypes
<1>6. CASE SaveRename
  <2>1. pc \in EncryptSteps /\ (Rename(v) \/ UNCHANGED storeVars)
    BY <1>6 DEF SaveRename, At, EncryptSteps, SaveSteps
  <2>. QED
    BY <1>1, <1>2, <2>1, SaveOpTypes, StoreTyping DEF storeVars
<1>7. CASE SaveMark
  <2>1. pc \in EncryptSteps /\ (FailSave(v) \/ UNCHANGED storeVars)
    BY <1>7 DEF SaveMark, At, EncryptSteps, SaveSteps
  <2>. QED
    BY <1>1, <1>2, <2>1, SaveOpTypes, StoreTyping DEF storeVars
<1>8. CASE SaveActivate
  <2>1. /\ pc \in EncryptSteps
        /\ \/ \E stuck \in SUBSET CanStick(Superseded(v)) : Activate(v, stuck)
           \/ \E gone \in SUBSET Superseded(v) : RolledBack(gone)
    BY <1>8 DEF SaveActivate, At, EncryptSteps, SaveSteps
  <2>2. Superseded(v) \subseteq Voiceprints
    BY DEF Superseded
  <2>. QED
    BY <1>1, <1>2, <2>1, <2>2, ActivateIs, RollBackTypes
<1>9. CASE VerifyOwn
  <2>1. pc \in EncryptSteps /\ (VerifyEnvelope(v) \/ UNCHANGED storeVars)
    BY <1>9 DEF VerifyOwn, At, EncryptSteps
  <2>2. MarkFailed(v) \/ UNCHANGED storeVars
    BY <2>1 DEF VerifyEnvelope
  <2>. QED
    BY <1>1, <1>2, <2>1, <2>2, SaveOpTypes, StoreTyping DEF storeVars
<1>. QED
  BY <1>3, <1>4, <1>5, <1>6, <1>7, <1>8, <1>9 DEF SaveNext

LEMMA SessionStoreStays ==
  ASSUME SessionNext
  PROVE  UNCHANGED storeVars
BY DEF SessionNext, Start, AcquireLock, InsertSession, ClaimCapture, OpenStream, TakeSample,
       Cancel, GiveUpSample, AddSample, Finalize, Recheck, RestOfCapture

LEMMA CallerStoreTypes ==
  ASSUME IInv, NEW c \in Callers, CallerNext(c)
  PROVE  StoreTypeOK'
<1>1. StoreTypeOK
  BY DEF IInv, Typed
<1>2. CASE (\E p \in Participants : Revoke(c, p)) \/ RevokeEvent(c)
           \/ (\E v \in Voiceprints : VerifyRead(c, v))
  BY <1>1, <1>2, StoreTyping DEF Revoke, RevokeEvent, VerifyRead, storeVars
<1>3. CASE RevokeDelete(c)
  <2>1. caller[c].participant \in Participants
    BY <1>3 DEF IInv, CallerInv, RevokeDelete, CallerAt
  <2>2. Deletable(caller[c].participant) \subseteq Voiceprints
    BY DEF Deletable
  <2>3. \/ \E stuck : DeleteForRevocation(caller[c].participant, stuck)
        \/ \E gone \in SUBSET Deletable(caller[c].participant) : RolledBack(gone)
    BY <1>3 DEF RevokeDelete
  <2>. QED
    BY <1>1, <2>1, <2>2, <2>3, RevokedIs, RollBackTypes
<1>4. CASE RetryCleanup(c)
  BY <1>1, <1>4, CleanedIs DEF RetryCleanup
<1>5. CASE VerifyCheck(c)
  <2>1. caller[c].voiceprint \in Voiceprints
    BY <1>5 DEF IInv, CallerInv, VerifyCheck, CallerAt
  <2>2. MarkFailed(caller[c].voiceprint) \/ UNCHANGED storeVars
    BY <1>5 DEF VerifyCheck, VerifyEnvelope
  <2>. QED
    BY <1>1, <2>1, <2>2, SaveOpTypes, StoreTyping DEF storeVars
<1>6. CASE KillCommand(c)
  <2>1. UnlinkedBy(c) \subseteq Voiceprints
    BY DEF UnlinkedBy, Deletable
  <2>. QED
    BY <1>1, <1>6, <2>1, RollBackTypes DEF KillCommand
<1>. QED
  BY <1>2, <1>3, <1>4, <1>5, <1>6 DEF CallerNext

LEMMA OthersStoreTypes ==
  ASSUME IInv, Environment
  PROVE  StoreTypeOK'
<1>1. StoreTypeOK
  BY DEF IInv, Typed
<1>2. CASE (\E p \in Participants : Grant(p) \/ SetActive(p))
           \/ MeetingStarts \/ MeetingEnds \/ LoseKeyFile
  BY <1>1, <1>2, StoreTyping DEF Grant, SetActive, MeetingStarts, MeetingEnds, LoseKeyFile, storeVars
<1>3. CASE RecoverStore \/ \E vs \in SUBSET Voiceprints : RecoverySomeThenKilled(vs)
  <2>1. \E vs \in SUBSET Voiceprints : Recover(vs)
    BY <1>3 DEF RecoverStore, RecoverySomeThenKilled
  <2>. QED
    BY <1>1, <2>1, RecoverIs
<1>4. CASE KillServer
  <2>1. UnlinkedByServer \cup UNION {UnlinkedBy(c) : c \in Api} \subseteq Voiceprints
    BY DEF UnlinkedByServer, UnlinkedBy, Deletable, Superseded
  <2>. QED
    BY <1>1, <1>4, <2>1, RollBackTypes DEF KillServer
<1>5. CASE DamageEnvelope
  BY <1>1, <1>5, DamageTypes DEF DamageEnvelope
<1>. QED
  BY <1>2, <1>3, <1>4, <1>5 DEF Environment

LEMMA StoreStep == IInv /\ [Next]_vars => StoreTypeOK'
<1>. SUFFICES ASSUME IInv, [Next]_vars PROVE StoreTypeOK'
  OBVIOUS
<1>1. CASE UNCHANGED storeVars
  BY <1>1, StoreTyping DEF IInv, Typed, storeVars
<1>2. CASE UNCHANGED vars
  BY <1>1, <1>2 DEF vars
<1>. QED
  BY <1>1, <1>2, SaveStoreTypes, SessionStoreStays, CallerStoreTypes, OthersStoreTypes DEF Next

\* What becomes of the session in memory, its row and the lock.
LEMMA NothingInMemory ==
  NoSession \in Session /\ NoSession.state = "NONE" /\ NoSession.id = 0
<1>1. 0 \in 0..MaxConsents
  BY EnrollmentAssumption
<1>. QED
  BY <1>1 DEF NoSession, Session

LEMMA NewSession ==
  ASSUME NEW i \in Sessions \cup {0}, NEW s \in Live \cup Terminal \cup {"NONE"}
  PROVE  /\ [NoSession EXCEPT !.id = i, !.state = s] \in Session
         /\ [NoSession EXCEPT !.id = i, !.state = s].id = i
         /\ [NoSession EXCEPT !.id = i, !.state = s].state = s
<1>1. ASSUME NEW r \in Session
      PROVE  /\ [r EXCEPT !.id = i, !.state = s] \in Session
             /\ [r EXCEPT !.id = i, !.state = s].id = i
             /\ [r EXCEPT !.id = i, !.state = s].state = s
  BY DEF Session
<1>. QED
  BY <1>1, NothingInMemory

LEMMA EndIs ==
  ASSUME ServerTyped, active.id \in Sessions, NEW s \in Terminal, End(s)
  PROVE  /\ sessions' \in [Sessions -> Live \cup Terminal \cup {"NONE"}]
         /\ lock' \in {"free", "unreleased"}
BY DEF End, Released, ServerTyped

\* The session is over in memory; its row is closed and the lock released, or neither.
Closes(s) == Over(s) /\ (End(s) \/ UNCHANGED <<sessions, lock>>)

LEMMA ClosesIs ==
  ASSUME ServerTyped, active.id \in Sessions, NEW s \in Terminal, Closes(s)
  PROVE  /\ active' \in Session /\ active'.id = active.id /\ active'.state = s
         /\ sessions' \in [Sessions -> Live \cup Terminal \cup {"NONE"}]
         /\ lock' \in {"free", "unreleased"} \/ UNCHANGED <<sessions, lock>>
<1>1. active.id \in Sessions \cup {0} /\ s \in Live \cup Terminal \cup {"NONE"}
  OBVIOUS
<1>2. active' \in Session /\ active'.id = active.id /\ active'.state = s
  BY <1>1, NewSession DEF Closes, Over
<1>. QED
  BY <1>2, EndIs DEF Closes, ServerTyped

LEMMA FailIs ==
  ASSUME Fail \/ FailedByFault
  PROVE  Closes("FAILED") /\ "FAILED" \in Terminal /\ (Fault \/ UNCHANGED mishaps)
BY DEF Fail, FailedByFault, Closes, Terminal

LEMMA AbandonIs ==
  ASSUME ServerTyped, Abandon
  PROVE  /\ "FAILED" \in Terminal /\ (Fault \/ UNCHANGED mishaps)
         /\ (End("FAILED") /\ active' = NoSession) \/ Closes("FAILED")
BY DEF Abandon, Closes, Terminal

LEMMA EnterIs ==
  ASSUME ServerTyped, active.id \in Sessions, NEW s \in Live, Enter(s)
  PROVE  /\ active' \in Session /\ active'.id = active.id /\ active'.state = s
         /\ active'.participant = active.participant /\ active'.consent = active.consent
         /\ sessions' \in [Sessions -> Live \cup Terminal \cup {"NONE"}]
         /\ sessions'[active.id] = s
BY DEF Enter, ServerTyped, Session

\* What a step of the save does to the session and the lock: it goes on or is left by an
\* error, it fails, or it completes.
LEMMA SaveMoves ==
  ASSUME SaveNext
  PROVE  /\ pc \in EncryptSteps /\ UNCHANGED <<started, capture, consent, isActive, caller>>
         /\ UNCHANGED <<owed, raced>> /\ (Fault \/ UNCHANGED mishaps)
         /\ \/ /\ UNCHANGED <<sessions, lock>> /\ pc' \in EncryptSteps \cup {"idle"}
               /\ active' \in {active, [active EXCEPT !.samples = <<>>]}
            \/ pc' = "idle" /\ \E s \in Terminal : Closes(s)
            \/ pc' = "idle" /\ End("COMPLETED") /\ active' = NoSession
<1>. USE DEF EncryptSteps, SaveSteps, people
<1>1. CASE SaveKey
  BY <1>1, FailIs DEF SaveKey, Proceed, Failed, FailedByFault
<1>2. CASE SaveTemp
  BY <1>2, FailIs DEF SaveTemp, At, Proceed, FailedByFault
<1>3. CASE SaveRow
  BY <1>3, FailIs DEF SaveRow, At, Proceed, FailedByFault
<1>4. CASE SaveRename
  BY <1>4, FailIs DEF SaveRename, At, Proceed
<1>5. CASE SaveReadBack
  BY <1>5, FailIs DEF SaveReadBack, At, Proceed
<1>6. CASE SaveMark
  BY <1>6, FailIs DEF SaveMark, At, Failed, FailedByFault
<1>7. CASE SaveActivate
  BY <1>7, FailIs DEF SaveActivate, At, Failed, FailedByFault
<1>8. CASE VerifyOwn
  BY <1>8, FailIs DEF VerifyOwn, At, Proceed, Escape
<1>9. CASE Complete
  BY <1>9, FailIs DEF Complete, At, Escape, Closes, Terminal
<1>. QED
  BY <1>1, <1>2, <1>3, <1>4, <1>5, <1>6, <1>7, <1>8, <1>9 DEF SaveNext

-----------------------------------------------------------------------------
(* The session in memory, its row and the lock *)

CaptureInv == capture \in Capture /\ (capture.step # "idle" => capture.of \in Participants)

\* However a session ends, nobody holds the lock after it who may not.
LEMMA Closed ==
  ASSUME ServerTyped, SessionInv, HasSession, NEW s \in Terminal,
         Closes(s) \/ (End(s) /\ active' = NoSession),
         pc' = "idle", started' \in StartRead, CaptureInv'
  PROVE  ServerTyped' /\ SessionInv'
<1>0. active.id \in Sessions /\ sessions[active.id] \in Live
  BY DEF SessionInv
<1>1. /\ active' \in Session /\ active'.state \notin Live
      /\ sessions' \in [Sessions -> Live \cup Terminal \cup {"NONE"}]
      /\ \/ lock' \in {"free", "unreleased"}
         \/ UNCHANGED <<sessions, lock>> /\ active'.id = active.id
  <2>1. CASE Closes(s)
    BY <1>0, <2>1, ClosesIs DEF Live, Terminal
  <2>2. CASE End(s) /\ active' = NoSession
    BY <1>0, <2>2, EndIs, NothingInMemory DEF Live
  <2>. QED
    BY <2>1, <2>2
<1>2. ServerTyped'
  BY <1>1 DEF ServerTyped, Steps, CaptureInv
<1>3. SessionInv'
  BY <1>0, <1>1 DEF SessionInv, HasSession, CaptureInv, EncryptSteps, SaveSteps
<1>. QED
  BY <1>2, <1>3

LEMMA SamplesSet ==
  ASSUME NEW r \in Session, NEW q \in Seq(Participants)
  PROVE  /\ [r EXCEPT !.samples = q] \in Session /\ [r EXCEPT !.samples = q].id = r.id
         /\ [r EXCEPT !.samples = q].state = r.state
         /\ [r EXCEPT !.samples = q].participant = r.participant
         /\ [r EXCEPT !.samples = q].consent = r.consent
BY DEF Session

\* A save drops the samples once the row is usable.
LEMMA SamplesDropped ==
  ASSUME ServerTyped, active' \in {active, [active EXCEPT !.samples = <<>>]}
  PROVE  /\ active' \in Session /\ active'.id = active.id /\ active'.state = active.state
         /\ active'.participant = active.participant /\ active'.consent = active.consent
<1>. DEFINE q == <<>>
<1>1. q \in Seq(Participants) /\ active' \in {active, [active EXCEPT !.samples = q]}
  OBVIOUS
<1>. HIDE DEF q
<1>. QED
  BY <1>1, SessionParts, SamplesSet

LEMMA SaveServer ==
  ASSUME IInv, SaveNext
  PROVE  ServerTyped' /\ SessionInv'
<1>1. /\ ServerTyped /\ SessionInv /\ HasSession /\ active.state = "ENCRYPTING"
      /\ active.id \in Sessions /\ active \in Session /\ pc \in EncryptSteps
      /\ active.participant \in Participants /\ sessions[active.id] \in Live
      /\ lock = "enrollment"
  BY SaveMoves, AtSave, SessionParts DEF IInv, Typed, Sessions
<1>2. started' \in StartRead /\ CaptureInv' /\ UNCHANGED <<started, capture>>
  BY <1>1, SaveMoves DEF ServerTyped, SessionInv, CaptureInv
<1>3. CASE /\ UNCHANGED <<sessions, lock>> /\ pc' \in EncryptSteps \cup {"idle"}
           /\ active' \in {active, [active EXCEPT !.samples = <<>>]}
  <2>1. /\ active' \in Session /\ active'.id = active.id /\ active'.state = active.state
        /\ active'.participant = active.participant
    BY <1>1, <1>3, SamplesDropped
  <2>2. ServerTyped'
    BY <1>1, <1>2, <1>3, <2>1 DEF ServerTyped, Steps, EncryptSteps, SaveSteps
  <2>3. SessionInv'
    BY <1>1, <1>2, <1>3, <2>1 DEF SessionInv, HasSession, CaptureInv, EncryptSteps, SaveSteps
  <2>. QED
    BY <2>2, <2>3
<1>4. CASE pc' = "idle" /\ \E s \in Terminal : Closes(s)
  BY <1>1, <1>2, <1>4, Closed
<1>5. CASE pc' = "idle" /\ End("COMPLETED") /\ active' = NoSession
  <2>1. "COMPLETED" \in Terminal
    BY DEF Terminal
  <2>. QED
    BY <1>1, <1>2, <1>5, <2>1, Closed
<1>. QED
  BY <1>3, <1>4, <1>5, SaveMoves

\* A start: it has read a participant, holds the lock, and then has a session.
LEMMA StartServer ==
  ASSUME IInv, (\E p \in Participants : Start(p)) \/ AcquireLock \/ InsertSession
  PROVE  ServerTyped' /\ SessionInv'
<1>1. ServerTyped /\ SessionInv /\ active \in Session /\ active.id \in Sessions \cup {0}
  BY SessionParts DEF IInv, Typed
<1>2. ASSUME NEW p \in Participants, Start(p) PROVE ServerTyped' /\ SessionInv'
  <2>1. started' \in StartRead /\ started'.participant = p
    <3>1. consent[p] \in 0..MaxConsents
      BY DEF IInv, Typed, PeopleTyped
    <3>. QED
      BY <1>2, <3>1 DEF Start, StartRead
  <2>2. UNCHANGED <<sessions, lock, active, capture>> /\ pc = "idle" /\ pc' = "acquire"
    BY <1>2 DEF Start, Idle
  <2>3. ~HasSession /\ ~HasSession'
    BY <1>2, <2>2 DEF Start, HasSession
  <2>4. ServerTyped'
    BY <1>1, <2>1, <2>2 DEF ServerTyped, Steps
  <2>. QED
    BY <1>1, <2>1, <2>2, <2>3, <2>4 DEF SessionInv, EncryptSteps, SaveSteps
<1>3. CASE AcquireLock
  <2>1. /\ UNCHANGED <<sessions, active, capture>> /\ pc = "acquire"
        /\ ~HasSession /\ started.participant \in Participants
        /\ \/ lock \in {"free", "stale"} /\ lock' = "enrollment" /\ pc' = "insert"
              /\ UNCHANGED started
           \/ UNCHANGED lock /\ pc' = "idle" /\ started' = NoStart
    BY <1>1, <1>3 DEF AcquireLock, SessionInv
  <2>2. NoStart \in StartRead
    <3>1. 0 \in 0..MaxConsents
      BY EnrollmentAssumption
    <3>. QED
      BY <3>1 DEF NoStart, StartRead
  <2>3. ServerTyped'
    BY <1>1, <2>1, <2>2 DEF ServerTyped, Steps
  <2>4. ~HasSession'
    BY <2>1 DEF HasSession
  <2>. QED
    BY <1>1, <2>1, <2>3, <2>4 DEF SessionInv, EncryptSteps, SaveSteps
<1>4. CASE InsertSession
  <2>1. /\ UNCHANGED capture /\ pc = "insert" /\ pc' = "idle" /\ started' = NoStart
        /\ ~HasSession /\ started.participant \in Participants /\ lock = "enrollment"
    BY <1>1, <1>4 DEF InsertSession, SessionInv
  <2>2. NoStart \in StartRead
    <3>1. 0 \in 0..MaxConsents
      BY EnrollmentAssumption
    <3>. QED
      BY <3>1 DEF NoStart, StartRead
  <2>3. CASE lock' \in {"free", "unreleased"} /\ UNCHANGED <<sessions, active>>
    <3>1. ServerTyped'
      BY <1>1, <2>1, <2>2, <2>3 DEF ServerTyped, Steps
    <3>2. ~HasSession'
      BY <2>1, <2>3 DEF HasSession
    <3>. QED
      BY <1>1, <2>1, <2>3, <3>1, <3>2 DEF SessionInv, EncryptSteps, SaveSteps
  <2>4. ASSUME NEW s \in Sessions, UNCHANGED lock,
               sessions' = [sessions EXCEPT ![s] = "READY"],
               active' = [id |-> s, participant |-> started.participant,
                          consent |-> started.consent, state |-> "READY", samples |-> <<>>]
        PROVE  ServerTyped' /\ SessionInv'
    <3>1. /\ active' \in Session /\ active'.id = s /\ active'.state = "READY"
          /\ active'.participant \in Participants
      BY <1>1, <2>1, <2>4 DEF Session, ServerTyped, StartRead, Live
    <3>2. /\ sessions' \in [Sessions -> Live \cup Terminal \cup {"NONE"}]
          /\ sessions'[s] \in Live
      BY <1>1, <2>4 DEF ServerTyped, Live
    <3>3. ServerTyped'
      BY <1>1, <2>1, <2>2, <2>4, <3>1, <3>2 DEF ServerTyped, Steps
    <3>. QED
      BY <1>1, <2>1, <2>4, <3>1, <3>2, <3>3 DEF SessionInv, EncryptSteps, SaveSteps
  <2>. QED
    BY <1>4, <2>3, <2>4 DEF InsertSession, Released
<1>. QED
  BY <1>2, <1>3, <1>4

\* A step that leaves the session, its row, the lock and the call that holds _state_lock.
LEMMA ServerKept ==
  ASSUME IInv, UNCHANGED <<sessions, lock, active, pc, started>>, CaptureInv'
  PROVE  ServerTyped' /\ SessionInv'
<1>1. ServerTyped'
  BY DEF IInv, Typed, ServerTyped, CaptureInv
<1>2. SessionInv'
  BY DEF IInv, SessionInv, HasSession, CaptureInv
<1>. QED
  BY <1>1, <1>2

LEMMA CaptureServer ==
  ASSUME IInv, ClaimCapture \/ OpenStream \/ TakeSample \/ GiveUpSample
  PROVE  ServerTyped' /\ SessionInv'
<1>1. capture \in Capture /\ (capture.step # "idle" => capture.of \in Participants)
  BY DEF IInv, Typed, ServerTyped, SessionInv
<1>2. CaptureInv'
  <2>1. CASE ClaimCapture
    <3>1. active.participant \in Participants
      BY <2>1 DEF IInv, SessionInv, ClaimCapture
    <3>. QED
      BY <2>1, <3>1 DEF ClaimCapture, CaptureInv, Capture
  <2>2. CASE OpenStream
    BY <1>1, <2>2 DEF OpenStream, CaptureInv, Capture
  <2>3. CASE TakeSample
    BY <1>1, <2>3 DEF TakeSample, CaptureInv, Capture
  <2>4. CASE GiveUpSample
    BY <2>4 DEF GiveUpSample, CaptureInv, Capture, NoCapture
  <2>. QED
    BY <2>1, <2>2, <2>3, <2>4
<1>3. UNCHANGED <<sessions, lock, active, pc, started>>
  BY DEF ClaimCapture, OpenStream, TakeSample, GiveUpSample, RestOfCapture
<1>. QED
  BY <1>2, <1>3, ServerKept

LEMMA InterruptedIs ==
  ASSUME NEW s, NEW ms \in Interrupted(s)
  PROVE  ms[1] \in Live /\ ms[2] \in Live /\ ms[3] \in BOOLEAN
<1>1. \/ ms = <<"VALIDATING", "CAPTURING", TRUE>>
      \/ ms = <<"CAPTURING", "VALIDATING", TRUE>>
      \/ ms = <<"CAPTURING", "VALIDATING", FALSE>>
      \/ ms = <<"CAPTURING", "READY", FALSE>>
  BY Zenon DEF Interrupted
<1>2. CASE ms = <<"VALIDATING", "CAPTURING", TRUE>>
  BY <1>2 DEF Live
<1>3. CASE ms = <<"CAPTURING", "VALIDATING", TRUE>>
  BY <1>3 DEF Live
<1>4. CASE ms = <<"CAPTURING", "VALIDATING", FALSE>>
  BY <1>4 DEF Live
<1>5. CASE ms = <<"CAPTURING", "READY", FALSE>>
  BY <1>5 DEF Live
<1>. QED
  BY <1>1, <1>2, <1>3, <1>4, <1>5

LEMMA AddServer ==
  ASSUME IInv, AddSample
  PROVE  ServerTyped' /\ SessionInv'
<1>0. /\ ServerTyped /\ SessionInv /\ active \in Session /\ pc = "idle"
      /\ active.samples \in Seq(Participants)
  BY SessionParts DEF IInv, Typed, AddSample, Idle
<1>1. UNCHANGED <<pc, started>> /\ started' \in StartRead /\ CaptureInv'
  BY <1>0 DEF AddSample, ServerTyped, CaptureInv, Capture, NoCapture
<1>2. CASE active.state \notin {"READY", "CAPTURING"}
  BY <1>1, <1>2, ServerKept DEF AddSample
<1>3. CASE active.state \in {"READY", "CAPTURING"}
  <2>1. /\ HasSession /\ active.id \in Sessions /\ active.participant \in Participants
        /\ lock = "enrollment" /\ capture.of \in Participants
    BY <1>0, <1>3 DEF SessionInv, HasSession, Live, AddSample
  <2>. DEFINE q == With(capture.of)
  <2>2. q \in Seq(Participants)
    BY <1>0, <2>1 DEF With
  <2>. HIDE DEF q
  <2>3. ASSUME NEW m \in Live, NEW r \in Live, UNCHANGED lock,
               sessions' = [sessions EXCEPT ![active.id] = r],
               \/ active' = [active EXCEPT !.state = m, !.samples = q]
               \/ active' = [active EXCEPT !.state = m]
        PROVE  ServerTyped' /\ SessionInv'
    <3>1. /\ active' \in Session /\ active'.id = active.id /\ active'.state = m
          /\ active'.participant = active.participant
      BY <1>0, <2>2, <2>3 DEF Session
    <3>2. /\ sessions' \in [Sessions -> Live \cup Terminal \cup {"NONE"}]
          /\ sessions'[active.id] = r
      BY <1>0, <2>1, <2>3 DEF ServerTyped
    <3>3. ServerTyped'
      BY <1>0, <1>1, <2>3, <3>1, <3>2 DEF ServerTyped, CaptureInv
    <3>4. SessionInv'
      BY <1>0, <1>1, <2>1, <2>3, <3>1, <3>2
         DEF SessionInv, HasSession, CaptureInv, EncryptSteps, SaveSteps
    <3>. QED
      BY <3>3, <3>4
  <2>4. CASE Fail
    BY <1>0, <1>1, <2>1, <2>4, FailIs, Closed
  <2>5. CASE UNCHANGED lock /\ Enter("CAPTURING")
    <3>1. "CAPTURING" \in Live
      BY DEF Live
    <3>. QED
      BY <2>3, <2>5, <3>1 DEF Enter
  <2>6. CASE /\ UNCHANGED lock
             /\ active' = [active EXCEPT !.state = "CAPTURING", !.samples = q]
             /\ sessions' = [sessions EXCEPT ![active.id] = "CAPTURING"]
    <3>1. "CAPTURING" \in Live
      BY DEF Live
    <3>. QED
      BY <2>3, <2>6, <3>1
  <2>7. ASSUME NEW ms \in Interrupted(active.state), UNCHANGED lock,
               active' = [active EXCEPT !.state = ms[1],
                             !.samples = IF ms[3] THEN q ELSE @],
               sessions' = [sessions EXCEPT ![active.id] = ms[2]]
        PROVE  ServerTyped' /\ SessionInv'
    <3>1. ms[1] \in Live /\ ms[2] \in Live /\ ms[3] \in BOOLEAN
      BY InterruptedIs
    <3>2. CASE ms[3]
      <4>1. active' = [active EXCEPT !.state = ms[1], !.samples = q]
        BY <2>7, <3>2
      <4>. QED
        BY <2>3, <2>7, <3>1, <4>1
    <3>3. CASE ~ms[3]
      <4>1. active' = [active EXCEPT !.state = ms[1], !.samples = active.samples]
        BY <1>0, <2>7, <3>3 DEF Session
      <4>2. active' = [active EXCEPT !.state = ms[1]]
        BY <1>0, <4>1 DEF Session
      <4>. QED
        BY <2>3, <2>7, <3>1, <4>2
    <3>. QED
      BY <3>1, <3>2, <3>3
  <2>. QED
    BY <1>3, <2>4, <2>5, <2>6, <2>7 DEF AddSample, q
<1>. QED
  BY <1>2, <1>3

LEMMA FinalizeServer ==
  ASSUME IInv, Finalize \/ Recheck
  PROVE  ServerTyped' /\ SessionInv'
<1>1. /\ ServerTyped /\ SessionInv /\ HasSession /\ active.id \in Sessions
      /\ active.participant \in Participants /\ lock = "enrollment"
      /\ sessions[active.id] \in Live
  BY DEF IInv, Typed, SessionInv, HasSession, Finalize, Recheck, At, Live
<1>2. UNCHANGED <<started, capture>> /\ started' \in StartRead /\ CaptureInv'
  BY <1>1 DEF Finalize, Recheck, At, ServerTyped, SessionInv, CaptureInv
<1>3. ASSUME NEW s \in Live, Enter(s), UNCHANGED lock,
             \/ s = "EMBEDDING" /\ pc' = "recheck"
             \/ s = "ENCRYPTING" /\ pc' = "key"
      PROVE  ServerTyped' /\ SessionInv'
  <2>1. /\ active' \in Session /\ active'.id = active.id /\ active'.state = s
        /\ active'.participant = active.participant /\ sessions'[active.id] = s
        /\ sessions' \in [Sessions -> Live \cup Terminal \cup {"NONE"}]
    BY <1>1, <1>3, EnterIs
  <2>2. ServerTyped'
    BY <1>1, <1>2, <1>3, <2>1 DEF ServerTyped, CaptureInv, Steps, SaveSteps
  <2>3. SessionInv'
    BY <1>1, <1>2, <1>3, <2>1 DEF SessionInv, HasSession, CaptureInv, EncryptSteps, SaveSteps
  <2>. QED
    BY <2>2, <2>3
<1>4. CASE Finalize
  <2>1. CASE Enter("EMBEDDING") /\ pc' = "recheck" /\ UNCHANGED lock
    BY <1>3, <2>1 DEF Live
  <2>2. CASE Fail /\ pc' = "idle"
    BY <1>1, <1>2, <2>2, FailIs, Closed
  <2>. QED
    BY <1>4, <2>1, <2>2 DEF Finalize, At
<1>5. CASE Recheck
  <2>1. CASE Enter("ENCRYPTING") /\ pc' = "key" /\ UNCHANGED lock
    BY <1>3, <2>1 DEF Live
  <2>2. CASE Fail /\ pc' = "idle"
    BY <1>1, <1>2, <2>2, FailIs, Closed
  <2>3. CASE UNCHANGED <<sessions, lock, active>> /\ pc' = "idle"
    <3>1. ServerTyped'
      BY <1>1, <1>2, <2>3 DEF ServerTyped, CaptureInv, Steps
    <3>2. SessionInv'
      BY <1>1, <1>2, <2>3 DEF SessionInv, HasSession, CaptureInv, EncryptSteps, SaveSteps
    <3>. QED
      BY <3>1, <3>2
  <2>. QED
    BY <1>5, <2>1, <2>2, <2>3 DEF Recheck, Failed, Escape
<1>. QED
  BY <1>4, <1>5

LEMMA CancelServer ==
  ASSUME IInv, Cancel
  PROVE  ServerTyped' /\ SessionInv'
<1>1. /\ ServerTyped /\ SessionInv /\ pc = "idle" /\ UNCHANGED <<pc, started>>
      /\ started' \in StartRead
  BY DEF IInv, Typed, Cancel, Idle, ServerTyped
<1>2. CaptureInv'
  BY <1>1 DEF Cancel, Abort, CaptureInv, ServerTyped, SessionInv, Capture, NoCapture
<1>3. CASE ~HasSession
  BY <1>1, <1>2, <1>3, ServerKept DEF Cancel
<1>4. CASE HasSession
  <2>1. Abandon
    BY <1>4 DEF Cancel
  <2>. QED
    BY <1>1, <1>2, <1>4, <2>1, AbandonIs, Closed
<1>. QED
  BY <1>3, <1>4

\* What a caller does to the session: nothing, unless it withdraws in the server.
LEMMA CallerMoves ==
  ASSUME NEW c \in Callers, CallerNext(c)
  PROVE  /\ UNCHANGED <<pc, started, capture>>
         /\ \/ UNCHANGED <<sessions, lock, active>>
            \/ HasSession /\ pc = "idle" /\ Abandon
<1>1. CASE \E p \in Participants : Revoke(c, p)
  <2>1. PICK p \in Participants : Revoke(c, p)
    BY <1>1
  <2>2. UNCHANGED <<pc, started, capture>> /\ (c \in Api => pc = "idle")
    BY <2>1 DEF Revoke, CallerAt, Idle
  <2>3. CASE c \in Api /\ HasSession /\ active.participant = p
    BY <2>1, <2>2, <2>3 DEF Revoke
  <2>4. CASE ~(c \in Api /\ HasSession /\ active.participant = p)
    BY <2>1, <2>2, <2>4 DEF Revoke
  <2>. QED
    BY <2>3, <2>4
<1>2. CASE RevokeEvent(c) \/ RevokeDelete(c) \/ RetryCleanup(c)
  BY <1>2 DEF RevokeEvent, RevokeDelete, RetryCleanup, CallerAt, RestOfServer
<1>3. CASE (\E v \in Voiceprints : VerifyRead(c, v)) \/ VerifyCheck(c) \/ KillCommand(c)
  BY <1>3 DEF VerifyRead, VerifyCheck, KillCommand, CallerAt, RestOfServer, server
<1>. QED
  BY <1>1, <1>2, <1>3 DEF CallerNext

LEMMA CallerServer ==
  ASSUME IInv, NEW c \in Callers, CallerNext(c)
  PROVE  ServerTyped' /\ SessionInv'
<1>1. /\ ServerTyped /\ SessionInv /\ UNCHANGED <<pc, started, capture>>
      /\ started' \in StartRead /\ CaptureInv'
  BY CallerMoves DEF IInv, Typed, ServerTyped, SessionInv, CaptureInv
<1>2. CASE UNCHANGED <<sessions, lock, active>>
  BY <1>1, <1>2, ServerKept
<1>3. CASE HasSession /\ pc = "idle" /\ Abandon
  BY <1>1, <1>3, AbandonIs, Closed
<1>. QED
  BY <1>2, <1>3, CallerMoves

LEMMA OthersServer ==
  ASSUME IInv, Environment
  PROVE  ServerTyped' /\ SessionInv'
<1>1. ServerTyped /\ SessionInv /\ CaptureInv
  BY DEF IInv, Typed, ServerTyped, SessionInv, CaptureInv
<1>2. CASE \/ (\E p \in Participants : Grant(p) \/ SetActive(p)) \/ RecoverStore
           \/ (\E vs \in SUBSET Voiceprints : RecoverySomeThenKilled(vs))
           \/ DamageEnvelope \/ LoseKeyFile
  <2>1. UNCHANGED server
    BY <1>2 DEF Grant, SetActive, RecoverStore, RecoverySomeThenKilled, DamageEnvelope,
       LoseKeyFile
  <2>. QED
    BY <1>1, <2>1, ServerKept DEF server, CaptureInv
<1>3. CASE MeetingStarts \/ MeetingEnds
  <2>1. /\ UNCHANGED <<sessions, active, pc, started, capture>>
        /\ lock # "enrollment" /\ lock' \in {"recording", "free"}
    BY <1>3 DEF MeetingStarts, MeetingEnds
  <2>2. ServerTyped'
    BY <1>1, <2>1 DEF ServerTyped
  <2>3. SessionInv'
    BY <1>1, <2>1 DEF SessionInv, HasSession
  <2>. QED
    BY <2>2, <2>3
<1>4. CASE KillServer
  <2>1. /\ UNCHANGED sessions /\ lock' \in {"free", "stale"} /\ active' = NoSession
        /\ pc' = "idle" /\ started' = NoStart /\ capture' = NoCapture
    BY <1>4 DEF KillServer
  <2>2. NoStart \in StartRead /\ NoCapture \in Capture /\ NoCapture.step = "idle"
    <3>1. 0 \in 0..MaxConsents
      BY EnrollmentAssumption
    <3>. QED
      BY <3>1 DEF NoStart, StartRead, NoCapture, Capture
  <2>3. ServerTyped'
    BY <1>1, <2>1, <2>2, NothingInMemory DEF ServerTyped, Steps
  <2>4. ~HasSession'
    BY <2>1, NothingInMemory DEF HasSession, Live
  <2>5. SessionInv'
    BY <2>1, <2>2, <2>4 DEF SessionInv, EncryptSteps, SaveSteps
  <2>. QED
    BY <2>3, <2>5
<1>. QED
  BY <1>2, <1>3, <1>4 DEF Environment

LEMMA ServerStep == IInv /\ [Next]_vars => ServerTyped' /\ SessionInv'
<1>. SUFFICES ASSUME IInv, [Next]_vars PROVE ServerTyped' /\ SessionInv'
  OBVIOUS
<1>1. CASE SessionNext
  BY <1>1, StartServer, CaptureServer, AddServer, FinalizeServer, CancelServer DEF SessionNext
<1>2. CASE UNCHANGED vars
  BY <1>2, ServerKept DEF vars, server, IInv, Typed, ServerTyped, SessionInv, CaptureInv
<1>. QED
  BY <1>1, <1>2, SaveServer, CallerServer, OthersServer DEF Next

\* What a meeting holds, an enrollment does not release.
LEMMA LockStep ==
  IInv /\ [Next]_vars => (lock = "recording" => lock' = "recording" \/ MeetingEnds \/ KillServer)
<1>. SUFFICES ASSUME IInv, [Next]_vars, lock = "recording"
              PROVE  lock' = "recording" \/ MeetingEnds \/ KillServer
  OBVIOUS
<1>1. ~HasSession /\ pc # "insert"
  BY DEF IInv, SessionInv
<1>2. ~SaveNext
  BY AtSave, SaveMoves
<1>3. CASE SessionNext
  <2>1. CASE (\E p \in Participants : Start(p)) \/ AcquireLock \/ InsertSession
    BY <1>1, <2>1 DEF Start, AcquireLock, InsertSession
  <2>2. CASE ClaimCapture \/ OpenStream \/ TakeSample \/ GiveUpSample
    BY <2>2 DEF ClaimCapture, OpenStream, TakeSample, GiveUpSample, RestOfCapture
  <2>3. CASE Cancel \/ AddSample
    BY <1>1, <2>3 DEF Cancel, AddSample, HasSession, Live
  <2>4. CASE Finalize \/ Recheck
    BY <1>1, <2>4 DEF Finalize, Recheck, At, HasSession, Live, IInv, SessionInv
  <2>. QED
    BY <1>3, <2>1, <2>2, <2>3, <2>4 DEF SessionNext
<1>4. CASE \E c \in Callers : CallerNext(c)
  BY <1>1, <1>4, CallerMoves
<1>5. CASE Environment
  BY <1>5 DEF Environment, Grant, SetActive, RecoverStore, RecoverySomeThenKilled, server,
     DamageEnvelope, LoseKeyFile, MeetingStarts
<1>6. CASE UNCHANGED vars
  BY <1>6 DEF vars, server
<1>. QED
  BY <1>2, <1>3, <1>4, <1>5, <1>6 DEF Next

-----------------------------------------------------------------------------
(* Consent, keys and callers *)

LEMMA FaultTypes ==
  ASSUME PeopleTyped, Fault \/ UNCHANGED mishaps
  PROVE  mishaps' \in 0..MaxMishaps
BY EnrollmentAssumption DEF PeopleTyped, Fault

LEMMA SessionPeople ==
  ASSUME SessionNext
  PROVE  UNCHANGED <<consent, isActive, owed, raced, caller, keys>> /\ (Fault \/ UNCHANGED mishaps)
<1>. USE DEF people
<1>1. CASE (\E p \in Participants : Start(p)) \/ AcquireLock
  BY <1>1 DEF Start, AcquireLock
<1>2. CASE InsertSession
  BY <1>2 DEF InsertSession
<1>3. CASE ClaimCapture \/ OpenStream \/ TakeSample \/ GiveUpSample
  BY <1>3 DEF ClaimCapture, OpenStream, TakeSample, GiveUpSample, RestOfCapture
<1>4. CASE Cancel
  BY <1>4 DEF Cancel, Abandon
<1>5. CASE AddSample
  BY <1>5, FailIs DEF AddSample, Enter
<1>6. CASE Finalize \/ Recheck
  BY <1>6, FailIs DEF Finalize, Recheck, At, Failed, Escape
<1>. QED
  BY <1>1, <1>2, <1>3, <1>4, <1>5, <1>6 DEF SessionNext

LEMMA PeopleStep == IInv /\ [Next]_vars => PeopleTyped'
<1>. SUFFICES ASSUME IInv, [Next]_vars PROVE PeopleTyped'
  OBVIOUS
<1>0. PeopleTyped
  BY DEF IInv, Typed
<1>1. CASE UNCHANGED <<consent, isActive, owed, raced>> /\ (Fault \/ UNCHANGED mishaps)
  BY <1>0, <1>1, FaultTypes DEF PeopleTyped
<1>2. ASSUME NEW c \in Callers, CallerNext(c) PROVE PeopleTyped'
  <2>1. CASE RevokeEvent(c) \/ RevokeDelete(c)
    <3>. DEFINE p == caller[c].participant
    <3>1. p \in Participants
      BY <2>1 DEF IInv, CallerInv, RevokeEvent, RevokeDelete, CallerAt
    <3>. HIDE DEF p
    <3>2. Saving(p) => active.id \in Voiceprints
      BY AtSave DEF Saving, EncryptSteps
    <3>3. /\ isActive' = isActive /\ (consent' = consent \/ AppendEvent(p))
          /\ owed' \in {owed, owed \cup {p}, owed \ {p}}
          /\ raced' = raced \/ (Saving(p) /\ raced' = raced \cup {active.id})
          /\ Fault \/ UNCHANGED mishaps
      BY <2>1 DEF RevokeEvent, RevokeDelete, people, p
    <3>4. AppendEvent(p) => consent' \in [Participants -> 0..MaxConsents]
      BY <1>0, <3>1, EnrollmentAssumption DEF AppendEvent, PeopleTyped
    <3>5. mishaps' \in 0..MaxMishaps
      BY <1>0, <3>3, FaultTypes
    <3>. QED
      BY <1>0, <3>1, <3>2, <3>3, <3>4, <3>5 DEF PeopleTyped
  <2>2. CASE \E p \in Participants : Revoke(c, p)
    <3>1. UNCHANGED <<consent, isActive, owed, raced>> /\ (Fault \/ UNCHANGED mishaps)
      BY <2>2 DEF Revoke, Abandon, people
    <3>. QED
      BY <1>1, <3>1
  <2>3. CASE RetryCleanup(c) \/ (\E v \in Voiceprints : VerifyRead(c, v)) \/ VerifyCheck(c)
             \/ KillCommand(c)
    <3>1. UNCHANGED <<consent, isActive, owed, raced>> /\ (Fault \/ UNCHANGED mishaps)
      BY <2>3 DEF RetryCleanup, VerifyRead, VerifyCheck, KillCommand, Kill, people
    <3>. QED
      BY <1>1, <3>1
  <2>. QED
    BY <1>2, <2>1, <2>2, <2>3 DEF CallerNext
<1>3. CASE Environment
  <2>1. ASSUME NEW p \in Participants, Grant(p) PROVE PeopleTyped'
    BY <1>0, <2>1, EnrollmentAssumption DEF Grant, AppendEvent, PeopleTyped
  <2>2. ASSUME NEW p \in Participants, SetActive(p) PROVE PeopleTyped'
    BY <1>0, <2>2 DEF SetActive, PeopleTyped
  <2>3. CASE \/ RecoverStore \/ (\E vs \in SUBSET Voiceprints : RecoverySomeThenKilled(vs))
             \/ MeetingStarts \/ MeetingEnds \/ KillServer \/ DamageEnvelope \/ LoseKeyFile
    <3>1. UNCHANGED <<consent, isActive, owed, raced>> /\ (Fault \/ UNCHANGED mishaps)
      BY <2>3 DEF RecoverStore, RecoverySomeThenKilled, MeetingStarts, MeetingEnds, KillServer,
         Kill, DamageEnvelope, LoseKeyFile, people
    <3>. QED
      BY <1>1, <3>1
  <2>. QED
    BY <1>3, <2>1, <2>2, <2>3 DEF Environment
<1>4. CASE UNCHANGED vars
  BY <1>1, <1>4 DEF vars, people
<1>. QED
  BY <1>1, <1>2, <1>3, <1>4, SaveMoves, SessionPeople DEF Next

LEMMA CallTypes ==
  /\ NoCall \in Call /\ NoCall.step = "idle"
  /\ \A r \in Call : \A s \in {"idle", "event", "delete", "verify"} :
        /\ [r EXCEPT !.step = s] \in Call /\ [r EXCEPT !.step = s].step = s
        /\ [r EXCEPT !.step = s].participant = r.participant
BY DEF NoCall, Call

\* A caller that withdraws does so for a participant, and one that verifies has read a
\* template as usable.
CallFits(r) ==
    /\ r \in Call
    /\ r.step \in {"event", "delete"} => r.participant \in Participants
    /\ r.step = "verify" => r.voiceprint \in Voiceprints /\ Usable(r.voiceprint)

LEMMA CallerStep ==
  ASSUME IInv, NEW c \in Callers, CallerNext(c)
  PROVE  /\ caller' \in [Callers -> Call]
         /\ \A d \in Callers : caller'[d] = caller[d] \/ CallFits(caller'[d])
<1>0. /\ caller \in [Callers -> Call]
      /\ caller[c].step \in {"event", "delete"} => caller[c].participant \in Participants
  BY DEF IInv, Typed, OtherTyped, CallerInv
<1>1. ASSUME NEW r, CallFits(r), caller' = [caller EXCEPT ![c] = r]
      PROVE  /\ caller' \in [Callers -> Call]
             /\ \A d \in Callers : caller'[d] = caller[d] \/ CallFits(caller'[d])
  <2>1. r \in Call
    BY <1>1 DEF CallFits
  <2>2. caller' \in [Callers -> Call] /\ \A d \in Callers : caller'[d] \in {caller[d], r}
    BY <1>0, <1>1, <2>1
  <2>. QED
    BY <1>1, <2>2
<1>2. CASE caller' = [caller EXCEPT ![c] = NoCall]
  BY <1>1, <1>2, CallTypes DEF CallFits
<1>3. ASSUME NEW p \in Participants, Revoke(c, p)
      PROVE  /\ caller' \in [Callers -> Call]
             /\ \A d \in Callers : caller'[d] = caller[d] \/ CallFits(caller'[d])
  <2>. DEFINE r == [step |-> "event", participant |-> p, voiceprint |-> 0]
  <2>1. CallFits(r)
    BY DEF Call, CallFits
  <2>2. caller' = [caller EXCEPT ![c] = r] \/ caller' = [caller EXCEPT ![c] = NoCall]
    BY <1>3 DEF Revoke
  <2>. HIDE DEF r
  <2>. QED
    BY <1>1, <1>2, <2>1, <2>2
<1>4. CASE RevokeEvent(c) /\ CallerGoes(c, "delete")
  <2>. DEFINE r == [caller[c] EXCEPT !.step = "delete"]
  <2>1. caller[c].step = "event"
    BY <1>4 DEF RevokeEvent, CallerAt
  <2>2. CallFits(r)
    BY <1>0, <2>1, CallTypes DEF CallFits
  <2>3. caller' = [caller EXCEPT ![c] = r]
    BY <1>4 DEF CallerGoes
  <2>. HIDE DEF r
  <2>. QED
    BY <1>1, <2>2, <2>3
<1>5. ASSUME NEW v \in Voiceprints, VerifyRead(c, v)
      PROVE  /\ caller' \in [Callers -> Call]
             /\ \A d \in Callers : caller'[d] = caller[d] \/ CallFits(caller'[d])
  <2>. DEFINE r == [step |-> "verify", participant |-> NoOne, voiceprint |-> v]
  <2>1. caller' = [caller EXCEPT ![c] = r] /\ Usable(v)
    BY <1>5 DEF VerifyRead
  <2>2. CallFits(r)
    BY <2>1 DEF Call, CallFits
  <2>. HIDE DEF r
  <2>. QED
    BY <1>1, <2>1, <2>2
<1>6. CASE UNCHANGED caller
  BY <1>0, <1>6
<1>. QED
  BY <1>2, <1>3, <1>4, <1>5, <1>6
     DEF CallerNext, RevokeEvent, RevokeDelete, RetryCleanup, VerifyCheck, KillCommand, CallerDone

-----------------------------------------------------------------------------
(* Rows and files, whoever works on them but the save *)

FileOK(v) ==
    /\ envelope[v] # "none" => Status(v) # "NONE"
    /\ Usable(v) => Sound(v)
    /\ Status(v) # "NONE" /\ ~voiceprints[v].path => envelope[v] = "none" \/ v \in raced

\* What a row may go through behind the back of the save that is in progress.
Aged(v) ==
    /\ Status(v) = "NONE" => Status(v)' = "NONE"
    /\ Status(v) # "NONE" => Status(v)' # "NONE"
    /\ Status(v) \notin {"NONE", "PENDING_WRITE"} => Status(v)' \notin {"NONE", "PENDING_WRITE"}
    /\ voiceprints'[v].participant = voiceprints[v].participant
    /\ voiceprints'[v].consent = voiceprints[v].consent
    /\ voiceprints'[v].path => voiceprints[v].path
    /\ Usable(v)' => Usable(v)
    /\ Sound(v) /\ voiceprints'[v].path => Sound(v)'

Kept(v) == FileOK(v)' /\ Aged(v)

LEMMA RowInvIs ==
  /\ RowInv <=> /\ OneLiveTemplate
                /\ \A v \in Voiceprints :
                      /\ Status(v) # "NONE" =>
                            sessions[v] # "NONE" /\ voiceprints[v].participant \in Participants
                      /\ Usable(v) => UnderConsent(v)
                      /\ FileOK(v)
  /\ RowInv' <=> /\ OneLiveTemplate'
                 /\ \A v \in Voiceprints :
                      /\ Status(v)' # "NONE" =>
                            sessions'[v] # "NONE" /\ voiceprints'[v].participant \in Participants
                      /\ Usable(v)' => UnderConsent(v)'
                      /\ FileOK(v)'
BY DEF RowInv, RowsAndEnvelopesAgree, FinishedEnvelopeIsKnown, UsableHasEnvelope,
       NoStrandedEnvelope, FileOK, Sound

LEMMA RowsKept ==
  ASSUME NEW v \in Voiceprints, FileOK(v), raced \subseteq raced',
         UNCHANGED <<voiceprints, envelope, lostFile>>
  PROVE  Kept(v)
BY DEF Kept, FileOK, Aged, Status, Usable, Sound

LEMMA RolledBackKeeps ==
  ASSUME StoreTypeOK, NEW v \in Voiceprints, FileOK(v), UNCHANGED raced,
         NEW gone \in SUBSET Voiceprints, RolledBack(gone)
  PROVE  Kept(v)
<1>1. UNCHANGED voiceprints /\ lostFile' = lostFile \cup {u \in gone : voiceprints[u].path}
  BY DEF RolledBack
<1>2. /\ v \in gone /\ voiceprints[v].path => envelope'[v] = "none" /\ v \in lostFile'
      /\ v \notin gone \/ ~voiceprints[v].path => envelope'[v] = envelope[v]
  BY <1>1, WithoutFilesIs DEF RolledBack
<1>3. Aged(v)
  BY <1>1, <1>2 DEF Aged, Status, Usable, Sound
<1>4. FileOK(v)'
  BY <1>1, <1>2 DEF FileOK, Status, Usable, Sound
<1>. QED
  BY <1>3, <1>4 DEF Kept

LEMMA MarkKeeps ==
  ASSUME StoreTypeOK, NEW v \in Voiceprints, FileOK(v), UNCHANGED raced,
         NEW u \in Voiceprints, Status(u) # "NONE", MarkFailed(u)
  PROVE  Kept(v)
<1>1. /\ UNCHANGED <<envelope, lostFile>>
      /\ voiceprints'[v].status = IF v = u THEN "INTEGRITY_FAILED" ELSE voiceprints[v].status
      /\ voiceprints'[v].path = voiceprints[v].path
      /\ voiceprints'[v].participant = voiceprints[v].participant
      /\ voiceprints'[v].consent = voiceprints[v].consent
  <2>1. "INTEGRITY_FAILED" \in Statuses
    BY DEF Statuses
  <2>. QED
    BY <2>1, MarkIs DEF MarkFailed
<1>2. Aged(v)
  BY <1>1 DEF Aged, Status, Usable, Sound
<1>3. FileOK(v)'
  BY <1>1 DEF FileOK, Status, Usable, Sound
<1>. QED
  BY <1>2, <1>3 DEF Kept

\* Retiring rows and unlinking their envelopes in one transaction.
LEMMA UnlinkKeeps ==
  ASSUME StoreTypeOK, NEW v \in Voiceprints, FileOK(v), raced \subseteq raced',
         NEW vs \in SUBSET Voiceprints, NEW stuck, NEW s \in {"REVOKED", "SUPERSEDED"},
         \A u \in vs : Status(u) # "NONE",
         voiceprints'[v] = Retire(vs, stuck, s)[v], envelope' = WithoutFiles(vs \ stuck),
         UNCHANGED lostFile
  PROVE  Kept(v)
<1>1. s \in Statuses
  BY DEF Statuses
<1>2. /\ voiceprints'[v].participant = voiceprints[v].participant
      /\ voiceprints'[v].consent = voiceprints[v].consent
      /\ v \notin vs => voiceprints'[v] = voiceprints[v]
      /\ v \in vs /\ v \in stuck =>
            voiceprints'[v].status = "DELETE_PENDING" /\ voiceprints'[v].path = voiceprints[v].path
      /\ v \in vs /\ v \notin stuck => voiceprints'[v].status = s /\ ~voiceprints'[v].path
  BY <1>1, RetiredRow
<1>3. /\ v \in vs \ stuck /\ voiceprints[v].path => envelope'[v] = "none"
      /\ v \notin vs \ stuck \/ ~voiceprints[v].path => envelope'[v] = envelope[v]
  BY WithoutFilesIs
<1>4. Aged(v)
  BY <1>2, <1>3 DEF Aged, Status, Usable, Sound
<1>5. FileOK(v)'
  BY <1>2, <1>3 DEF FileOK, Status, Usable, Sound
<1>. QED
  BY <1>4, <1>5 DEF Kept

LEMMA RecoverKeeps ==
  ASSUME StoreTypeOK, NEW v \in Voiceprints, FileOK(v), UNCHANGED raced,
         NEW vs \in SUBSET Voiceprints, Recover(vs)
  PROVE  Kept(v)
<1>1. /\ UNCHANGED lostFile
      /\ voiceprints'[v].status = IF v \in vs THEN Recovered(v) ELSE Status(v)
      /\ voiceprints'[v].path = voiceprints[v].path
      /\ voiceprints'[v].participant = voiceprints[v].participant
      /\ voiceprints'[v].consent = voiceprints[v].consent
      /\ envelope'[v] = IF v \in vs /\ Status(v) = "NONE" THEN "none" ELSE envelope[v]
  BY RecoverIs
<1>2. Recovered(v) = Status(v) \/ (Status(v) \in {"PENDING_WRITE", "ACTIVE"}
          /\ Recovered(v) \in {"RE_ENROLL_REQUIRED", "INTEGRITY_FAILED"})
  BY DEF Recovered, Pending, Usable
<1>3. Aged(v)
  BY <1>1, <1>2 DEF Aged, FileOK, Status, Usable, Sound
<1>4. FileOK(v)'
  BY <1>1, <1>2 DEF FileOK, Status, Usable, Sound
<1>. QED
  BY <1>3, <1>4 DEF Kept

LEMMA DamageKeeps ==
  ASSUME StoreTypeOK, NEW v \in Voiceprints, FileOK(v), UNCHANGED raced,
         NEW u \in Voiceprints, Damage(u)
  PROVE  Kept(v)
<1>1. /\ UNCHANGED voiceprints /\ lostFile' = lostFile \cup {u}
      /\ v # u => envelope'[v] = envelope[v]
      /\ envelope[u] = "good"
  BY StoreTyping DEF Damage
<1>2. Aged(v)
  BY <1>1 DEF Aged, Status, Usable, Sound
<1>3. FileOK(v)'
  BY <1>1 DEF FileOK, Status, Usable, Sound
<1>. QED
  BY <1>2, <1>3 DEF Kept

LEMMA CallerKeeps ==
  ASSUME IInv, NEW c \in Callers, CallerNext(c), NEW v \in Voiceprints
  PROVE  Kept(v)
<1>0. StoreTypeOK /\ FileOK(v)
  BY RowInvIs DEF IInv, Typed
<1>1. CASE (\E p \in Participants : Revoke(c, p)) \/ RevokeEvent(c)
           \/ (\E u \in Voiceprints : VerifyRead(c, u))
  <2>1. UNCHANGED storeVars /\ raced \subseteq raced'
    BY <1>1 DEF Revoke, RevokeEvent, VerifyRead
  <2>. QED
    BY <1>0, <2>1, RowsKept DEF storeVars
<1>2. CASE RevokeDelete(c)
  <2>. DEFINE p == caller[c].participant
  <2>1. p \in Participants
    BY <1>2 DEF IInv, CallerInv, RevokeDelete, CallerAt
  <2>2. \A u \in Deletable(p) : Status(u) # "NONE"
    BY DEF Deletable
  <2>3. ASSUME NEW stuck, DeleteForRevocation(p, stuck), raced \subseteq raced' PROVE Kept(v)
    <3>. DEFINE s == "REVOKED"
    <3>1. /\ Deletable(p) \in SUBSET Voiceprints /\ UNCHANGED lostFile
          /\ voiceprints' = Retire(Deletable(p), stuck, s)
          /\ envelope' = WithoutFiles(Deletable(p) \ stuck)
      BY <1>0, <2>1, <2>3, RevokedIs
    <3>2. s \in {"REVOKED", "SUPERSEDED"}
      OBVIOUS
    <3>. HIDE DEF p, s
    <3>. QED
      BY <1>0, <2>2, <2>3, <3>1, <3>2, UnlinkKeeps
  <2>4. ASSUME NEW gone \in SUBSET Deletable(p), RolledBack(gone), UNCHANGED raced PROVE Kept(v)
    <3>1. gone \in SUBSET Voiceprints
      BY DEF Deletable
    <3>. QED
      BY <1>0, <2>4, <3>1, RolledBackKeeps
  <2>. QED
    BY <1>2, <2>3, <2>4 DEF RevokeDelete
<1>3. CASE RetryCleanup(c)
  <2>1. PICK stuck : RetryPendingCleanup(stuck)
    BY <1>3 DEF RetryCleanup
  <2>. DEFINE s == "REVOKED"
  <2>2. /\ Owed \in SUBSET Voiceprints /\ UNCHANGED lostFile
        /\ voiceprints' = Retire(Owed, stuck, s) /\ envelope' = WithoutFiles(Owed \ stuck)
    BY <1>0, <2>1, CleanedIs
  <2>3. s \in {"REVOKED", "SUPERSEDED"} /\ \A u \in Owed : Status(u) # "NONE"
    BY DEF Owed
  <2>4. raced \subseteq raced'
    BY <1>3 DEF RetryCleanup
  <2>. HIDE DEF s
  <2>. QED
    BY <1>0, <2>2, <2>3, <2>4, UnlinkKeeps
<1>4. CASE VerifyCheck(c)
  <2>. DEFINE u == caller[c].voiceprint
  <2>1. /\ u \in Voiceprints /\ Status(u) # "NONE" /\ UNCHANGED raced
        /\ MarkFailed(u) \/ UNCHANGED storeVars
    BY <1>4 DEF IInv, CallerInv, VerifyCheck, CallerAt, VerifyEnvelope
  <2>. HIDE DEF u
  <2>. QED
    BY <1>0, <2>1, MarkKeeps, RowsKept DEF storeVars
<1>5. CASE KillCommand(c)
  <2>1. UnlinkedBy(c) \subseteq Voiceprints
    BY DEF UnlinkedBy, Deletable
  <2>2. PICK gone \in SUBSET UnlinkedBy(c) : RolledBack(gone)
    BY <1>5 DEF KillCommand
  <2>3. gone \in SUBSET Voiceprints /\ UNCHANGED raced
    BY <1>5, <2>1 DEF KillCommand, Kill
  <2>. QED
    BY <1>0, <2>2, <2>3, RolledBackKeeps
<1>. QED
  BY <1>1, <1>2, <1>3, <1>4, <1>5 DEF CallerNext

LEMMA OthersKeep ==
  ASSUME IInv, Environment, NEW v \in Voiceprints
  PROVE  Kept(v)
<1>0. StoreTypeOK /\ FileOK(v)
  BY RowInvIs DEF IInv, Typed
<1>1. CASE (\E p \in Participants : Grant(p) \/ SetActive(p))
           \/ MeetingStarts \/ MeetingEnds \/ LoseKeyFile
  <2>1. UNCHANGED storeVars /\ raced \subseteq raced'
    BY <1>1 DEF Grant, SetActive, MeetingStarts, MeetingEnds, LoseKeyFile
  <2>. QED
    BY <1>0, <2>1, RowsKept DEF storeVars
<1>2. CASE RecoverStore \/ \E vs \in SUBSET Voiceprints : RecoverySomeThenKilled(vs)
  <2>1. UNCHANGED raced /\ \E vs \in SUBSET Voiceprints : Recover(vs)
    BY <1>2 DEF RecoverStore, RecoverySomeThenKilled
  <2>. QED
    BY <1>0, <2>1, RecoverKeeps
<1>3. CASE KillServer
  <2>1. UnlinkedByServer \cup UNION {UnlinkedBy(c) : c \in Api} \subseteq Voiceprints
    BY DEF UnlinkedByServer, UnlinkedBy, Deletable, Superseded
  <2>2. UNCHANGED raced /\ \E gone \in SUBSET Voiceprints : RolledBack(gone)
    BY <1>3, <2>1 DEF KillServer, Kill
  <2>. QED
    BY <1>0, <2>2, RolledBackKeeps
<1>4. CASE DamageEnvelope
  <2>1. UNCHANGED raced /\ \E u \in Voiceprints : Damage(u)
    BY <1>4 DEF DamageEnvelope
  <2>. QED
    BY <1>0, <2>1, DamageKeeps
<1>. QED
  BY <1>1, <1>2, <1>3, <1>4 DEF Environment

\* The save's own steps; only its activation makes a template usable.
Written(v) ==
    /\ FileOK(v)'
    /\ Status(v) # "NONE" => Status(v)' # "NONE"
    /\ Status(v) \notin {"NONE", "PENDING_WRITE"} => Status(v)' \notin {"NONE", "PENDING_WRITE"}
    /\ v # active.id \/ pc \notin {"insert_row", "activate"} => Kept(v)

LEMMA InsertWrites ==
  ASSUME IInv, SaveRow, NEW v \in Voiceprints
  PROVE  /\ Written(v)
         /\ (DropTemp(active.id) /\ pc' = "idle") \/ pc' = "rename"
         /\ pc' = "rename" =>
               /\ active' = active /\ Status(active.id)' = "PENDING_WRITE"
               /\ voiceprints'[active.id].path
               /\ voiceprints'[active.id].participant = active.participant
               /\ voiceprints'[active.id].consent = active.consent
<1>. DEFINE i == active.id
<1>0. /\ StoreTypeOK /\ FileOK(v) /\ pc = "insert_row" /\ Status(i) = "NONE"
      /\ i \in Voiceprints /\ active.participant \in Participants /\ active.consent \in Nat
      /\ UNCHANGED raced
  BY RowInvIs, AtSave DEF IInv, Typed, SaveRow, At, SaveInv, EncryptSteps, SaveSteps
<1>1. CASE InsertPending(i, active.participant, active.consent) /\ pc' = "rename"
           /\ UNCHANGED active
  <2>1. /\ UNCHANGED <<envelope, lostFile>>
        /\ v # i => voiceprints'[v] = voiceprints[v]
        /\ voiceprints'[i].status = "PENDING_WRITE" /\ voiceprints'[i].path
        /\ voiceprints'[i].participant = active.participant
        /\ voiceprints'[i].consent = active.consent
    <3>. HIDE DEF i
    <3>1. UNCHANGED <<envelope, lostFile>> /\ (v # i => voiceprints'[v] = voiceprints[v])
      BY <1>0, <1>1, InsertIs
    <3>2. voiceprints'[i] = [status |-> "PENDING_WRITE", path |-> TRUE,
                             participant |-> active.participant, consent |-> active.consent]
      BY <1>0, <1>1, InsertIs
    <3>. QED
      BY <3>1, <3>2
  <2>2. v # i => Kept(v)
    BY <1>0, <2>1 DEF Kept, FileOK, Aged, Status, Usable, Sound
  <2>3. FileOK(v)'
    BY <1>0, <2>1 DEF FileOK, Status, Usable, Sound
  <2>. QED
    BY <1>0, <1>1, <2>1, <2>2, <2>3 DEF Written, Status
<1>2. CASE DropTemp(i) /\ pc' = "idle"
  <2>1. Kept(v)
    BY <1>0, <1>2, RowsKept DEF DropTemp
  <2>. QED
    BY <1>2, <2>1 DEF Written, Kept, Aged
<1>. QED
  BY <1>1, <1>2 DEF SaveRow, Proceed, FailedByFault

LEMMA KeptIsWritten ==
  ASSUME NEW v \in Voiceprints, Kept(v)
  PROVE  Written(v)
BY DEF Kept, Written, Aged

LEMMA RenameWrites ==
  ASSUME IInv, SaveRename, NEW v \in Voiceprints
  PROVE  /\ Written(v) /\ UNCHANGED voiceprints /\ pc' \in {"readback", "markfail"}
         /\ active' = active
<1>. DEFINE i == active.id
<1>0. /\ StoreTypeOK /\ FileOK(v) /\ pc = "rename" /\ i \in Voiceprints /\ Status(i) # "NONE"
      /\ UNCHANGED raced /\ (i \in raced \/ voiceprints[i].path)
  BY RowInvIs, AtSave DEF IInv, Typed, SaveRename, At, SaveInv, EncryptSteps, SaveSteps, RowSteps
<1>1. CASE Rename(i) /\ Proceed("readback")
  <2>1. /\ UNCHANGED <<voiceprints, lostFile>> /\ (v # i => envelope'[v] = envelope[v])
    BY <1>0, <1>1, StoreTyping DEF Rename
  <2>2. v = i => envelope'[v] = "good"
    BY <1>0, <1>1, StoreTyping DEF Rename
  <2>3. FileOK(v)'
    BY <1>0, <2>1, <2>2 DEF FileOK, Status, Usable, Sound
  <2>4. Aged(v)
    BY <1>0, <2>1, <2>2 DEF Aged, Status, Usable, Sound
  <2>. QED
    BY <1>1, <2>1, <2>3, <2>4, KeptIsWritten DEF Kept, Proceed
<1>2. CASE UNCHANGED storeVars /\ pc' = "markfail" /\ UNCHANGED active
  <2>1. Kept(v)
    BY <1>0, <1>2, RowsKept DEF storeVars
  <2>. QED
    BY <1>2, <2>1, KeptIsWritten DEF storeVars
<1>. QED
  BY <1>1, <1>2 DEF SaveRename

LEMMA MarkWrites ==
  ASSUME IInv, SaveMark \/ VerifyOwn, NEW v \in Voiceprints
  PROVE  Written(v)
<1>. DEFINE i == active.id
<1>0. StoreTypeOK /\ FileOK(v) /\ i \in Voiceprints /\ UNCHANGED raced
  BY RowInvIs, AtSave
     DEF IInv, Typed, SaveMark, VerifyOwn, At, EncryptSteps, SaveSteps
<1>1. CASE UNCHANGED storeVars
  BY <1>0, <1>1, RowsKept, KeptIsWritten DEF storeVars
<1>2. CASE SaveMark /\ FailSave(i)
  <2>1. Status(i) # "NONE"
    BY <1>2 DEF IInv, SaveInv, SaveMark, At, RowSteps
  <2>2. /\ UNCHANGED <<envelope, lostFile>>
        /\ voiceprints'[v].status = IF v = i THEN "INTEGRITY_FAILED" ELSE voiceprints[v].status
        /\ voiceprints'[v].path = voiceprints[v].path
        /\ voiceprints'[v].participant = voiceprints[v].participant
        /\ voiceprints'[v].consent = voiceprints[v].consent
    <3>1. "INTEGRITY_FAILED" \in Statuses
      BY DEF Statuses
    <3>. HIDE DEF i
    <3>. QED
      BY <1>0, <1>2, <3>1, MarkIs DEF FailSave
  <2>3. Kept(v)
    BY <1>0, <2>1, <2>2 DEF Kept, Aged, FileOK, Status, Usable, Sound
  <2>. QED
    BY <2>3, KeptIsWritten
<1>3. CASE MarkFailed(i) /\ Usable(i)
  <2>1. Status(i) # "NONE"
    BY <1>3 DEF Usable
  <2>. QED
    BY <1>0, <1>3, <2>1, MarkKeeps, KeptIsWritten
<1>. QED
  BY <1>1, <1>2, <1>3 DEF SaveMark, VerifyOwn, VerifyEnvelope

LEMMA ActivateWrites ==
  ASSUME IInv, SaveActivate, NEW i \in Voiceprints, i = active.id, NEW v \in Voiceprints
  PROVE  /\ Written(v) /\ pc' \in {"check", "idle"} /\ UNCHANGED raced
         /\ Kept(v) \/ \E stuck : Activate(i, stuck)
<1>. DEFINE old == Superseded(i)
<1>0. /\ StoreTypeOK /\ FileOK(v) /\ UNCHANGED raced /\ pc = "activate"
      /\ old \in SUBSET Voiceprints
  BY RowInvIs DEF IInv, Typed, SaveActivate, At, Superseded
<1>1. ASSUME NEW gone \in SUBSET old, RolledBack(gone) PROVE Written(v) /\ Kept(v)
  BY <1>0, <1>1, RolledBackKeeps, KeptIsWritten
<1>2. ASSUME NEW stuck, Activate(i, stuck) PROVE Written(v)
  <2>1. /\ UNCHANGED lostFile /\ voiceprints[i].path /\ envelope' = WithoutFiles(old \ stuck)
        /\ voiceprints'[i].status = "ACTIVE" /\ voiceprints'[i].path
    BY <1>0, <1>2, ActivateIs
  <2>2. v # i => Kept(v)
    <3>. SUFFICES ASSUME v # i PROVE Kept(v)
      OBVIOUS
    <3>. DEFINE s == "SUPERSEDED"
    <3>1. voiceprints'[v] = Retire(old, stuck, s)[v]
      BY <1>0, <1>2, ActivateIs
    <3>2. s \in {"REVOKED", "SUPERSEDED"} /\ \A u \in old : Status(u) # "NONE"
      BY DEF Superseded, Usable
    <3>. HIDE DEF s, old
    <3>. QED
      BY <1>0, <2>1, <3>1, <3>2, UnlinkKeeps
  <2>3. envelope'[i] = envelope[i]
    BY <1>0, <2>1, WithoutFilesIs DEF Superseded
  <2>4. Sound(i) /\ Status(i) # "NONE" /\ Status(i)' = "ACTIVE"
    BY <1>0, <2>1, i = active.id DEF IInv, SaveInv, RowSteps, Status
  <2>5. FileOK(i)'
    BY <1>0, <2>1, <2>3, <2>4 DEF FileOK, Status, Usable, Sound
  <2>. QED
    <3>1. CASE v # i
      BY <2>2, <3>1, KeptIsWritten
    <3>2. CASE v = i
      BY <1>0, <2>4, <2>5, <3>2, i = active.id DEF Written
    <3>. QED
      BY <3>1, <3>2
<1>3. pc' \in {"check", "idle"}
  BY DEF SaveActivate, Failed, FailedByFault
<1>. QED
  BY <1>0, <1>1, <1>2, <1>3, i = active.id DEF SaveActivate

LEMMA SaveWrites ==
  ASSUME IInv, SaveNext, NEW v \in Voiceprints
  PROVE  Written(v)
<1>1. CASE SaveKey \/ SaveReadBack \/ Complete \/ SaveTemp
  <2>1. UNCHANGED <<voiceprints, envelope, lostFile, raced>>
    BY <1>1 DEF SaveKey, SaveReadBack, Complete, SaveTemp, At, storeVars, WriteTemp
  <2>2. FileOK(v)
    BY RowInvIs DEF IInv
  <2>. QED
    BY <2>1, <2>2, RowsKept, KeptIsWritten
<1>2. CASE SaveActivate
  <2>1. \E i \in Voiceprints : i = active.id
    BY <1>2, AtSave DEF SaveActivate, At, EncryptSteps, SaveSteps
  <2>. QED
    BY <1>2, <2>1, ActivateWrites
<1>. QED
  BY <1>1, <1>2, InsertWrites, RenameWrites, MarkWrites DEF SaveNext

-----------------------------------------------------------------------------
(* The keys, and that no session is forgotten *)

KeysTyped ==
    /\ key \in {NoKey, Altered} \cup 1..keysMade /\ keysMade \in Nat
    /\ sealedWith \in [Voiceprints -> 0..keysMade]

LEMMA KeysKept ==
  ASSUME KeysTyped, UNCHANGED keys
  PROVE  KeysTyped'
BY DEF KeysTyped, keys, keyVars

LEMMA KeysSealed ==
  ASSUME IInv, SaveKey
  PROVE  KeysTyped'
<1>. DEFINE i == active.id
<1>0. KeysTyped /\ i \in Voiceprints
  BY AtSave DEF IInv, Typed, OtherTyped, KeysTyped, SaveKey, EncryptSteps, SaveSteps
<1>1. CASE CreateIfMissing /\ Seal(keysMade')
  <2>1. /\ keysMade' \in Nat /\ keysMade <= keysMade'
        /\ key' \in {NoKey, Altered} \cup 1..keysMade'
    BY <1>0, <1>1 DEF CreateIfMissing, KeysTyped, Exists, keyVars, NoKey, Altered
  <2>2. 0..keysMade \subseteq 0..keysMade' /\ keysMade' \in 0..keysMade'
    BY <1>0, <2>1 DEF KeysTyped
  <2>3. sealedWith' \in [Voiceprints -> 0..keysMade']
    BY <1>0, <1>1, <2>2 DEF KeysTyped, Seal
  <2>. QED
    BY <2>1, <2>3 DEF KeysTyped
<1>. QED
  BY <1>0, <1>1, KeysKept DEF SaveKey

LEMMA OtherStep == IInv /\ [Next]_vars => OtherTyped'
<1>. SUFFICES ASSUME IInv, [Next]_vars PROVE OtherTyped'
  OBVIOUS
<1>0. caller \in [Callers -> Call] /\ KeysTyped
  BY DEF IInv, Typed, OtherTyped, KeysTyped
<1>1. caller' \in [Callers -> Call]
  <2>1. CASE KillServer
    <3>1. caller' = [c \in Callers |-> IF c \in Api THEN NoCall ELSE caller[c]]
      BY <2>1 DEF KillServer
    <3>. QED
      BY <1>0, <3>1, CallTypes
  <2>2. CASE Environment /\ ~KillServer
    BY <1>0, <2>2 DEF Environment, Grant, SetActive, RecoverStore, RecoverySomeThenKilled,
       MeetingStarts, MeetingEnds, DamageEnvelope, LoseKeyFile
  <2>3. CASE SaveNext \/ SessionNext
    BY <1>0, <2>3, SaveMoves, SessionPeople
  <2>4. CASE UNCHANGED vars
    BY <1>0, <2>4 DEF vars
  <2>. QED
    BY <2>1, <2>2, <2>3, <2>4, CallerStep DEF Next
<1>2. KeysTyped'
  <2>1. CASE UNCHANGED keys
    BY <1>0, <2>1, KeysKept
  <2>2. CASE LoseKeyFile
    <3>1. UNCHANGED <<sealedWith, keysMade>> /\ key' \in {NoKey, Altered}
      BY <2>2 DEF LoseKeyFile, LoseKey
    <3>. QED
      BY <1>0, <3>1 DEF KeysTyped
  <2>3. CASE SaveNext
    <3>1. SaveKey \/ UNCHANGED keys
      BY <2>3 DEF SaveNext, SaveTemp, SaveRow, SaveRename, SaveReadBack, SaveMark, SaveActivate,
         VerifyOwn, Complete, At
    <3>. QED
      BY <2>1, <3>1, KeysSealed
  <2>4. CASE \E c \in Callers : CallerNext(c)
    <3>1. UNCHANGED keys
      BY <2>4 DEF CallerNext, Revoke, RevokeEvent, RevokeDelete, RetryCleanup, VerifyRead,
         VerifyCheck, KillCommand, Kill
    <3>. QED
      BY <2>1, <3>1
  <2>5. CASE Environment /\ ~LoseKeyFile
    <3>1. UNCHANGED keys
      BY <2>5 DEF Environment, Grant, SetActive, RecoverStore, RecoverySomeThenKilled,
         MeetingStarts, MeetingEnds, KillServer, Kill, DamageEnvelope
    <3>. QED
      BY <2>1, <3>1
  <2>6. CASE UNCHANGED vars
    BY <2>1, <2>6 DEF vars
  <2>. QED
    BY <2>1, <2>2, <2>3, <2>4, <2>5, <2>6, SessionPeople DEF Next
<1>. QED
  BY <1>1, <1>2 DEF OtherTyped, KeysTyped

\* The row of a session is never deleted.
SessionsStay == \A s \in Sessions : sessions[s] # "NONE" => sessions'[s] # "NONE"

LEMMA SetStays ==
  ASSUME ServerTyped, NEW i, NEW s \in Live \cup Terminal,
         sessions' = [sessions EXCEPT ![i] = s]
  PROVE  SessionsStay
<1>1. s # "NONE"
  BY DEF Live, Terminal
<1>. QED
  BY <1>1 DEF SessionsStay, ServerTyped

LEMMA ClosesStays ==
  ASSUME ServerTyped,
         (\E s \in Terminal : Closes(s) \/ End(s)) \/ UNCHANGED sessions
  PROVE  SessionsStay
BY SetStays DEF Closes, End, SessionsStay

LEMMA SessionsStayStep == IInv /\ [Next]_vars => SessionsStay
<1>. SUFFICES ASSUME IInv, [Next]_vars PROVE SessionsStay
  OBVIOUS
<1>0. ServerTyped
  BY DEF IInv, Typed
<1>1. CASE UNCHANGED sessions
  BY <1>1 DEF SessionsStay
<1>2. CASE SaveNext
  <2>1. (\E s \in Terminal : Closes(s) \/ End(s)) \/ UNCHANGED sessions
    BY <1>2, SaveMoves DEF Terminal
  <2>. QED
    BY <1>0, <2>1, ClosesStays
<1>3. CASE SessionNext
  <2>1. CASE InsertSession
    <3>1. \/ UNCHANGED sessions
          \/ \E s \in Sessions : sessions' = [sessions EXCEPT ![s] = "READY"]
      BY <2>1 DEF InsertSession
    <3>. QED
      BY <1>0, <1>1, <3>1, SetStays DEF Live
  <2>2. CASE AddSample
    <3>1. CASE active.state \in {"READY", "CAPTURING"}
      <4>1. CASE Fail
        BY <1>0, <4>1, FailIs, ClosesStays
      <4>2. CASE sessions' = [sessions EXCEPT ![active.id] = "CAPTURING"]
        BY <1>0, <4>2, SetStays DEF Live
      <4>3. ASSUME NEW ms \in Interrupted(active.state),
                   sessions' = [sessions EXCEPT ![active.id] = ms[2]]
            PROVE  SessionsStay
        <5>1. ms[2] \in Live
          BY InterruptedIs
        <5>. QED
          BY <1>0, <4>3, <5>1, SetStays
      <4>. QED
        BY <2>2, <3>1, <4>1, <4>2, <4>3 DEF AddSample, Enter
    <3>. QED
      BY <1>1, <2>2, <3>1 DEF AddSample
  <2>3. CASE Finalize \/ Recheck
    <3>1. \/ UNCHANGED sessions \/ Fail
          \/ \E s \in Live : sessions' = [sessions EXCEPT ![active.id] = s]
      BY <2>3 DEF Finalize, Recheck, Failed, Enter, Live
    <3>. QED
      BY <1>0, <1>1, <3>1, FailIs, ClosesStays, SetStays
  <2>4. CASE Cancel
    <3>1. UNCHANGED sessions \/ Abandon
      BY <2>4 DEF Cancel
    <3>. QED
      BY <1>0, <1>1, <3>1, AbandonIs, ClosesStays
  <2>5. CASE \/ (\E p \in Participants : Start(p)) \/ AcquireLock \/ ClaimCapture
             \/ OpenStream \/ TakeSample \/ GiveUpSample
    BY <1>1, <2>5 DEF Start, AcquireLock, ClaimCapture, OpenStream, TakeSample, GiveUpSample,
       RestOfCapture
  <2>. QED
    BY <1>3, <2>1, <2>2, <2>3, <2>4, <2>5 DEF SessionNext
<1>4. CASE \E c \in Callers : CallerNext(c)
  BY <1>0, <1>1, <1>4, CallerMoves, AbandonIs, ClosesStays
<1>5. CASE Environment
  <2>1. UNCHANGED sessions
    BY <1>5 DEF Environment, Grant, SetActive, RecoverStore, RecoverySomeThenKilled,
       MeetingStarts, MeetingEnds, KillServer, DamageEnvelope, LoseKeyFile, server
  <2>. QED
    BY <1>1, <2>1
<1>6. CASE UNCHANGED vars
  BY <1>1, <1>6 DEF vars, server
<1>. QED
  BY <1>2, <1>3, <1>4, <1>5, <1>6 DEF Next

-----------------------------------------------------------------------------
(* The rows *)

\* A row that only ages, and a consent that stays.
LEMMA ConsentKept ==
  ASSUME IInv, NEW v \in Voiceprints, Kept(v), UNCHANGED <<consent, owed, raced>>
  PROVE  Usable(v)' => UnderConsent(v)'
<1>1. Usable(v) => UnderConsent(v)
  BY RowInvIs DEF IInv
<1>2. (Usable(v)' => Usable(v)) /\ voiceprints'[v].participant = voiceprints[v].participant
      /\ voiceprints'[v].consent = voiceprints[v].consent
  BY DEF Kept, Aged
<1>. QED
  BY <1>1, <1>2 DEF UnderConsent, Granted

LEMMA RowsAge ==
  ASSUME IInv, SessionsStay, \A v \in Voiceprints : Kept(v),
         \A v \in Voiceprints : Usable(v)' => UnderConsent(v)'
  PROVE  RowInv'
<1>1. ASSUME NEW v \in Voiceprints
      PROVE  /\ FileOK(v)' /\ (Usable(v)' => Usable(v))
             /\ Status(v)' # "NONE" => Status(v) # "NONE"
             /\ voiceprints'[v].participant = voiceprints[v].participant
  BY <1>1 DEF Kept, Aged
<1>2. OneLiveTemplate'
  <2>1. OneLiveTemplate
    BY RowInvIs DEF IInv
  <2>. QED
    BY <1>1, <2>1 DEF OneLiveTemplate
<1>3. ASSUME NEW v \in Voiceprints, Status(v)' # "NONE"
      PROVE  sessions'[v] # "NONE" /\ voiceprints'[v].participant \in Participants
  <2>1. sessions[v] # "NONE" /\ voiceprints[v].participant \in Participants
    BY <1>1, <1>3, RowInvIs DEF IInv
  <2>. QED
    BY <1>1, <2>1 DEF SessionsStay, Sessions
<1>. QED
  BY <1>1, <1>2, <1>3, RowInvIs

LEMMA InsertRow ==
  ASSUME IInv, SaveRow, pc' = "rename", SessionsStay
  PROVE  RowInv'
<1>. DEFINE i == active.id
<1>0. /\ i \in Voiceprints /\ active.participant \in Participants /\ sessions[i] # "NONE"
      /\ UNCHANGED <<consent, owed, raced>>
  BY AtSave DEF SaveRow, At, EncryptSteps, SaveSteps, people, Live
<1>1. /\ voiceprints'[i].status = "PENDING_WRITE"
      /\ voiceprints'[i].participant = active.participant
  BY <1>0, InsertWrites DEF Status
<1>2. ASSUME NEW v \in Voiceprints PROVE FileOK(v)' /\ (v # i => Kept(v))
  BY InsertWrites DEF Written
<1>3. OneLiveTemplate'
  <2>1. OneLiveTemplate
    BY RowInvIs DEF IInv
  <2>2. ASSUME NEW v \in Voiceprints, Usable(v)'
        PROVE  Usable(v) /\ voiceprints'[v].participant = voiceprints[v].participant
    BY <1>1, <1>2, <2>2 DEF Kept, Aged, Usable, Status
  <2>. QED
    BY <2>1, <2>2 DEF OneLiveTemplate
<1>4. ASSUME NEW v \in Voiceprints
      PROVE  /\ Usable(v)' => UnderConsent(v)'
             /\ Status(v)' # "NONE" =>
                   sessions'[v] # "NONE" /\ voiceprints'[v].participant \in Participants
  <2>1. CASE v = i
    BY <1>0, <1>1, <2>1 DEF Usable, Status, SessionsStay, Sessions
  <2>2. CASE v # i
    <3>1. Kept(v)
      BY <1>2, <2>2
    <3>2. Usable(v)' => UnderConsent(v)'
      BY <1>0, <3>1, ConsentKept
    <3>3. Status(v)' # "NONE" => sessions[v] # "NONE" /\ voiceprints[v].participant \in Participants
      BY <3>1, RowInvIs DEF Kept, Aged, IInv
    <3>. QED
      BY <3>1, <3>2, <3>3 DEF Kept, Aged, SessionsStay, Sessions
  <2>. QED
    BY <2>1, <2>2
<1>. QED
  BY <1>2, <1>3, <1>4, RowInvIs

\* The activation retires what was usable before, so that one template is.
LEMMA ActivateRow ==
  ASSUME IInv, SaveActivate, SessionsStay, NEW i \in Voiceprints, i = active.id,
         NEW stuck, Activate(i, stuck)
  PROVE  RowInv'
<1>0. /\ StoreTypeOK /\ UNCHANGED <<consent, owed, raced>> /\ pc = "activate"
      /\ OneLiveTemplate
  BY RowInvIs DEF IInv, Typed, SaveActivate, At, people
<1>1. /\ Status(i) # "NONE" /\ voiceprints[i].participant = active.participant
      /\ voiceprints[i].consent = active.consent
      /\ i \in raced \/ (Granted(active.participant)
                          /\ active.consent = consent[active.participant])
  BY <1>0, i = active.id DEF IInv, SaveInv, RowSteps, SaveSteps
<1>2. ASSUME NEW v \in Voiceprints
      PROVE  /\ FileOK(v)' /\ (v # i => Kept(v)) /\ (Status(v) = "NONE" /\ v # i => Status(v)' = "NONE")
             /\ voiceprints'[v].participant = voiceprints[v].participant
             /\ voiceprints'[v].consent = voiceprints[v].consent
  <2>1. Written(v)
    BY ActivateWrites, i = active.id
  <2>2. /\ voiceprints'[v].participant = voiceprints[v].participant
        /\ voiceprints'[v].consent = voiceprints[v].consent
    BY <1>0, ActivateIs
  <2>. QED
    BY <2>1, <2>2, i = active.id DEF Written, Kept, Aged
<1>3. ASSUME NEW v \in Voiceprints, v # i, Usable(v)'
      PROVE  Usable(v) /\ voiceprints[v].participant # voiceprints[i].participant
  <2>1. Usable(v)
    BY <1>2, <1>3 DEF Kept, Aged
  <2>2. voiceprints'[v] = Retire(Superseded(i), stuck, "SUPERSEDED")[v]
    BY <1>0, <1>3, ActivateIs
  <2>3. CASE v \in Superseded(i)
    <3>. DEFINE s == "SUPERSEDED"
    <3>1. s \in Statuses /\ Superseded(i) \in SUBSET Voiceprints
      BY DEF Statuses, Superseded
    <3>2. Retire(Superseded(i), stuck, s)[v].status \in {"DELETE_PENDING", s}
      <4>. HIDE DEF s
      <4>. QED
        BY <1>0, <2>3, <3>1, RetiredRow
    <3>. QED
      BY <1>3, <2>2, <3>2 DEF Usable, Status
  <2>. QED
    BY <1>3, <2>1, <2>3 DEF Superseded
<1>4. OneLiveTemplate'
  BY <1>0, <1>2, <1>3 DEF OneLiveTemplate
<1>5. ASSUME NEW v \in Voiceprints PROVE Usable(v)' => UnderConsent(v)'
  <2>1. CASE v = i
    BY <1>0, <1>1, <1>2, <2>1 DEF UnderConsent, Granted
  <2>2. CASE v # i
    BY <1>0, <1>2, <2>2, ConsentKept
  <2>. QED
    BY <2>1, <2>2
<1>6. ASSUME NEW v \in Voiceprints, Status(v)' # "NONE"
      PROVE  sessions'[v] # "NONE" /\ voiceprints'[v].participant \in Participants
  <2>1. Status(v) # "NONE"
    BY <1>1, <1>2, <1>6
  <2>2. sessions[v] # "NONE" /\ voiceprints[v].participant \in Participants
    BY <2>1, RowInvIs DEF IInv
  <2>. QED
    BY <1>2, <2>2 DEF SessionsStay, Sessions
<1>. QED
  BY <1>2, <1>4, <1>5, <1>6, RowInvIs

LEMMA SaveRows ==
  ASSUME IInv, SaveNext, SessionsStay
  PROVE  RowInv'
<1>1. UNCHANGED <<consent, owed, raced>>
  BY SaveMoves
<1>2. PICK i \in Voiceprints : i = active.id
  BY SaveMoves, AtSave
<1>3. CASE \A v \in Voiceprints : Kept(v)
  <2>1. \A v \in Voiceprints : Usable(v)' => UnderConsent(v)'
    BY <1>1, <1>3, ConsentKept
  <2>. QED
    BY <1>3, <2>1, RowsAge
<1>4. CASE pc \notin {"insert_row", "activate"}
  <2>1. \A v \in Voiceprints : Kept(v)
    BY <1>4, SaveWrites DEF Written
  <2>. QED
    BY <1>3, <2>1
<1>5. CASE pc = "insert_row"
  <2>1. SaveRow
    BY <1>5 DEF SaveNext, SaveKey, SaveTemp, SaveRename, SaveReadBack, SaveMark, SaveActivate,
       VerifyOwn, Complete, At
  <2>2. CASE pc' = "rename"
    BY <2>1, <2>2, InsertRow
  <2>3. CASE pc' # "rename"
    <3>1. ASSUME NEW v \in Voiceprints PROVE Kept(v)
      <4>1. FileOK(v) /\ UNCHANGED <<voiceprints, envelope, lostFile>>
        BY <2>1, <2>3, InsertWrites, RowInvIs DEF IInv, DropTemp
      <4>. QED
        BY <1>1, <4>1, RowsKept
    <3>. QED
      BY <1>3, <3>1
  <2>. QED
    BY <2>2, <2>3
<1>6. CASE pc = "activate"
  <2>1. SaveActivate
    BY <1>6 DEF SaveNext, SaveKey, SaveTemp, SaveRow, SaveRename, SaveReadBack, SaveMark,
       VerifyOwn, Complete, At
  <2>2. CASE \E stuck : Activate(i, stuck)
    BY <1>2, <2>1, <2>2, ActivateRow
  <2>3. CASE ~\E stuck : Activate(i, stuck)
    <3>1. \A v \in Voiceprints : Kept(v)
      BY <1>2, <2>1, <2>3, ActivateWrites
    <3>. QED
      BY <1>3, <3>1
  <2>. QED
    BY <2>2, <2>3
<1>. QED
  BY <1>4, <1>5, <1>6

LEMMA CallerRows ==
  ASSUME IInv, NEW c \in Callers, CallerNext(c), SessionsStay
  PROVE  RowInv'
<1>0. \A v \in Voiceprints : Kept(v)
  BY CallerKeeps
<1>1. CASE UNCHANGED <<consent, owed, raced>>
  BY <1>0, <1>1, ConsentKept, RowsAge
<1>2. CASE RevokeEvent(c) \/ RevokeDelete(c)
  <2>. DEFINE p == caller[c].participant
  <2>1. p \in Participants /\ consent \in [Participants -> 0..MaxConsents]
    BY <1>2 DEF IInv, Typed, PeopleTyped, CallerInv, RevokeEvent, RevokeDelete, CallerAt
  <2>2. CASE UNCHANGED storeVars /\ AppendEvent(p) /\ owed' = owed \cup {p} /\ raced \subseteq raced'
    <3>1. ASSUME NEW v \in Voiceprints, Usable(v)' PROVE UnderConsent(v)'
      <4>1. UnderConsent(v) /\ voiceprints' = voiceprints
        BY <2>2, <3>1, RowInvIs DEF IInv, storeVars, Usable, Status
      <4>2. voiceprints[v].participant # p =>
                consent'[voiceprints[v].participant] = consent[voiceprints[v].participant]
        BY <2>1, <2>2 DEF AppendEvent
      <4>. QED
        BY <2>2, <4>1, <4>2 DEF UnderConsent, Granted
    <3>. QED
      BY <1>0, <3>1, RowsAge
  <2>3. ASSUME NEW stuck, DeleteForRevocation(p, stuck), UNCHANGED consent,
               owed' = owed \ {p}, raced \subseteq raced'
        PROVE  RowInv'
    <3>1. ASSUME NEW v \in Voiceprints, Usable(v)' PROVE UnderConsent(v)'
      <4>. DEFINE s == "REVOKED"
      <4>1. /\ Usable(v) /\ voiceprints'[v].participant = voiceprints[v].participant
            /\ voiceprints'[v].consent = voiceprints[v].consent
        BY <1>0, <3>1 DEF Kept, Aged
      <4>2. /\ voiceprints' = Retire(Deletable(p), stuck, s) /\ s \in Statuses
            /\ Deletable(p) \in SUBSET Voiceprints /\ StoreTypeOK
        BY <2>1, <2>3, RevokedIs DEF IInv, Typed, Statuses
      <4>3. v \in Deletable(p) => voiceprints'[v].status \in {"DELETE_PENDING", s}
        <5>. HIDE DEF p, s
        <5>. QED
          BY <4>2, RetiredRow
      <4>4. v \notin Deletable(p)
        BY <3>1, <4>3 DEF Usable, Status
      <4>5. voiceprints[v].participant # p
        BY <4>1, <4>4 DEF Deletable, Usable
      <4>6. UnderConsent(v)
        BY <4>1, RowInvIs DEF IInv
      <4>. QED
        BY <2>3, <4>1, <4>5, <4>6 DEF UnderConsent, Granted
    <3>. QED
      BY <1>0, <3>1, RowsAge
  <2>4. CASE RevokeEvent(c)
    BY <1>1, <2>2, <2>4 DEF RevokeEvent
  <2>5. CASE RevokeDelete(c)
    <3>1. UNCHANGED consent
      BY <2>5 DEF RevokeDelete, people
    <3>. QED
      BY <1>1, <2>3, <2>5, <3>1 DEF RevokeDelete
  <2>. QED
    BY <1>2, <2>4, <2>5
<1>3. CASE \/ (\E p \in Participants : Revoke(c, p)) \/ RetryCleanup(c)
           \/ (\E v \in Voiceprints : VerifyRead(c, v)) \/ VerifyCheck(c) \/ KillCommand(c)
  <2>1. UNCHANGED <<consent, owed, raced>>
    BY <1>3 DEF Revoke, RetryCleanup, VerifyRead, VerifyCheck, KillCommand, Kill, people
  <2>. QED
    BY <1>1, <2>1
<1>. QED
  BY <1>2, <1>3 DEF CallerNext

LEMMA OthersRows ==
  ASSUME IInv, Environment, SessionsStay
  PROVE  RowInv'
<1>0. \A v \in Voiceprints : Kept(v)
  BY OthersKeep
<1>1. CASE UNCHANGED <<consent, owed, raced>>
  BY <1>0, <1>1, ConsentKept, RowsAge
<1>2. ASSUME NEW p \in Participants, Grant(p) PROVE RowInv'
  <2>1. ASSUME NEW v \in Voiceprints, Usable(v)' PROVE UnderConsent(v)'
    <3>1. UnderConsent(v) /\ voiceprints' = voiceprints /\ UNCHANGED <<owed, raced>>
      BY <1>2, <2>1, RowInvIs DEF IInv, storeVars, Usable, Status, Grant
    <3>2. ~Granted(p) /\ (voiceprints[v].participant # p =>
              consent'[voiceprints[v].participant] = consent[voiceprints[v].participant])
      BY <1>2 DEF Grant, AppendEvent, IInv, Typed, PeopleTyped
    <3>. QED
      BY <3>1, <3>2 DEF UnderConsent, Granted
  <2>. QED
    BY <1>0, <2>1, RowsAge
<1>3. CASE Environment /\ ~\E p \in Participants : Grant(p)
  <2>1. UNCHANGED <<consent, owed, raced>>
    BY <1>3 DEF Environment, SetActive, RecoverStore, RecoverySomeThenKilled, MeetingStarts,
       MeetingEnds, KillServer, Kill, DamageEnvelope, LoseKeyFile, people
  <2>. QED
    BY <1>1, <2>1
<1>. QED
  BY <1>2, <1>3

LEMMA RowStep == IInv /\ [Next]_vars => RowInv'
<1>. SUFFICES ASSUME IInv, [Next]_vars PROVE RowInv'
  OBVIOUS
<1>0. SessionsStay
  BY SessionsStayStep
<1>1. CASE UNCHANGED <<voiceprints, envelope, lostFile, consent, owed, raced>>
  <2>1. \A v \in Voiceprints : Kept(v)
    <3>1. \A v \in Voiceprints : FileOK(v)
      BY RowInvIs DEF IInv
    <3>. QED
      BY <1>1, <3>1, RowsKept
  <2>. QED
    BY <1>0, <1>1, <2>1, ConsentKept, RowsAge
<1>2. CASE SessionNext
  BY <1>1, <1>2, SessionStoreStays, SessionPeople DEF storeVars
<1>3. CASE UNCHANGED vars
  BY <1>1, <1>3 DEF vars, storeVars, people
<1>. QED
  BY <1>0, <1>2, <1>3, SaveRows, CallerRows, OthersRows DEF Next

-----------------------------------------------------------------------------
(* The save in progress *)

\* Once the save is over, or left by an error, it has no row to answer for.
LEMMA SaveLeft ==
  ASSUME pc' \notin SaveSteps, ~HasSession' \/ active'.state = "ENCRYPTING"
  PROVE  SaveInv'
BY DEF SaveInv, SaveSteps, RowSteps

\* A session that has not begun to save still has no row.
LEMMA NoRowYet ==
  ASSUME IInv, HasSession, active.state # "ENCRYPTING", active'.id = active.id,
         pc' \notin SaveSteps, UNCHANGED voiceprints
  PROVE  SaveInv'
<1>1. Status(active.id) = "NONE"
  BY DEF IInv, SaveInv
<1>2. Status(active.id)' = "NONE"
  BY <1>1 DEF Status
<1>. QED
  BY <1>2 DEF SaveInv, SaveSteps, RowSteps

LEMMA ClosedSave ==
  ASSUME ServerTyped, active.id \in Sessions, pc' = "idle",
         (\E s \in Terminal : Closes(s)) \/ active' = NoSession
  PROVE  SaveInv'
<1>1. ~HasSession'
  <2>1. CASE active' = NoSession
    BY <2>1, NothingInMemory DEF HasSession, Live
  <2>2. ASSUME NEW s \in Terminal, Closes(s) PROVE ~HasSession'
    BY <2>2, ClosesIs DEF HasSession, Live, Terminal
  <2>. QED
    BY <2>1, <2>2
<1>. QED
  BY <1>1, SaveLeft DEF SaveSteps

\* Whatever others do behind the back of the save: its row only ages, and if that or the
\* consent matters to it then it is known to be overtaken.
LEMMA BehindSave ==
  ASSUME IInv, UNCHANGED <<active, pc>>, raced \subseteq raced',
         \A v \in Voiceprints : Kept(v),
         pc \in SaveSteps => \/ active.id \in raced'
                             \/ consent'[active.participant] = consent[active.participant],
         pc \in RowSteps /\ Status(active.id) = "PENDING_WRITE" =>
            active.id \in raced' \/ voiceprints'[active.id] = voiceprints[active.id]
  PROVE  SaveInv'
<1>. DEFINE i == active.id
<1>1. HasSession => i \in Voiceprints
  BY DEF IInv, SessionInv, Sessions
<1>2. pc \in SaveSteps => HasSession
  BY AtSave DEF EncryptSteps
<1>3. HasSession => Aged(i)
  BY <1>1 DEF Kept
<1>4. HasSession /\ (active.state # "ENCRYPTING" \/ pc \in {"key", "temp", "insert_row"})
          => Status(i)' = "NONE"
  BY <1>3 DEF IInv, SaveInv, Aged
<1>5. pc \in SaveSteps => \/ i \in raced'
                          \/ Granted(active.participant)' /\ active.consent = consent'[active.participant]
  BY DEF IInv, SaveInv, Granted
<1>6. ASSUME pc \in RowSteps
      PROVE  /\ Status(i)' # "NONE"
             /\ voiceprints'[i].participant = active.participant
             /\ voiceprints'[i].consent = active.consent
             /\ \/ i \in raced'
                \/ Status(i)' = "PENDING_WRITE" /\ voiceprints'[i].path
  <2>1. pc \in SaveSteps /\ Aged(i)
    BY <1>2, <1>3, <1>6 DEF RowSteps, SaveSteps
  <2>2. /\ Status(i) # "NONE" /\ voiceprints[i].participant = active.participant
        /\ voiceprints[i].consent = active.consent
        /\ i \in raced \/ (Status(i) = "PENDING_WRITE" /\ voiceprints[i].path)
    BY <1>6 DEF IInv, SaveInv
  <2>3. /\ Status(i)' # "NONE" /\ voiceprints'[i].participant = active.participant
        /\ voiceprints'[i].consent = active.consent
    BY <2>1, <2>2 DEF Aged
  <2>4. i \in raced' \/ (Status(i)' = "PENDING_WRITE" /\ voiceprints'[i].path)
    BY <1>6, <2>2 DEF Status
  <2>. QED
    BY <2>3, <2>4
<1>7. pc = "activate" /\ voiceprints'[i].path => Sound(i)'
  <2>1. pc = "activate" => Aged(i)
    BY <1>2, <1>3 DEF SaveSteps
  <2>. QED
    BY <2>1 DEF IInv, SaveInv, Aged
<1>. QED
  BY <1>4, <1>5, <1>6, <1>7 DEF SaveInv, HasSession

LEMMA SaveSaves ==
  ASSUME IInv, SaveNext
  PROVE  SaveInv'
<1>1. /\ HasSession /\ active.state = "ENCRYPTING" /\ active.id \in Voiceprints /\ ServerTyped
      /\ UNCHANGED <<consent, raced>>
  BY SaveMoves, AtSave DEF IInv, Typed
<1>2. CASE pc' \in {"check", "complete", "idle"}
  <2>1. CASE active' \in {active, [active EXCEPT !.samples = <<>>]}
    BY <1>1, <1>2, <2>1, SamplesDropped, SaveLeft DEF SaveSteps
  <2>2. CASE (\E s \in Terminal : Closes(s)) \/ active' = NoSession
    <3>1. ~HasSession'
      <4>1. CASE active' = NoSession
        BY <4>1, NothingInMemory DEF HasSession, Live
      <4>2. ASSUME NEW s \in Terminal, Closes(s) PROVE ~HasSession'
        BY <1>1, <4>2, ClosesIs DEF HasSession, Live, Terminal, Sessions
      <4>. QED
        BY <2>2, <4>1, <4>2
    <3>. QED
      BY <1>2, <3>1, SaveLeft DEF SaveSteps
  <2>. QED
    BY <2>1, <2>2, SaveMoves
<1>3. CASE pc' \notin {"check", "complete", "idle"}
  <2>1. CASE SaveKey \/ SaveTemp
    <3>1. /\ pc \in {"key", "temp"} /\ pc' \in {"temp", "insert_row"}
          /\ UNCHANGED <<active, voiceprints>>
      BY <1>3, <2>1 DEF SaveKey, SaveTemp, At, Proceed, Failed, FailedByFault, WriteTemp, storeVars
    <3>. QED
      BY <1>1, <3>1 DEF IInv, SaveInv, SaveSteps, RowSteps, HasSession, Status, Granted
  <2>2. CASE SaveRow
    <3>1. pc = "insert_row" /\ pc' = "rename"
      BY <1>1, <1>3, <2>2, InsertWrites DEF SaveRow, At
    <3>2. /\ active' = active /\ Status(active.id)' = "PENDING_WRITE"
          /\ voiceprints'[active.id].path
          /\ voiceprints'[active.id].participant = active.participant
          /\ voiceprints'[active.id].consent = active.consent
      BY <1>1, <2>2, <3>1, InsertWrites
    <3>. QED
      BY <1>1, <3>1, <3>2 DEF IInv, SaveInv, SaveSteps, RowSteps, HasSession, Granted
  <2>3. CASE SaveRename
    <3>1. /\ UNCHANGED <<voiceprints, active>> /\ pc' \in {"readback", "markfail"}
          /\ pc = "rename"
      BY <1>1, <2>3, RenameWrites DEF SaveRename, At
    <3>. QED
      BY <1>1, <3>1 DEF IInv, SaveInv, SaveSteps, RowSteps, HasSession, Status, Granted
  <2>4. CASE SaveReadBack
    <3>1. /\ UNCHANGED <<voiceprints, envelope, lostFile, active>> /\ pc = "readback"
          /\ pc' \in {"activate", "markfail"}
          /\ pc' = "activate" => envelope[active.id] = "good"
      BY <2>4 DEF SaveReadBack, At, Proceed, storeVars
    <3>. QED
      BY <1>1, <3>1 DEF IInv, SaveInv, SaveSteps, RowSteps, HasSession, Status, Granted, Sound
  <2>5. CASE SaveMark \/ SaveActivate \/ VerifyOwn \/ Complete
    BY <1>1, <1>3, <2>5 DEF SaveMark, SaveActivate, VerifyOwn, Complete, Failed, FailedByFault,
       Proceed, Escape
  <2>. QED
    BY <2>1, <2>2, <2>3, <2>4, <2>5 DEF SaveNext
<1>. QED
  BY <1>2, <1>3

LEMMA SessionSaves ==
  ASSUME IInv, SessionNext
  PROVE  SaveInv'
<1>0. UNCHANGED <<voiceprints, envelope, lostFile, consent, raced>> /\ ServerTyped /\ SessionInv
  BY SessionStoreStays, SessionPeople DEF storeVars, IInv, Typed
<1>1. CASE UNCHANGED <<active, pc>>
  BY <1>0, <1>1 DEF IInv, SaveInv, HasSession, Status, Granted, Sound
<1>2. CASE (\E p \in Participants : Start(p)) \/ AcquireLock
  <2>1. ~HasSession /\ UNCHANGED active /\ pc' \in {"acquire", "insert", "idle"}
    BY <1>0, <1>2 DEF Start, AcquireLock, SessionInv
  <2>. QED
    BY <2>1, SaveLeft DEF HasSession, SaveSteps
<1>3. CASE InsertSession
  <2>1. pc' = "idle" /\ ~HasSession
    BY <1>0, <1>3 DEF InsertSession, SessionInv
  <2>2. CASE UNCHANGED active
    BY <2>1, <2>2, SaveLeft DEF HasSession, SaveSteps
  <2>3. ASSUME NEW s \in Sessions, sessions[s] = "NONE", active'.id = s PROVE SaveInv'
    <3>1. Status(s) = "NONE"
      BY <2>3, RowInvIs DEF IInv, Sessions
    <3>2. Status(s)' = "NONE"
      BY <1>0, <3>1 DEF Status
    <3>. QED
      BY <2>1, <2>3, <3>2 DEF SaveInv, SaveSteps, RowSteps, Status
  <2>. QED
    BY <1>3, <2>2, <2>3 DEF InsertSession
<1>4. CASE ClaimCapture \/ OpenStream \/ TakeSample \/ GiveUpSample
  BY <1>1, <1>4 DEF ClaimCapture, OpenStream, TakeSample, GiveUpSample, RestOfCapture
<1>5. CASE Cancel
  <2>1. CASE ~HasSession
    BY <1>1, <1>5, <2>1 DEF Cancel
  <2>2. CASE HasSession
    <3>1. Abandon /\ pc' = "idle" /\ active.id \in Sessions
      BY <1>0, <1>5, <2>2 DEF Cancel, Idle, SessionInv
    <3>. QED
      BY <1>0, <3>1, AbandonIs, ClosedSave
  <2>. QED
    BY <2>1, <2>2
<1>6. CASE AddSample
  <2>1. CASE active.state \in {"READY", "CAPTURING"}
    <3>1. /\ HasSession /\ active.id \in Sessions /\ active \in Session
          /\ pc' = "idle" /\ active.state # "ENCRYPTING"
      BY <1>0, <1>6, <2>1, SessionParts DEF HasSession, Live, SessionInv, AddSample, Idle
    <3>2. CASE Fail
      BY <1>0, <3>1, <3>2, FailIs, ClosedSave
    <3>3. CASE ~Fail
      <4>1. active'.id = active.id
        <5>1. CASE active' = [active EXCEPT !.state = "CAPTURING", !.samples = With(capture.of)]
          BY <3>1, <5>1 DEF Session
        <5>2. CASE active' = [active EXCEPT !.state = "CAPTURING"]
          BY <3>1, <5>2 DEF Session
        <5>3. ASSUME NEW ms,
                     active' = [active EXCEPT !.state = ms[1],
                                   !.samples = IF ms[3] THEN With(capture.of) ELSE @]
              PROVE  active'.id = active.id
          BY <3>1, <5>3 DEF Session
        <5>. QED
          BY <1>6, <2>1, <3>3, <5>1, <5>2, <5>3 DEF AddSample, Enter
      <4>. QED
        BY <1>0, <3>1, <4>1, NoRowYet DEF SaveSteps
    <3>. QED
      BY <3>2, <3>3
  <2>2. CASE active.state \notin {"READY", "CAPTURING"}
    BY <1>1, <1>6, <2>2 DEF AddSample
  <2>. QED
    BY <2>1, <2>2
<1>7. CASE Finalize
  <2>1. HasSession /\ active.state # "ENCRYPTING" /\ active.id \in Sessions /\ pc = "idle"
    BY <1>0, <1>7 DEF Finalize, At, HasSession, Live, SessionInv
  <2>2. CASE Fail /\ UNCHANGED pc
    BY <1>0, <2>1, <2>2, FailIs, ClosedSave
  <2>3. CASE Enter("EMBEDDING") /\ pc' = "recheck"
    <3>1. active'.id = active.id
      BY <1>0, <2>1, <2>3, EnterIs DEF Live
    <3>. QED
      BY <1>0, <2>1, <2>3, <3>1, NoRowYet DEF SaveSteps
  <2>. QED
    BY <1>7, <2>2, <2>3 DEF Finalize
<1>8. CASE Recheck
  <2>1. HasSession /\ active.state # "ENCRYPTING" /\ active.id \in Sessions
    BY <1>0, <1>8 DEF Recheck, At, HasSession, Live, SessionInv
  <2>2. CASE Failed
    BY <1>0, <2>1, <2>2, FailIs, ClosedSave DEF Failed
  <2>3. CASE Escape /\ UNCHANGED active
    BY <1>0, <2>1, <2>3, NoRowYet DEF Escape, SaveSteps
  <2>4. CASE StillConsented /\ Enter("ENCRYPTING") /\ pc' = "key"
    <3>1. /\ active'.id = active.id /\ active'.participant = active.participant
          /\ active'.consent = active.consent
      BY <1>0, <2>1, <2>4, EnterIs DEF Live
    <3>2. Status(active.id) = "NONE"
      BY <2>1 DEF IInv, SaveInv
    <3>. QED
      BY <1>0, <2>4, <3>1, <3>2 DEF SaveInv, StillConsented, Status, Granted, RowSteps
  <2>. QED
    BY <1>8, <2>2, <2>3, <2>4 DEF Recheck
<1>. QED
  BY <1>2, <1>3, <1>4, <1>5, <1>6, <1>7, <1>8 DEF SessionNext

LEMMA CallerSaves ==
  ASSUME IInv, NEW c \in Callers, CallerNext(c)
  PROVE  SaveInv'
<1>0. /\ \A v \in Voiceprints : Kept(v)
      /\ UNCHANGED pc /\ StoreTypeOK /\ ServerTyped /\ SessionInv
  BY CallerKeeps, CallerMoves DEF IInv, Typed
<1>1. pc \in SaveSteps => active.id \in Voiceprints /\ active.participant \in Participants
  BY AtSave DEF EncryptSteps
<1>2. CASE HasSession /\ pc = "idle" /\ Abandon
  <2>1. active.id \in Sessions
    BY <1>0, <1>2 DEF SessionInv
  <2>. QED
    BY <1>0, <1>2, <2>1, AbandonIs, ClosedSave
<1>3. CASE UNCHANGED active
  <2>1. CASE UNCHANGED <<voiceprints, consent, raced>>
    BY <1>0, <1>3, <2>1, BehindSave
  <2>2. CASE RevokeEvent(c)
    <3>. DEFINE p == caller[c].participant
    <3>1. CASE UNCHANGED <<consent, raced>>
      BY <2>1, <2>2, <3>1 DEF RevokeEvent, storeVars
    <3>2. CASE AppendEvent(p) /\ raced' = IF Saving(p) THEN raced \cup {active.id} ELSE raced
      <4>1. UNCHANGED voiceprints /\ consent \in [Participants -> 0..MaxConsents]
        BY <2>2 DEF RevokeEvent, storeVars, IInv, Typed, PeopleTyped
      <4>2. pc \in SaveSteps => \/ active.id \in raced'
                                \/ consent'[active.participant] = consent[active.participant]
        BY <1>1, <3>2, <4>1 DEF AppendEvent, Saving
      <4>3. raced \subseteq raced'
        BY <3>2
      <4>. QED
        BY <1>0, <1>3, <4>1, <4>2, <4>3, BehindSave
    <3>. QED
      BY <2>2, <3>1, <3>2 DEF RevokeEvent
  <2>3. CASE RevokeDelete(c)
    <3>. DEFINE p == caller[c].participant
    <3>1. UNCHANGED consent /\ p \in Participants
      BY <2>3 DEF RevokeDelete, people, IInv, CallerInv, CallerAt
    <3>2. ASSUME NEW stuck, DeleteForRevocation(p, stuck),
                 raced' = IF Saving(p) THEN raced \cup {active.id} ELSE raced
          PROVE  SaveInv'
      <4>. DEFINE s == "REVOKED"
      <4>1. /\ voiceprints' = Retire(Deletable(p), stuck, s) /\ s \in Statuses
            /\ Deletable(p) \in SUBSET Voiceprints
        BY <1>0, <3>1, <3>2, RevokedIs DEF Statuses
      <4>2. ASSUME pc \in RowSteps, ~Saving(p)
            PROVE  voiceprints'[active.id] = voiceprints[active.id]
        <5>1. /\ active.participant # p /\ active.id \in Voiceprints
              /\ voiceprints[active.id].participant = active.participant
          BY <1>1, <4>2 DEF Saving, RowSteps, SaveSteps, IInv, SaveInv
        <5>2. active.id \notin Deletable(p)
          BY <5>1 DEF Deletable
        <5>. HIDE DEF p, s
        <5>. QED
          BY <1>0, <4>1, <5>1, <5>2, RetiredRow
      <4>3. pc \in RowSteps /\ Saving(p) => active.id \in raced'
        BY <3>2
      <4>4. raced \subseteq raced'
        BY <3>2
      <4>. QED
        BY <1>0, <1>3, <3>1, <4>2, <4>3, <4>4, BehindSave
    <3>3. CASE (\E gone : RolledBack(gone)) /\ UNCHANGED raced
      BY <2>1, <3>1, <3>3 DEF RolledBack
    <3>. QED
      BY <2>3, <3>2, <3>3 DEF RevokeDelete
  <2>4. CASE RetryCleanup(c)
    <3>1. UNCHANGED <<consent, raced>> /\ \E stuck : RetryPendingCleanup(stuck)
      BY <2>4 DEF RetryCleanup, people
    <3>2. PICK stuck : RetryPendingCleanup(stuck)
      BY <3>1
    <3>. DEFINE s == "REVOKED"
    <3>3. voiceprints' = Retire(Owed, stuck, s) /\ s \in Statuses /\ Owed \in SUBSET Voiceprints
      BY <1>0, <3>2, CleanedIs DEF Statuses
    <3>4. ASSUME pc \in RowSteps, Status(active.id) = "PENDING_WRITE"
          PROVE  voiceprints'[active.id] = voiceprints[active.id]
      <4>1. active.id \notin Owed /\ active.id \in Voiceprints
        BY <1>1, <3>4 DEF Owed, RowSteps, SaveSteps
      <4>. HIDE DEF s
      <4>. QED
        BY <1>0, <3>3, <4>1, RetiredRow
    <3>. QED
      BY <1>0, <1>3, <3>1, <3>4, BehindSave
  <2>5. CASE VerifyCheck(c)
    <3>. DEFINE u == caller[c].voiceprint
    <3>1. /\ u \in Voiceprints /\ Status(u) \notin {"NONE", "PENDING_WRITE"}
          /\ UNCHANGED <<consent, raced>> /\ (MarkFailed(u) \/ UNCHANGED storeVars)
      BY <2>5 DEF IInv, CallerInv, VerifyCheck, CallerAt, VerifyEnvelope, people
    <3>2. ASSUME pc \in RowSteps, Status(active.id) = "PENDING_WRITE"
          PROVE  voiceprints'[active.id] = voiceprints[active.id]
      <4>1. active.id \in Voiceprints /\ active.id # u
        BY <1>1, <3>1, <3>2 DEF RowSteps, SaveSteps
      <4>. QED
        BY <1>0, <3>1, <4>1, StoreTyping DEF MarkFailed, storeVars
    <3>. QED
      BY <1>0, <1>3, <3>1, <3>2, BehindSave
  <2>6. CASE \/ (\E p \in Participants : Revoke(c, p)) \/ KillCommand(c)
             \/ (\E v \in Voiceprints : VerifyRead(c, v))
    <3>1. UNCHANGED <<voiceprints, consent, raced>>
      BY <2>6 DEF Revoke, KillCommand, Kill, VerifyRead, RolledBack, storeVars, people
    <3>. QED
      BY <2>1, <3>1
  <2>. QED
    BY <2>2, <2>3, <2>4, <2>5, <2>6 DEF CallerNext
<1>. QED
  BY <1>2, <1>3, CallerMoves

LEMMA OthersSave ==
  ASSUME IInv, Environment
  PROVE  SaveInv'
<1>0. (\A v \in Voiceprints : Kept(v)) /\ ServerTyped /\ SessionInv
  BY OthersKeep DEF IInv, Typed
<1>1. CASE UNCHANGED <<active, pc, voiceprints, consent, raced>>
  BY <1>0, <1>1, BehindSave
<1>2. CASE KillServer
  <2>1. active' = NoSession /\ pc' = "idle"
    BY <1>2 DEF KillServer
  <2>. QED
    BY <2>1, SaveLeft, NothingInMemory DEF HasSession, Live, SaveSteps
<1>3. ASSUME NEW p \in Participants, Grant(p) PROVE SaveInv'
  <2>1. UNCHANGED <<active, pc, voiceprints, raced>> /\ ~Granted(p)
    BY <1>3 DEF Grant, server, storeVars
  <2>2. p # active.participant => consent'[active.participant] = consent[active.participant]
    BY <1>3 DEF Grant, AppendEvent, IInv, Typed, PeopleTyped
  <2>3. pc \in SaveSteps => active.id \in raced \/ p # active.participant
    BY <2>1 DEF IInv, SaveInv
  <2>. QED
    BY <1>0, <2>1, <2>2, <2>3, BehindSave
<1>4. CASE RecoverStore \/ \E vs \in SUBSET Voiceprints : RecoverySomeThenKilled(vs)
  <2>1. UNCHANGED <<active, pc, consent, raced>> /\ pc = "idle"
    BY <1>4 DEF RecoverStore, RecoverySomeThenKilled, server, people
  <2>. QED
    BY <1>0, <2>1, BehindSave DEF SaveSteps, RowSteps
<1>5. CASE \/ (\E p \in Participants : SetActive(p))
           \/ MeetingStarts \/ MeetingEnds \/ DamageEnvelope \/ LoseKeyFile
  <2>1. UNCHANGED <<active, pc, voiceprints, consent, raced>>
    BY <1>5 DEF SetActive, MeetingStarts, MeetingEnds, DamageEnvelope, Damage, LoseKeyFile,
       server, storeVars, people
  <2>. QED
    BY <1>1, <2>1
<1>. QED
  BY <1>2, <1>3, <1>4, <1>5 DEF Environment

LEMMA SaveStep == IInv /\ [Next]_vars => SaveInv'
<1>. SUFFICES ASSUME IInv, [Next]_vars PROVE SaveInv'
  OBVIOUS
<1>1. CASE UNCHANGED vars
  BY <1>1 DEF vars, storeVars, server, people, IInv, SaveInv, HasSession, Status, Granted, Sound
<1>. QED
  BY <1>1, SaveSaves, SessionSaves, CallerSaves, OthersSave DEF Next

\* What a caller has read goes on being so.
LEMMA CallerInvStep == IInv /\ [Next]_vars => CallerInv'
<1>. SUFFICES ASSUME IInv, [Next]_vars PROVE CallerInv'
  OBVIOUS
<1>1. ASSUME NEW v \in Voiceprints, Status(v) \notin {"NONE", "PENDING_WRITE"}
      PROVE  Status(v)' \notin {"NONE", "PENDING_WRITE"}
  <2>1. CASE SaveNext
    BY <1>1, <2>1, SaveWrites DEF Written
  <2>2. CASE SessionNext
    BY <1>1, <2>2, SessionStoreStays DEF storeVars, Status
  <2>3. CASE UNCHANGED vars
    BY <1>1, <2>3 DEF vars, storeVars, Status
  <2>4. CASE Environment
    BY <1>1, <2>4, OthersKeep DEF Kept, Aged
  <2>5. ASSUME NEW c \in Callers, CallerNext(c)
        PROVE  Status(v)' \notin {"NONE", "PENDING_WRITE"}
    BY <1>1, <2>5, CallerKeeps DEF Kept, Aged
  <2>. QED
    BY <2>1, <2>2, <2>3, <2>4, <2>5 DEF Next
<1>2. \A d \in Callers :
         \/ caller'[d] = caller[d] \/ CallFits(caller'[d])
         \/ caller'[d].step = "idle"
  <2>1. CASE KillServer
    <3>1. caller' = [c \in Callers |-> IF c \in Api THEN NoCall ELSE caller[c]]
      BY <2>1 DEF KillServer
    <3>. QED
      BY <3>1, CallTypes
  <2>2. CASE Environment /\ ~KillServer
    BY <2>2 DEF Environment, Grant, SetActive, RecoverStore, RecoverySomeThenKilled,
       MeetingStarts, MeetingEnds, DamageEnvelope, LoseKeyFile
  <2>3. CASE SaveNext \/ SessionNext
    BY <2>3, SaveMoves, SessionPeople
  <2>4. CASE UNCHANGED vars
    BY <2>4 DEF vars
  <2>. QED
    BY <2>1, <2>2, <2>3, <2>4, CallerStep DEF Next
<1>3. ASSUME NEW d \in Callers
      PROVE  /\ caller'[d].step = "verify" =>
                   /\ caller'[d].voiceprint \in Voiceprints
                   /\ voiceprints'[caller'[d].voiceprint].status \notin {"NONE", "PENDING_WRITE"}
             /\ caller'[d].step \in {"event", "delete"} => caller'[d].participant \in Participants
  <2>1. CASE caller'[d] = caller[d]
    BY <1>1, <2>1 DEF IInv, CallerInv, Status
  <2>2. CASE CallFits(caller'[d])
    BY <1>1, <2>2 DEF CallFits, Usable, Status
  <2>3. CASE caller'[d].step = "idle"
    BY <2>3
  <2>. QED
    BY <1>2, <2>1, <2>2, <2>3
<1>. QED
  BY <1>3 DEF CallerInv, Status

-----------------------------------------------------------------------------
(* The inductive invariant *)

LEMMA Inductive == IInv /\ [Next]_vars => IInv'
BY StoreStep, ServerStep, PeopleStep, OtherStep, RowStep, SaveStep, CallerInvStep
   DEF IInv, Typed

LEMMA Initial == Init => IInv
<1>. SUFFICES ASSUME Init PROVE IInv
  OBVIOUS
<1>0. 0 \in 0..MaxConsents /\ 0 \in 0..MaxMishaps
  BY EnrollmentAssumption
<1>1. /\ \A v \in Voiceprints : voiceprints[v] = NoRow /\ envelope[v] = "none"
      /\ voiceprints \in [Voiceprints -> Row]
  <2>1. NoRow \in Row
    BY DEF NoRow, Row, Statuses
  <2>. QED
    BY <2>1 DEF Init, StoreInit
<1>2. StoreTypeOK
  BY <1>1, StoreTyping DEF Init, StoreInit
<1>3. active = NoSession /\ pc = "idle" /\ NoCapture \in Capture /\ NoCapture.step = "idle"
  BY DEF Init, NoCapture, Capture
<1>4. ServerTyped
  <2>1. NoStart \in StartRead
    BY <1>0 DEF NoStart, StartRead
  <2>. QED
    BY <1>3, <2>1, NothingInMemory DEF Init, ServerTyped, Steps
<1>5. PeopleTyped
  BY <1>0 DEF Init, PeopleTyped
<1>6. OtherTyped
  BY CallTypes DEF Init, OtherTyped, KeyInit, NoKey
<1>7. SessionInv /\ SaveInv
  <2>1. ~HasSession
    BY <1>3, NothingInMemory DEF HasSession, Live
  <2>. QED
    BY <1>3, <2>1 DEF SessionInv, SaveInv, EncryptSteps, SaveSteps, RowSteps, Init
<1>8. RowInv
  <2>1. \A v \in Voiceprints : Status(v) = "NONE" /\ ~Usable(v) /\ FileOK(v)
    BY <1>1 DEF NoRow, Status, Usable, FileOK
  <2>. QED
    BY <2>1, RowInvIs DEF OneLiveTemplate
<1>9. CallerInv
  BY CallTypes DEF Init, CallerInv
<1>. QED
  BY <1>2, <1>4, <1>5, <1>6, <1>7, <1>8, <1>9 DEF IInv, Typed

LEMMA Invariant == Spec => []IInv
BY Initial, Inductive, PTL DEF Spec

-----------------------------------------------------------------------------
(* THEOREMS *)

\* Every variable of the enrollment keeps its type, the rows and files of its store and
\* the callers of other processes included.
THEOREM EnrollmentTyped == Spec => []TypeOK
<1>1. IInv => TypeOK
  BY SessionParts DEF IInv, Typed, ServerTyped, PeopleTyped, OtherTyped, TypeOK, StartRead,
     Capture, Call
<1>. QED
  BY <1>1, Invariant, PTL

\* Whatever is cut off, and by whom: no finished envelope without a row, no two usable
\* templates of one participant, none without its envelope unless that was lost from
\* outside, and none left behind by a row that no longer points to it.
THEOREM RowsAgree == Spec => []RowsAndEnvelopesAgree
<1>1. IInv => RowsAndEnvelopesAgree
  BY DEF IInv, RowInv
<1>. QED
  BY <1>1, Invariant, PTL

\* Whoever is eligible was enrolled under the consent that is in force, unless the
\* deletion is owed or the withdrawal overlapped the save (service.py's re-check of
\* consent and store.py's deletion, taken together).
THEOREM ConsentInForce == Spec => []EligibleUnderCurrentConsent
<1>1. IInv => EligibleUnderCurrentConsent
  BY DEF IInv, RowInv, UnderConsent, EligibleUnderCurrentConsent
<1>. QED
  BY <1>1, Invariant, PTL

\* A step never makes a template usable again that was deleted, superseded or marked,
\* unless a withdrawal overlapped its own save: _activate asks nothing of the row.
THEOREM DeletedStays == Spec => DeletedStaysDeleted
<1>1. IInv /\ [Next]_vars =>
        [\A v \in Voiceprints :
            Status(v) \in {"REVOKED", "SUPERSEDED", "DELETE_PENDING", "INTEGRITY_FAILED"}
                => ~Usable(v)' \/ v \in raced]_vars
  <2>. SUFFICES ASSUME IInv, [Next]_vars, NEW v \in Voiceprints,
                       Status(v) \in {"REVOKED", "SUPERSEDED", "DELETE_PENDING",
                                      "INTEGRITY_FAILED"}
                PROVE  ~Usable(v)' \/ v \in raced
    OBVIOUS
  <2>0. ~Usable(v)
    BY DEF Usable
  <2>1. Kept(v) => ~Usable(v)'
    BY <2>0 DEF Kept, Aged
  <2>2. CASE UNCHANGED voiceprints
    BY <2>0, <2>2 DEF Usable, Status
  <2>3. CASE SaveNext
    <3>1. CASE v # active.id \/ pc \notin {"insert_row", "activate"}
      BY <2>1, <2>3, <3>1, SaveWrites DEF Written
    <3>2. CASE v = active.id /\ pc = "insert_row"
      <4>1. HasSession /\ active.state = "ENCRYPTING"
        BY <2>3, SaveMoves, AtSave
      <4>. QED
        BY <3>2, <4>1 DEF IInv, SaveInv
    <3>3. CASE v = active.id /\ pc = "activate"
      BY <3>3 DEF IInv, SaveInv, RowSteps
    <3>. QED
      BY <3>1, <3>2, <3>3
  <2>4. CASE SessionNext
    BY <2>2, <2>4, SessionStoreStays DEF storeVars
  <2>5. CASE UNCHANGED vars
    BY <2>2, <2>5 DEF vars, storeVars
  <2>. QED
    BY <2>1, <2>3, <2>4, <2>5, CallerKeeps, OthersKeep DEF Next
<1>. QED
  BY <1>1, Invariant, PTL DEF Spec, DeletedStaysDeleted

\* The lock of the microphone always has a holder of whom the database still says that it
\* records, unless its release failed, and an enrollment never releases the one that a
\* meeting has taken: release() unlinks whatever file is there.
THEOREM LockHeldForSomeone == Spec => LockIsRespected
<1>1. IInv => LockHasAHolder
  <2>. SUFFICES ASSUME IInv, lock = "enrollment", pc = "idle"
                PROVE  active # NoSession /\ sessions[active.id] \in Live
    BY DEF LockHasAHolder
  <2>1. active.id \in Sessions /\ sessions[active.id] \in Live
    BY DEF IInv, SessionInv
  <2>2. 0 \notin Sessions
    BY EnrollmentAssumption DEF Sessions
  <2>. QED
    BY <2>1, <2>2, NothingInMemory
<1>2. IInv /\ [Next]_vars =>
        [/\ LockHasAHolder'
         /\ lock = "recording" => lock' = "recording" \/ MeetingEnds \/ KillServer]_vars
  <2>1. IInv' => LockHasAHolder'
    BY <1>1, PTL
  <2>. QED
    BY <2>1, Inductive, LockStep
<1>. QED
  BY <1>2, Invariant, PTL DEF Spec, LockIsRespected

\* When the storage checks of doctor pass, there is nothing for recovery to do, each usable
\* template is intact, and no envelope is on disk that its row does not point to - except
\* where a withdrawal overlapped its save.
THEOREM DoctorIsRight == Spec => []AllClear
<1>1. IInv => AllClear
  <2>. SUFFICES ASSUME IInv, StoragePasses
                PROVE  /\ \A v \in Voiceprints : Recovered(v) = Status(v) /\ ~tempFile[v]
                       /\ \A v \in Voiceprints : Usable(v) => envelope[v] = "good"
                       /\ \A v \in Voiceprints :
                             envelope[v] # "none" => voiceprints[v].path \/ v \in raced
    BY DEF AllClear
  <2>1. Problems = {} /\ Pending = {} /\ \A v \in Voiceprints : ~tempFile[v]
    BY DEF StoragePasses, IntegrityCheck, CleanupCheck, Severity, StorageCheck
  <2>2. ASSUME NEW v \in Voiceprints, Usable(v) PROVE envelope[v] = "good"
    BY <2>1, <2>2 DEF Problems
  <2>3. ASSUME NEW v \in Voiceprints PROVE Recovered(v) = Status(v)
    BY <2>1, <2>2 DEF Recovered
  <2>4. ASSUME NEW v \in Voiceprints, envelope[v] # "none"
        PROVE  voiceprints[v].path \/ v \in raced
    BY <2>4, RowInvIs DEF IInv, FileOK
  <2>. QED
    BY <2>1, <2>2, <2>3, <2>4
<1>. QED
  BY <1>1, Invariant, PTL

=============================================================================
