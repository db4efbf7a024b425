--------------------------- MODULE EnrollmentDoctor ---------------------------
(***************************************************************************)
(* What the enrollment's observers make of its rows and files: the checks  *)
(* of `doctor' (src/mom_igd/diagnostics/enrollment_checks.py), and of the  *)
(* service readiness, eligibility and the reading of a template.  They     *)
(* write nothing, so they are predicates of a state, and what they say may *)
(* be compared with what is true of it and with what the store would do.   *)
(* Model, device and calibration, which are checked too, are left out.     *)
(***************************************************************************)
EXTENDS Enrollment

Severity(production) == IF production THEN "FAIL" ELSE "WARN"

\* _check_key_store.
KeyCheck ==
    CASE KeyState = "missing" -> "WARN" [] KeyState = "unreadable" -> "FAIL" [] OTHER -> "PASS"

\* _check_voiceprint_integrity: rows that should have an envelope, and those marked.
Problems ==
    {v \in Voiceprints : Usable(v) \/ v \in Pending}
        \ {v \in Voiceprints : voiceprints[v].path /\ envelope[v] = "good"}

IntegrityCheck ==
    IF Problems = {} /\ \A v \in Voiceprints : Status(v) # "INTEGRITY_FAILED"
    THEN "PASS" ELSE "FAIL"

\* _check_pending_cleanup.
CleanupCheck(production) == IF Owed = {} /\ Pending = {} THEN "PASS" ELSE Severity(production)

\* _check_active_enrollment.
SessionCheck == IF \E s \in Sessions : sessions[s] \in Live THEN "WARN" ELSE "PASS"

\* MUTANT: a temporary file of a known row is taken for one that is being written.
StorageCheckOfOrphans ==
    IF \E v \in Voiceprints : Status(v) = "NONE" /\ (tempFile[v] \/ envelope[v] # "none")
    THEN "WARN" ELSE "PASS"

\* _check_stray_envelopes: any temporary file, and finished ones that no row knows.  A
\* temporary file in quarantine is not counted.
StorageCheck ==
    IF \/ \E v \in Voiceprints : tempFile[v] \/ (Status(v) = "NONE" /\ envelope[v] # "none")
       \/ \E q \in quarantine : q[2] = "vpx"
    THEN "WARN" ELSE "PASS"

Template(p) == {v \in Voiceprints : Usable(v) /\ voiceprints[v].participant = p}

\* _roster_coverage: active members without a template of their own.
Missing(members) == {p \in members : isActive[p] /\ ~(Granted(p) /\ Template(p) # {})}

\* _coverage_result for one roster.
RosterCheck(members, production) ==
    IF \A p \in members : ~isActive[p] THEN "WARN"
    ELSE IF Missing(members) = {} THEN "PASS" ELSE Severity(production)

\* enrollment_checks, without the rosters, as far as storage goes.
StoragePasses ==
    /\ IntegrityCheck = "PASS" /\ CleanupCheck(TRUE) = "PASS" /\ StorageCheck = "PASS"

\* A production run of doctor, as far as the members of this roster are concerned.
DoctorPasses(members) ==
    StoragePasses /\ KeyCheck = "PASS" /\ RosterCheck(members, TRUE) = "PASS"

\* eligibility, which identification is to ask.
HasUsable(p) == Template(p) # {}
Eligible(p) == isActive[p] /\ Granted(p) /\ HasUsable(p)

\* load_payload: the template is usable, its envelope there, authentic, and of this key.
CanBeRead(v) ==
    Usable(v) /\ voiceprints[v].path /\ envelope[v] = "good" /\ Opens(sealedWith[v])

\* readiness: what the wizard goes by.
CanStart(p) == isActive[p] /\ Granted(p) /\ lock \in {"free", "stale"}

-----------------------------------------------------------------------------
(* Properties *)

\* If the storage checks of doctor pass, recovery would change nothing, each usable template
\* is intact, and each envelope on disk belongs to a row that points to it - except where a
\* withdrawal overlapped its save.
AllClear ==
    StoragePasses =>
      /\ \A v \in Voiceprints : Recovered(v) = Status(v) /\ ~tempFile[v]
      /\ \A v \in Voiceprints : Usable(v) => envelope[v] = "good"
      /\ \A v \in Voiceprints : envelope[v] # "none" => voiceprints[v].path \/ v \in raced

\* keys.py says that a new key "cannot decrypt anything, so silently creating one would
\* turn a recoverable diagnosis into permanent, invisible data loss": a deployment that
\* doctor passes has, for each member who is eligible, a template that can be read.
TemplatesStayReadable ==
    \A members \in SUBSET Participants :
      DoctorPasses(members) =>
        \A p \in members : Eligible(p) => \E v \in Template(p) : CanBeRead(v)

\* readiness says that an enrollment may start only if the database will admit its session.
ReadyMeansAdmitted ==
    pc = "idle" /\ ~HasSession /\ (\E p \in Participants : CanStart(p))
      => SessionCheck = "PASS"
=============================================================================
