------------------------------ MODULE Minutes ------------------------------
(***************************************************************************)
(* The minutes pipeline (src/mom_igd/mom/pipeline.py), its store           *)
(* (src/mom_igd/mom/store.py) and the exports directory, over the          *)
(* transcripts of one recording of one meeting.  Minutes are numbered by   *)
(* revision within a transcript; a filing number is counted by month.      *)
(*                                                                         *)
(* The content of a minute and of a file are left out.  CANCELLED is a     *)
(* FAILED here, as it is for the readers of these rows.                    *)
(***************************************************************************)
EXTENDS Transcripts

CONSTANTS
    MaxMinutes,     \* bound: minutes rows
    MaxMonth        \* bound: months that pass

ASSUME MinutesAssumption == MaxMinutes \in Nat /\ MaxMonth \in Nat \ {0}

VARIABLES
    month,          \* the month of the clock
    minutes,        \* minutes rows, in the order of their ids
    exports         \* minute_exports rows: by revision in the path, their minute

minuteVars == <<month, minutes, exports>>
vars == <<scriptVars, minuteVars>>

MinuteIds == 1..Len(minutes)
Unnumbered == [month |-> 0, seq |-> 0]

Init ==
    /\ TranscriptsInit
    /\ month = 1 /\ minutes = <<>>
    /\ exports = [r \in 1..MaxMinutes |-> 0]

-----------------------------------------------------------------------------
\* The minutes of a transcript, and the number its latest revision was given.
MinutesOf(t) == {m \in MinuteIds : minutes[m].script = t}
NumberedOf(t) == {m \in MinutesOf(t) : minutes[m].number # Unnumbered}

Largest(S) == CHOOSE x \in S : \A y \in S : y <= x

\* load_transcript: what minutes are made from.
Minutable == {t \in CurrentScripts : scripts[t].status = "COMPLETE"}

\* load_segments: an empty transcript has none.
HasSegments(t) == scripts[t].saved

\* The pipeline reads the active transcript, which must have segments, and opens
\* a revision of its minutes; created_at is the month of the clock.
BeginMinutes(p) ==
    /\ at[p] = "idle" /\ Len(minutes) < MaxMinutes /\ Move(p, "generate")
    /\ \E t \in Minutable :
          /\ HasSegments(t)
          /\ minutes' = Append(minutes,
                [script |-> t, rev |-> Cardinality(MinutesOf(t)) + 1,
                 status |-> "BUILDING", active |-> FALSE, saved |-> FALSE,
                 created |-> month, number |-> Unnumbered])
    /\ about' = [about EXCEPT ![p] = Len(minutes')]
    /\ UNCHANGED <<copyVars, scripts, seen, cuts, month, exports>>

\* generate_minutes, then header and items in one transaction.
SaveResult(p) ==
    /\ at[p] = "generate" /\ Move(p, "number")
    /\ minutes' = [minutes EXCEPT ![about[p]].saved = TRUE]
    /\ UNCHANGED <<copyVars, scripts, about, seen, cuts, month, exports>>

\* Whose number a minute takes over: its own, or that of the latest revision of
\* its transcript that has one.
Inherited(m) ==
    {n \in NumberedOf(minutes[m].script) :
        \A k \in NumberedOf(minutes[m].script) : minutes[k].rev <= minutes[n].rev}

\* The count goes by the rows created in the month of the clock.
NextNumber ==
    LET seqs == {minutes[m].number.seq : m \in {n \in MinuteIds : minutes[n].created = month}}
    IN  [month |-> month, seq |-> Largest(seqs \cup {0}) + 1]

AssignNumber(p) ==
    /\ at[p] = "number" /\ Move(p, "activateMinute")
    /\ LET m == about[p]
       IN  IF minutes[m].number # Unnumbered THEN UNCHANGED minutes
           ELSE minutes' = [minutes EXCEPT ![m].number =
                  IF Inherited(m) = {} THEN NextNumber
                  ELSE minutes[CHOOSE n \in Inherited(m) : TRUE].number]
    /\ UNCHANGED <<copyVars, scripts, about, seen, cuts, month, exports>>

\* MUTANT: the index is on the transcript only.
NumberTakenByNobody(m) == FALSE

\* ux_minutes_document_number: an active minute of another transcript has it.
NumberTaken(m) ==
    \E n \in MinuteIds : /\ minutes[n].active
                         /\ minutes[n].script # minutes[m].script
                         /\ minutes[n].number = minutes[m].number

\* activate_minute: the revision is the current one of its transcript, unless
\* the index refuses it; that error is no MinutesPipelineError, and the row is
\* left as it is.
ActivateMinute(p) ==
    /\ at[p] = "activateMinute"
    /\ IF NumberTaken(about[p])
         THEN Finish(p) /\ UNCHANGED minutes
         ELSE /\ minutes' = [m \in MinuteIds |->
                    IF m = about[p]
                      THEN [minutes[m] EXCEPT !.status = "DRAFT", !.active = TRUE]
                    ELSE IF minutes[m].script = minutes[about[p]].script
                      THEN [minutes[m] EXCEPT !.active = FALSE] ELSE minutes[m]]
              /\ Move(p, "export") /\ UNCHANGED <<about, seen>>
    /\ UNCHANGED <<copyVars, scripts, cuts, month, exports>>

\* Cancelled, or a worker or a prompt failed: fail_minute.
FailMinute(p) ==
    /\ at[p] = "generate" /\ Finish(p)
    /\ minutes' = [minutes EXCEPT ![about[p]] =
                      [minutes[about[p]] EXCEPT !.status = "FAILED", !.active = FALSE]]
    /\ UNCHANGED <<copyVars, scripts, cuts, month, exports>>

\* get_minute: a revision of the minutes of the current transcript.  Those of the
\* transcripts before it are no longer found.
Found == UNION {MinutesOf(t) : t \in CurrentScripts}

\* Any minute that is found and was finished may be exported again.
BeginExport(p) ==
    /\ at[p] = "idle" /\ Move(p, "export")
    /\ \E m \in Found : /\ minutes[m].status = "DRAFT"
                        /\ about' = [about EXCEPT ![p] = m]
    /\ UNCHANGED <<copyVars, scripts, seen, cuts, minuteVars>>

\* A partial renamed over the target, whose name is the meeting and the
\* revision; or not, because the target is open in Word.
WriteExport(p) ==
    /\ at[p] = "export"
    /\ \/ Move(p, "record") /\ UNCHANGED <<about, seen>>
       \/ Finish(p)
    /\ UNCHANGED <<copyVars, scripts, cuts, month, minutes, exports>>

\* record_export deletes the row of the path and inserts its own.
RecordExport(p) ==
    /\ at[p] = "record" /\ Finish(p)
    /\ exports' = [exports EXCEPT ![minutes[about[p]].rev] = about[p]]
    /\ UNCHANGED <<copyVars, scripts, cuts, month, minutes>>

MonthEnds ==
    /\ month < MaxMonth /\ month' = month + 1
    /\ UNCHANGED <<scriptVars, minutes, exports>>

MinutesStep(p) ==
    \/ SaveResult(p) \/ AssignNumber(p) \/ ActivateMinute(p)
    \/ FailMinute(p) \/ WriteExport(p) \/ RecordExport(p)

Transcribing(p) ==
    /\ BeginTranscription(p) \/ TranscriptionStep(p) \/ CutOff(p)
    /\ UNCHANGED minuteVars

Next ==
    \/ \E p \in Proc : Transcribing(p)
    \/ \E p \in Proc : BeginMinutes(p) \/ BeginExport(p) \/ MinutesStep(p)
    \/ (MasterChanges \/ LoseCopy) /\ UNCHANGED minuteVars
    \/ MonthEnds

Spec == Init /\ [][Next]_vars

-----------------------------------------------------------------------------
TypeOK ==
    /\ ScriptsTypeOK
    /\ at \in [Proc -> {"idle", "build", "saveCopy", "vad", "saveVad", "open", "decode",
                        "save", "saveBoth", "activate", "generate", "number",
                        "activateMinute", "export", "record"}]
    /\ month \in 1..MaxMonth
    /\ minutes \in Seq([script : 1..MaxScripts, rev : 1..MaxMinutes,
                        status : {"BUILDING", "DRAFT", "FAILED"},
                        active : BOOLEAN, saved : BOOLEAN, created : 1..MaxMonth,
                        number : [month : 0..MaxMonth, seq : 0..MaxScripts]])
    /\ Len(minutes) <= MaxMinutes
    /\ exports \in [1..MaxMinutes -> 0..MaxMinutes]

CurrentMinutes == {m \in MinuteIds : minutes[m].active}

(* What a reader is shown is whole: there is at most one current transcript,  *)
(* it is COMPLETE and was decoded and saved, or no speech was found; each     *)
(* transcript has at most one current minute, a DRAFT with its items.         *)
CurrentIsWhole ==
    /\ Cardinality(CurrentScripts) <= 1
    /\ \A r \in CurrentScripts : /\ scripts[r].status = "COMPLETE"
                                 /\ scripts[r].decoded => scripts[r].saved
    /\ \A m \in CurrentMinutes :
          /\ minutes[m].status = "DRAFT" /\ minutes[m].saved
          /\ \A n \in CurrentMinutes : minutes[n].script = minutes[m].script => n = m

(* A run that is cancelled, fails or is killed never costs the operator what  *)
(* an earlier one has built: once there is a current transcript there always  *)
(* is one, and a transcript that has a current minute keeps having one.       *)
NothingCurrentIsLost ==
    [][/\ CurrentScripts # {} => CurrentScripts' # {}
       /\ \A m \in CurrentMinutes :
             \E n \in CurrentMinutes' : minutes'[n].script = minutes[m].script]_vars

(* A filing number is on paper: it never changes, later revisions inherit it, *)
(* and no two current minutes share one.                                      *)
NumbersAreFinal ==
    [][/\ \A m \in MinuteIds :
             minutes[m].number # Unnumbered => minutes'[m].number = minutes[m].number
       /\ \A m, n \in MinuteIds' :
             /\ minutes'[m].script = minutes'[n].script
             /\ Unnumbered \notin {minutes'[m].number, minutes'[n].number}
             => minutes'[m].number = minutes'[n].number
       /\ \A m, n \in CurrentMinutes' :
             minutes'[m].number = minutes'[n].number => m = n]_vars

(* Migration 0007: "What must never happen is two current minutes sharing a   *)
(* reference", and a number is counted so that it does not: a minute that is  *)
(* numbered is not barred from becoming current by the number.                *)
NumberIsFree ==
    \A p \in Proc : at[p] = "activateMinute" => ~NumberTaken(about[p])

(* pipeline.py reuses the speech regions of "the existing run" as those of    *)
(* the recording's audio: a current transcript was decoded by regions that    *)
(* were found in the audio it was decoded from.                               *)
RegionsFitTheAudio == \A r \in CurrentScripts : ~scripts[r].stale

(* The row of an export answers which minute the document at its path is,     *)
(* "after the file has been forwarded" (store.py): it is not replaced by the  *)
(* row of another minute.                                                     *)
ExportKeepsItsRow ==
    [][\A r \in DOMAIN exports : exports[r] # 0 => exports'[r] = exports[r]]_vars
=============================================================================
