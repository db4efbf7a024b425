---------------------------- MODULE Transcripts ----------------------------
(***************************************************************************)
(* The transcription pipeline (src/mom_igd/asr/pipeline.py) and its store  *)
(* (src/mom_igd/asr/store.py) for one closed recording: the working copy   *)
(* and its row, the speech regions, and the transcript revisions.  Runs of *)
(* several processes interleave between transactions; a run may be         *)
(* cancelled, fail, or be killed with its process between any two.  The    *)
(* progress callback is taken never to raise: one that did after the       *)
(* activation would have the run fail a transcript that is current.        *)
(*                                                                         *)
(* The master audio is a version number that changes when a chunk is       *)
(* recovered, quarantined or lost; a working copy and its SHA-256 are the  *)
(* version they were made from.  Of the text of a transcript only remains  *)
(* whether the speech regions it was decoded by were found in other audio. *)
(***************************************************************************)
EXTENDS Naturals, Sequences, FiniteSets

CONSTANTS
    Proc,           \* processes that may run a pipeline on the recording
    MaxScripts,     \* bound: transcript revisions
    MaxChanges,     \* bound: changes of the master audio
    MaxCuts         \* bound: runs cut off by a kill or an error of the database,
                    \*   and working copies lost

ASSUME TranscriptsAssumption ==
    MaxScripts \in Nat /\ MaxChanges \in Nat /\ MaxCuts \in Nat

VARIABLES
    master,         \* version of the recorded chunks
    file,           \* version in the working copy file, None if missing or damaged
    copyRow,        \* audio_working_copies.sha256: a version, None if there is no row
    vad,            \* the active vad_runs row: the version its regions are of, or None
    scripts,        \* transcripts, by revision
    at,             \* where each process is in run, "idle" outside
    about,          \* the revision its run is building or reading, 0 if none
    seen,           \* the version its run has built, or taken regions from
    cuts            \* bound counter

copyVars == <<master, file, copyRow, vad>>
runVars == <<at, about, seen>>
scriptVars == <<copyVars, scripts, runVars, cuts>>

Versions == 1..MaxChanges + 1
None == 0
Revisions == 1..Len(scripts)

TranscriptsInit ==
    /\ master = 1 /\ file = None /\ copyRow = None /\ vad = None
    /\ scripts = <<>>
    /\ at = [p \in Proc |-> "idle"] /\ about = [p \in Proc |-> 0]
    /\ seen = [p \in Proc |-> None] /\ cuts = 0

-----------------------------------------------------------------------------
Move(p, step) == at' = [at EXCEPT ![p] = step]

Finish(p) ==
    /\ Move(p, "idle") /\ about' = [about EXCEPT ![p] = 0]
    /\ seen' = [seen EXCEPT ![p] = None]

\* The row is READY and the file's SHA-256 is the row's.
CopyIsGood == copyRow # None /\ file = copyRow

\* A working copy that is good is reused.
BeginTranscription(p) ==
    /\ at[p] = "idle" /\ Len(scripts) < MaxScripts
    /\ Move(p, IF CopyIsGood THEN "vad" ELSE "build")
    /\ UNCHANGED <<copyVars, scripts, about, seen, cuts>>

\* normalize_recording writes a partial and renames it over the target.
BuildCopy(p) ==
    /\ at[p] = "build" /\ Move(p, "saveCopy")
    /\ file' = master /\ seen' = [seen EXCEPT ![p] = master]
    /\ UNCHANGED <<master, copyRow, vad, scripts, about, cuts>>

\* The one row of the recording is replaced in place, and keeps its id.
SaveCopy(p) ==
    /\ at[p] = "saveCopy" /\ Move(p, "vad")
    /\ copyRow' = seen[p]
    /\ UNCHANGED <<master, file, vad, scripts, about, seen, cuts>>

\* A run of the same working copy id with the same configuration is reused;
\* otherwise a worker looks for speech in the file as it is now.
EnsureVad(p) ==
    /\ at[p] = "vad"
    /\ \/ /\ vad # None /\ Move(p, "open")
          /\ seen' = [seen EXCEPT ![p] = vad]
       \/ /\ vad = None /\ file # None /\ Move(p, "saveVad")
          /\ seen' = [seen EXCEPT ![p] = file]
    /\ UNCHANGED <<copyVars, scripts, about, cuts>>

\* save_vad_run: the run is the active one of its working copy, whichever other
\* process has saved one since the look for it.
SaveVad(p) ==
    /\ at[p] = "saveVad" /\ Move(p, "open")
    /\ vad' = seen[p]
    /\ UNCHANGED <<master, file, copyRow, scripts, about, seen, cuts>>

\* A run that stops before it has a revision leaves nothing behind.
StopEarly(p) ==
    /\ at[p] \in {"build", "vad"} /\ Finish(p)
    /\ UNCHANGED <<copyVars, scripts, cuts>>

NewScript ==
    [status |-> "BUILDING", active |-> FALSE, decoded |-> FALSE, saved |-> FALSE,
     stale |-> FALSE]

\* MUTANT: the new revision takes the place of the current one at once.
OpenInPlace(p) ==
    /\ at[p] = "open" /\ Len(scripts) < MaxScripts
    /\ scripts' = Append([r \in Revisions |-> [scripts[r] EXCEPT !.active = FALSE]],
                         NewScript)
    /\ about' = [about EXCEPT ![p] = Len(scripts')]
    /\ \E silent \in BOOLEAN : Move(p, IF silent THEN "activate" ELSE "decode")
    /\ UNCHANGED <<copyVars, seen, cuts>>

\* create_transcript.  With no region there is nothing to decode or to save.
Open(p) ==
    /\ at[p] = "open" /\ Len(scripts) < MaxScripts
    /\ scripts' = Append(scripts, NewScript)
    /\ about' = [about EXCEPT ![p] = Len(scripts')]
    /\ \E silent \in BOOLEAN : Move(p, IF silent THEN "activate" ELSE "decode")
    /\ UNCHANGED <<copyVars, seen, cuts>>

\* A worker decodes regions of the file as it is by then.
Heard(p) ==
    /\ file # None
    /\ scripts' = [scripts EXCEPT ![about[p]].decoded = TRUE,
                                  ![about[p]].stale = @ \/ file # seen[p]]

Decode(p) ==
    /\ at[p] = "decode" /\ Heard(p) /\ Move(p, "save")
    /\ UNCHANGED <<copyVars, about, seen, cuts>>

\* Pass 2, once, if it is on, has flagged something that fits its budget, and
\* its model is there; pass 1 stands otherwise.
SecondPass(p) ==
    /\ at[p] = "save" /\ Heard(p) /\ Move(p, "saveBoth")
    /\ UNCHANGED <<copyVars, about, seen, cuts>>

SaveSegments(p) ==
    /\ at[p] \in {"save", "saveBoth"} /\ Move(p, "activate")
    /\ scripts' = [scripts EXCEPT ![about[p]].saved = TRUE]
    /\ UNCHANGED <<copyVars, about, seen, cuts>>

\* MUTANT: the previous revision stays current as well.
ActivateBeside(p) ==
    /\ at[p] = "activate" /\ Finish(p)
    /\ scripts' = [scripts EXCEPT ![about[p]] =
                      [scripts[about[p]] EXCEPT !.status = "COMPLETE", !.active = TRUE]]
    /\ UNCHANGED <<copyVars, cuts>>

\* activate_transcript: the revision is complete and the current one, and the
\* previous one is not, in one transaction.
Activate(p) ==
    /\ at[p] = "activate" /\ Finish(p)
    /\ scripts' = [r \in Revisions |->
          IF r = about[p] THEN [scripts[r] EXCEPT !.status = "COMPLETE", !.active = TRUE]
                          ELSE [scripts[r] EXCEPT !.active = FALSE]]
    /\ UNCHANGED <<copyVars, cuts>>

\* fail_transcript, with one status for failed and cancelled.
Failed(r) ==
    [scripts EXCEPT ![r] = [scripts[r] EXCEPT !.status = "FAILED", !.active = FALSE]]

\* A stage failed or was cancelled.
FailTranscript(p) ==
    /\ at[p] \in {"decode", "save", "saveBoth", "activate"} /\ Finish(p)
    /\ scripts' = Failed(about[p])
    /\ UNCHANGED <<copyVars, cuts>>

\* The process is killed, or the database refuses even fail_transcript: the
\* revision stays as it is.
CutOff(p) ==
    /\ at[p] # "idle" /\ cuts < MaxCuts /\ cuts' = cuts + 1 /\ Finish(p)
    /\ UNCHANGED <<copyVars, scripts>>

\* Recovery adds a chunk, a chunk is quarantined, or a file of one is lost.
MasterChanges ==
    /\ master \in 1..MaxChanges /\ master' = master + 1
    /\ UNCHANGED <<file, copyRow, vad, scripts, runVars, cuts>>

\* The working copy is deleted or damaged.
LoseCopy ==
    /\ file # None /\ file' = None /\ cuts < MaxCuts /\ cuts' = cuts + 1
    /\ UNCHANGED <<master, copyRow, vad, scripts, runVars>>

TranscriptionStep(p) ==
    \/ BuildCopy(p) \/ SaveCopy(p) \/ EnsureVad(p) \/ SaveVad(p) \/ StopEarly(p)
    \/ Open(p) \/ Decode(p) \/ SecondPass(p) \/ SaveSegments(p)
    \/ Activate(p) \/ FailTranscript(p)

-----------------------------------------------------------------------------
ScriptsTypeOK ==
    /\ master \in Versions /\ {file, copyRow, vad} \subseteq Versions \cup {None}
    /\ scripts \in Seq([status : {"BUILDING", "COMPLETE", "FAILED"}, active : BOOLEAN,
                        decoded : BOOLEAN, saved : BOOLEAN, stale : BOOLEAN])
    /\ Len(scripts) <= MaxScripts
    /\ seen \in [Proc -> Versions \cup {None}] /\ about \in [Proc -> Nat]
    /\ cuts \in 0..MaxCuts

CurrentScripts == {r \in Revisions : scripts[r].active}
=============================================================================
