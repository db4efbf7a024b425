---------------------------- MODULE MinutesProofs ----------------------------
(***************************************************************************)
(* What TLAPS proves of Minutes, and of the Transcripts under it, for      *)
(* every set of processes and every number of transcripts, minutes,        *)
(* months, changes of the audio and runs cut off; and, of Pipeline, for    *)
(* every list of chunks and every set of claims a model may make.          *)
(***************************************************************************)
EXTENDS Minutes, Pipeline, FiniteSetTheorems, SequenceTheorems, WellFoundedInduction, TLAPS

Script == [status : {"BUILDING", "COMPLETE", "FAILED"}, active : BOOLEAN,
           decoded : BOOLEAN, saved : BOOLEAN, stale : BOOLEAN]
Minute == [script : 1..MaxScripts, rev : 1..MaxMinutes,
           status : {"BUILDING", "DRAFT", "FAILED"},
           active : BOOLEAN, saved : BOOLEAN, created : 1..MaxMonth,
           number : [month : 0..MaxMonth, seq : 0..MaxScripts]]

\* The steps of a run that has a transcript, or a minute, of its own.
ScriptSteps == {"decode", "save", "saveBoth", "activate"}
MinuteSteps == {"generate", "number", "activateMinute"}
ExportSteps == {"export", "record"}

Building(p) ==
    at[p] \in ScriptSteps =>
        /\ about[p] \in Revisions
        /\ scripts[about[p]].status = "BUILDING" /\ ~scripts[about[p]].active
        /\ at[p] = "activate" /\ scripts[about[p]].decoded => scripts[about[p]].saved

Writing(p) ==
    at[p] \in MinuteSteps =>
        /\ about[p] \in MinuteIds
        /\ minutes[about[p]].status = "BUILDING" /\ ~minutes[about[p]].active
        /\ at[p] # "generate" => minutes[about[p]].saved
        /\ at[p] = "activateMinute" => minutes[about[p]].number # Unnumbered

Exporting(p) == at[p] \in ExportSteps => about[p] \in MinuteIds

\* No two runs work on the same row.
AloneIn(steps) ==
    \A p, q \in Proc : at[p] \in steps /\ at[q] \in steps /\ about[p] = about[q] => p = q

ScriptsWhole ==
    /\ \A r, s \in CurrentScripts : r = s
    /\ \A r \in CurrentScripts : /\ scripts[r].status = "COMPLETE"
                                 /\ scripts[r].decoded => scripts[r].saved

MinutesWhole ==
    /\ \A m \in CurrentMinutes : /\ minutes[m].status = "DRAFT" /\ minutes[m].saved
                                 /\ minutes[m].number # Unnumbered
    /\ \A m, n \in CurrentMinutes :
          minutes[m].script = minutes[n].script \/ minutes[m].number = minutes[n].number
            => m = n

\* The numbered minutes of a transcript share their number.
OneNumber ==
    \A m, n \in MinuteIds :
        /\ minutes[m].script = minutes[n].script
        /\ Unnumbered \notin {minutes[m].number, minutes[n].number}
        => minutes[m].number = minutes[n].number

\* A number was counted for the first minute of a transcript and for no other.
NumberedScripts == {t \in 1..MaxScripts : NumberedOf(t) # {}}
Counted == \A m \in MinuteIds : minutes[m].number.seq <= Cardinality(NumberedScripts)

ScriptInv ==
    /\ scripts \in Seq(Script) /\ Len(scripts) <= MaxScripts
    /\ \A p \in Proc : Building(p)
    /\ AloneIn(ScriptSteps) /\ ScriptsWhole

MinuteInv ==
    /\ minutes \in Seq(Minute) /\ Len(minutes) <= MaxMinutes
    /\ \A p \in Proc : Writing(p) /\ Exporting(p)
    /\ AloneIn(MinuteSteps) /\ MinutesWhole
    /\ OneNumber /\ Counted

\* The rest of the state, which no other part of the invariant needs.
Steps == {"idle", "build", "saveCopy", "vad", "saveVad", "open", "decode", "save",
          "saveBoth", "activate", "generate", "number", "activateMinute", "export",
          "record"}

RestTyped ==
    /\ master \in Versions /\ {file, copyRow, vad} \subseteq Versions \cup {None}
    /\ seen \in [Proc -> Versions \cup {None}] /\ about \in [Proc -> Nat]
    /\ at \in [Proc -> Steps] /\ cuts \in 0..MaxCuts /\ month \in 1..MaxMonth
    /\ exports \in [1..MaxMinutes -> 0..MaxMinutes]

IInv == ScriptInv /\ MinuteInv /\ RestTyped

-----------------------------------------------------------------------------
(* Numbers and sequences *)

LEMMA LeastNumber ==
  ASSUME NEW T \in SUBSET Nat, T # {}
  PROVE  \E x \in T : \A y \in T : x <= y
<1>1. PICK x \in T : \A y \in T : ~ (<<y, x>> \in OpToRel(<, Nat))
  BY NatLessThanWellFounded, WFMin
<1>2. \A y \in T : ~(y < x)
  BY <1>1 DEF OpToRel
<1>. QED
  BY <1>2

\* A set of naturals with a bound has a greatest member.
LEMMA GreatestNumber ==
  ASSUME NEW T \in SUBSET Nat, T # {}, NEW b \in Nat, \A x \in T : x <= b
  PROVE  \E x \in T : \A y \in T : y <= x
<1>. DEFINE D == {n \in 0..b : b - n \in T}
<1>1. D \subseteq Nat
  OBVIOUS
<1>2. ASSUME NEW x \in T PROVE b - x \in D
  <2>1. x \in Nat /\ b - x \in 0..b /\ b - (b - x) = x
    OBVIOUS
  <2>. QED
    BY <2>1
<1>3. D # {}
  BY <1>2
<1>4. PICK d \in D : \A e \in D : d <= e
  BY <1>1, <1>3, LeastNumber
<1>5. \A y \in T : y <= b - d
  BY <1>2, <1>4
<1>. QED
  BY <1>4, <1>5

LEMMA FunctionIsSeq ==
  ASSUME NEW S, NEW n \in Nat, NEW f \in [1..n -> S]
  PROVE  f \in Seq(S) /\ Len(f) = n
OBVIOUS

-----------------------------------------------------------------------------
(* Steps on the transcripts *)

Alone(p) == \A q \in Proc \ {p} : at'[q] = at[q] /\ about'[q] = about[q]

LEMMA MovesAlone ==
  ASSUME RestTyped, NEW p \in Proc, NEW step,
         \/ Move(p, step) /\ UNCHANGED about
         \/ Move(p, step) /\ \E x : about' = [about EXCEPT ![p] = x]
         \/ Finish(p)
  PROVE  Alone(p)
BY DEF RestTyped, Move, Finish, Alone

LEMMA ScriptsUntouched ==
  ASSUME ScriptInv, NEW p \in Proc, Alone(p), UNCHANGED scripts,
         at'[p] \notin ScriptSteps
  PROVE  ScriptInv'
<1>1. \A q \in Proc : Building(q)'
  BY DEF ScriptInv, Building, Revisions, Alone
<1>2. AloneIn(ScriptSteps)'
  BY DEF ScriptInv, AloneIn, Alone
<1>3. ScriptsWhole'
  BY DEF ScriptInv, ScriptsWhole, CurrentScripts, Revisions
<1>. QED
  BY <1>1, <1>2, <1>3 DEF ScriptInv

\* A run writes to its own transcript, which is not the current one.
LEMMA ScriptEdited ==
  ASSUME ScriptInv, NEW p \in Proc, Alone(p), at[p] \in ScriptSteps,
         NEW x \in Script, scripts' = [scripts EXCEPT ![about[p]] = x], ~x.active,
         at'[p] \in ScriptSteps =>
             /\ about'[p] = about[p] /\ x.status = "BUILDING"
             /\ at'[p] = "activate" /\ x.decoded => x.saved
  PROVE  ScriptInv'
<1>0. Building(p) /\ about[p] \in Revisions /\ ~scripts[about[p]].active
  BY DEF ScriptInv, Building
<1>1. /\ scripts' \in Seq(Script) /\ Len(scripts') = Len(scripts)
      /\ \A r \in Revisions : scripts'[r] = IF r = about[p] THEN x ELSE scripts[r]
  BY <1>0, ExceptSeq DEF ScriptInv, Revisions
<1>2. ASSUME NEW q \in Proc PROVE Building(q)'
  <2>1. CASE q = p
    BY <1>0, <1>1, <2>1 DEF Building, Revisions
  <2>2. CASE q # p
    <3>1. at'[q] = at[q] /\ about'[q] = about[q] /\ Building(q)
      BY <2>2 DEF Alone, ScriptInv
    <3>2. at[q] \in ScriptSteps => about[q] # about[p]
      BY <2>2 DEF ScriptInv, AloneIn
    <3>. QED
      BY <1>1, <3>1, <3>2 DEF Building, Revisions
  <2>. QED
    BY <2>1, <2>2
<1>3. AloneIn(ScriptSteps)'
  BY DEF ScriptInv, AloneIn, Alone
<1>4. CurrentScripts' = CurrentScripts /\ about[p] \notin CurrentScripts
  BY <1>0, <1>1 DEF CurrentScripts, Revisions
<1>5. ScriptsWhole'
  BY <1>0, <1>1, <1>4 DEF ScriptInv, ScriptsWhole, CurrentScripts
<1>. QED
  BY <1>1, <1>2, <1>3, <1>5 DEF ScriptInv

LEMMA ScriptOpened ==
  ASSUME ScriptInv, RestTyped, NEW p \in Proc, Open(p)
  PROVE  ScriptInv'
<1>. DEFINE n == Len(scripts) + 1
<1>0. scripts \in Seq(Script) /\ NewScript \in Script /\ Len(scripts) \in Nat
  BY LenProperties DEF ScriptInv, NewScript, Script
<1>1. /\ scripts' \in Seq(Script) /\ Len(scripts') = n /\ scripts'[n] = NewScript
      /\ \A r \in Revisions : scripts'[r] = scripts[r]
  BY <1>0, AppendProperties DEF Open, Revisions
<1>2. about'[p] = n /\ Alone(p) /\ at'[p] \in {"activate", "decode"}
        /\ Len(scripts) < MaxScripts
  BY <1>1 DEF Open, RestTyped, Move, Alone
<1>3. \A r \in Revisions : r # n /\ r \in Revisions'
  BY <1>0, <1>1 DEF Revisions
<1>4. ASSUME NEW q \in Proc, q # p, at'[q] \in ScriptSteps
      PROVE  at[q] \in ScriptSteps /\ about'[q] = about[q] /\ about[q] \in Revisions
  BY <1>2, <1>4 DEF Alone, ScriptInv, Building
<1>5. ASSUME NEW q \in Proc PROVE Building(q)'
  <2>1. CASE q = p
    BY <1>0, <1>1, <1>2, <2>1 DEF Building, Revisions, NewScript
  <2>2. CASE q # p
    BY <1>1, <1>2, <1>3, <1>4, <2>2 DEF Building, Alone, ScriptInv
  <2>. QED
    BY <2>1, <2>2
<1>6. AloneIn(ScriptSteps)'
  BY <1>2, <1>3, <1>4 DEF AloneIn, ScriptInv
<1>7. CurrentScripts' = CurrentScripts
  BY <1>0, <1>1 DEF CurrentScripts, Revisions, NewScript
<1>8. ScriptsWhole'
  BY <1>1, <1>7 DEF ScriptsWhole, ScriptInv, CurrentScripts
<1>. QED
  BY <1>0, <1>1, <1>2, <1>5, <1>6, <1>8, TranscriptsAssumption DEF ScriptInv

LEMMA ScriptActivated ==
  ASSUME ScriptInv, RestTyped, NEW p \in Proc, Activate(p)
  PROVE  ScriptInv' /\ about[p] \in CurrentScripts'
<1>0. /\ about[p] \in Revisions /\ Len(scripts) \in Nat
      /\ scripts[about[p]].decoded => scripts[about[p]].saved
  BY LenProperties DEF ScriptInv, Building, Activate, ScriptSteps
<1>1. scripts' \in [1..Len(scripts) -> Script]
  <2>1. \A r \in Revisions : scripts[r] \in Script
    BY ElementOfSeq DEF ScriptInv, Revisions
  <2>. QED
    BY <2>1 DEF Activate, Revisions, Script
<1>2. scripts' \in Seq(Script) /\ Len(scripts') = Len(scripts) /\ Revisions' = Revisions
  BY <1>0, <1>1, FunctionIsSeq DEF Revisions
<1>3. \A r \in Revisions :
          /\ scripts'[r].active = (r = about[p])
          /\ scripts'[r].decoded = scripts[r].decoded /\ scripts'[r].saved = scripts[r].saved
          /\ scripts'[r].status = IF r = about[p] THEN "COMPLETE" ELSE scripts[r].status
  <2>1. \A r \in Revisions : scripts[r] \in Script
    BY ElementOfSeq DEF ScriptInv, Revisions
  <2>. QED
    BY <2>1 DEF Activate, Script
<1>4. Alone(p) /\ at'[p] = "idle"
  BY DEF Activate, Finish, Move, RestTyped, Alone
<1>5. CurrentScripts' = {about[p]}
  BY <1>0, <1>2, <1>3 DEF CurrentScripts
<1>6. ScriptsWhole'
  BY <1>0, <1>3, <1>5 DEF ScriptsWhole
<1>7. ASSUME NEW q \in Proc PROVE Building(q)'
  <2>1. CASE q = p
    BY <1>4, <2>1 DEF Building, ScriptSteps
  <2>2. CASE q # p
    <3>1. at'[q] = at[q] /\ about'[q] = about[q] /\ Building(q)
      BY <1>4, <2>2 DEF Alone, ScriptInv
    <3>2. at[q] \in ScriptSteps => about[q] # about[p]
      BY <2>2 DEF ScriptInv, AloneIn, Activate, ScriptSteps
    <3>. QED
      BY <1>2, <1>3, <3>1, <3>2 DEF Building
  <2>. QED
    BY <2>1, <2>2
<1>8. AloneIn(ScriptSteps)'
  BY <1>4 DEF ScriptInv, AloneIn, Alone, ScriptSteps
<1>. QED
  BY <1>2, <1>5, <1>6, <1>7, <1>8 DEF ScriptInv

LEMMA TranscriptWritten ==
  ASSUME ScriptInv, RestTyped, NEW p \in Proc,
         Decode(p) \/ SecondPass(p) \/ SaveSegments(p) \/ FailTranscript(p)
  PROVE  ScriptInv' /\ CurrentScripts' = CurrentScripts
<1>. DEFINE r == about[p]
            old == scripts[r]
<1>0. /\ at[p] \in ScriptSteps /\ r \in Revisions /\ old \in Script
      /\ old.status = "BUILDING" /\ ~old.active
  BY ElementOfSeq DEF ScriptInv, Building, Revisions, ScriptSteps, Decode, SecondPass,
                      SaveSegments, FailTranscript
<1>1. Alone(p)
  BY DEF Decode, SecondPass, SaveSegments, FailTranscript, RestTyped, Move, Finish, Alone
<1>a. Len(scripts) \in Nat /\ scripts \in [1..Len(scripts) -> Script]
  BY LenProperties DEF ScriptInv
<1>2. \E x \in Script :
          /\ scripts' = [scripts EXCEPT ![r] = x] /\ ~x.active
          /\ at'[p] \in ScriptSteps =>
                 /\ about'[p] = about[p] /\ x.status = "BUILDING"
                 /\ at'[p] = "activate" /\ x.decoded => x.saved
  <2>1. CASE Decode(p) \/ SecondPass(p)
    <3>. DEFINE x == [old EXCEPT !.decoded = TRUE, !.stale = @ \/ file # seen[p]]
    <3>1. scripts' = [scripts EXCEPT ![r] = x]
      BY <1>0, <1>a, <2>1 DEF Decode, SecondPass, Heard, Script, Revisions
    <3>2. x \in Script /\ ~x.active /\ x.status = "BUILDING"
      BY <1>0 DEF Script
    <3>3. about'[p] = about[p] /\ at'[p] \in {"save", "saveBoth"}
      BY <2>1 DEF Decode, SecondPass, Move, RestTyped
    <3>. QED
      BY <3>1, <3>2, <3>3
  <2>2. CASE SaveSegments(p)
    <3>. DEFINE x == [old EXCEPT !.saved = TRUE]
    <3>1. scripts' = [scripts EXCEPT ![r] = x] /\ x.saved
      BY <1>0, <1>a, <2>2 DEF SaveSegments, Script, Revisions
    <3>2. x \in Script /\ ~x.active /\ x.status = "BUILDING"
      BY <1>0 DEF Script
    <3>3. about'[p] = about[p]
      BY <2>2 DEF SaveSegments
    <3>. QED
      BY <3>1, <3>2, <3>3
  <2>3. CASE FailTranscript(p)
    <3>. DEFINE x == [old EXCEPT !.status = "FAILED", !.active = FALSE]
    <3>1. scripts' = [scripts EXCEPT ![r] = x]
      BY <1>0, <1>a, <2>3 DEF FailTranscript, Failed, Script, Revisions
    <3>2. x \in Script /\ ~x.active
      BY <1>0 DEF Script
    <3>3. at'[p] \notin ScriptSteps
      BY <2>3 DEF FailTranscript, Finish, Move, RestTyped, ScriptSteps
    <3>. QED
      BY <3>1, <3>2, <3>3
  <2>. QED
    BY <2>1, <2>2, <2>3
<1>3. PICK x \in Script :
          /\ scripts' = [scripts EXCEPT ![r] = x] /\ ~x.active
          /\ at'[p] \in ScriptSteps =>
                 /\ about'[p] = about[p] /\ x.status = "BUILDING"
                 /\ at'[p] = "activate" /\ x.decoded => x.saved
  BY <1>2
<1>4. ScriptInv'
  BY <1>0, <1>1, <1>3, ScriptEdited
<1>5. CurrentScripts' = CurrentScripts
  BY <1>0, <1>3, <1>a DEF CurrentScripts, Revisions
<1>. QED
  BY <1>4, <1>5

\* The steps of the minutes, and those of a run before it has a transcript.
LEMMA TranscriptsUntouched ==
  ASSUME ScriptInv, RestTyped, NEW p \in Proc,
         \/ BeginTranscription(p) \/ BuildCopy(p) \/ SaveCopy(p) \/ EnsureVad(p)
         \/ SaveVad(p) \/ StopEarly(p) \/ CutOff(p)
         \/ BeginMinutes(p) \/ BeginExport(p) \/ MinutesStep(p)
  PROVE  ScriptInv' /\ UNCHANGED scripts
<1>1. UNCHANGED scripts
  BY DEF BeginTranscription, BuildCopy, SaveCopy, EnsureVad, SaveVad, StopEarly, CutOff,
         BeginMinutes, BeginExport, MinutesStep, SaveResult, AssignNumber, ActivateMinute,
         FailMinute, WriteExport, RecordExport
<1>2. Alone(p) /\ at'[p] \notin ScriptSteps
  <2>1. CASE \/ BeginTranscription(p) \/ BuildCopy(p) \/ SaveCopy(p) \/ EnsureVad(p)
             \/ SaveVad(p) \/ StopEarly(p) \/ CutOff(p)
    BY <2>1 DEF BeginTranscription, BuildCopy, SaveCopy, EnsureVad, SaveVad, StopEarly,
         CutOff, RestTyped, Move, Finish, Alone, ScriptSteps
  <2>2. CASE BeginMinutes(p) \/ BeginExport(p)
    BY <2>2 DEF BeginMinutes, BeginExport, RestTyped, Move, Finish, Alone, ScriptSteps
  <2>3. CASE MinutesStep(p)
    BY <2>3 DEF MinutesStep, SaveResult, AssignNumber, ActivateMinute, FailMinute,
         WriteExport, RecordExport, RestTyped, Move, Finish, Alone, ScriptSteps
  <2>. QED
    BY <2>1, <2>2, <2>3
<1>. QED
  BY <1>1, <1>2, ScriptsUntouched

-----------------------------------------------------------------------------
(* Steps on the minutes *)

\* No number changes, and who has a current minute keeps having one.
KeptWhole ==
    /\ \A m \in MinuteIds :
          minutes[m].number # Unnumbered => minutes'[m].number = minutes[m].number
    /\ \A m \in CurrentMinutes :
          \E n \in CurrentMinutes' : minutes'[n].script = minutes[m].script

LEMMA MinutesUntouched ==
  ASSUME MinuteInv, NEW p \in Proc, Alone(p), UNCHANGED minutes,
         at'[p] \notin MinuteSteps,
         at'[p] \in ExportSteps => about'[p] \in MinuteIds
  PROVE  MinuteInv' /\ KeptWhole
<1>1. \A q \in Proc : Writing(q)' /\ Exporting(q)'
  BY DEF MinuteInv, Writing, Exporting, MinuteIds, Alone
<1>2. AloneIn(MinuteSteps)'
  BY DEF MinuteInv, AloneIn, Alone
<1>3. MinutesWhole' /\ OneNumber' /\ Counted'
  BY DEF MinuteInv, MinutesWhole, CurrentMinutes, MinuteIds, OneNumber, Counted,
         NumberedScripts, NumberedOf, MinutesOf
<1>4. KeptWhole
  BY DEF KeptWhole, CurrentMinutes, MinuteIds
<1>. QED
  BY <1>1, <1>2, <1>3, <1>4 DEF MinuteInv

\* A run writes to its own minute, which is not a current one, and leaves its number.
LEMMA MinuteEdited ==
  ASSUME MinuteInv, NEW p \in Proc, Alone(p), at[p] \in MinuteSteps,
         NEW x \in Minute, minutes' = [minutes EXCEPT ![about[p]] = x], ~x.active,
         x.script = minutes[about[p]].script, x.number = minutes[about[p]].number,
         at'[p] \notin ExportSteps,
         at'[p] \in MinuteSteps =>
             /\ about'[p] = about[p] /\ x.status = "BUILDING" /\ x.saved
             /\ at'[p] # "activateMinute"
  PROVE  MinuteInv' /\ KeptWhole
<1>0. Writing(p) /\ about[p] \in MinuteIds /\ ~minutes[about[p]].active
  BY DEF MinuteInv, Writing
<1>1. /\ minutes' \in Seq(Minute) /\ Len(minutes') = Len(minutes) /\ MinuteIds' = MinuteIds
      /\ \A m \in MinuteIds : minutes'[m] = IF m = about[p] THEN x ELSE minutes[m]
  BY <1>0, ExceptSeq DEF MinuteInv, MinuteIds
<1>2. ASSUME NEW q \in Proc PROVE Writing(q)' /\ Exporting(q)'
  <2>1. CASE q = p
    BY <1>0, <1>1, <2>1 DEF Writing, Exporting
  <2>2. CASE q # p
    <3>1. at'[q] = at[q] /\ about'[q] = about[q] /\ Writing(q) /\ Exporting(q)
      BY <2>2 DEF Alone, MinuteInv
    <3>2. at[q] \in MinuteSteps => about[q] # about[p]
      BY <2>2 DEF MinuteInv, AloneIn
    <3>. QED
      BY <1>1, <3>1, <3>2 DEF Writing, Exporting
  <2>. QED
    BY <2>1, <2>2
<1>3. AloneIn(MinuteSteps)'
  BY DEF MinuteInv, AloneIn, Alone
<1>4. CurrentMinutes' = CurrentMinutes /\ about[p] \notin CurrentMinutes
  BY <1>0, <1>1 DEF CurrentMinutes
<1>5. MinutesWhole'
  BY <1>0, <1>1, <1>4 DEF MinuteInv, MinutesWhole, CurrentMinutes
<1>6. \A m \in MinuteIds : /\ minutes'[m].number = minutes[m].number
                           /\ minutes'[m].script = minutes[m].script
  BY <1>1
<1>7. OneNumber' /\ KeptWhole
  BY <1>1, <1>4, <1>6 DEF MinuteInv, OneNumber, KeptWhole, CurrentMinutes
<1>8. Counted'
  <2>1. NumberedScripts' = NumberedScripts
    BY <1>1, <1>6 DEF NumberedScripts, NumberedOf, MinutesOf
  <2>. QED
    BY <1>1, <1>6, <2>1 DEF MinuteInv, Counted
<1>. QED
  BY <1>1, <1>2, <1>3, <1>4, <1>5, <1>7, <1>8 DEF MinuteInv

LEMMA MinuteSaved ==
  ASSUME MinuteInv, RestTyped, NEW p \in Proc, SaveResult(p) \/ FailMinute(p)
  PROVE  MinuteInv' /\ KeptWhole
<1>. DEFINE old == minutes[about[p]]
            x == IF SaveResult(p) THEN [old EXCEPT !.saved = TRUE]
                 ELSE [old EXCEPT !.status = "FAILED", !.active = FALSE]
<1>0. /\ at[p] = "generate" /\ about[p] \in MinuteIds /\ old \in Minute
      /\ old.status = "BUILDING" /\ ~old.active
  BY ElementOfSeq DEF MinuteInv, Writing, MinuteIds, MinuteSteps, SaveResult, FailMinute
<1>1. Alone(p) /\ minutes \in [1..Len(minutes) -> Minute]
  BY LenProperties
     DEF SaveResult, FailMinute, RestTyped, Move, Finish, Alone, MinuteInv
<1>2. CASE SaveResult(p)
  <2>1. /\ x \in Minute /\ minutes' = [minutes EXCEPT ![about[p]] = x] /\ ~x.active
        /\ x.script = old.script /\ x.number = old.number /\ x.saved
        /\ x.status = "BUILDING"
    BY <1>0, <1>1, <1>2 DEF SaveResult, Minute, MinuteIds
  <2>2. at'[p] = "number" /\ about'[p] = about[p]
    BY <1>2 DEF SaveResult, Move, RestTyped
  <2>. HIDE DEF x
  <2>. QED
    BY <1>0, <1>1, <2>1, <2>2, MinuteEdited DEF MinuteSteps, ExportSteps
<1>3. CASE ~SaveResult(p)
  <2>1. /\ x \in Minute /\ minutes' = [minutes EXCEPT ![about[p]] = x] /\ ~x.active
        /\ x.script = old.script /\ x.number = old.number
    BY <1>0, <1>1, <1>3 DEF FailMinute, Minute, MinuteIds
  <2>2. at'[p] = "idle"
    BY <1>3 DEF FailMinute, Finish, Move, RestTyped
  <2>. HIDE DEF x
  <2>. QED
    BY <1>0, <1>1, <2>1, <2>2, MinuteEdited DEF MinuteSteps, ExportSteps
<1>. QED
  BY <1>2, <1>3

LEMMA FiniteNumbers ==
  ASSUME MinuteInv
  PROVE  /\ IsFiniteSet(NumberedScripts) /\ Cardinality(NumberedScripts) \in 0..MaxScripts
         /\ \A t : IsFiniteSet(MinutesOf(t)) /\ Cardinality(MinutesOf(t)) \in 0..Len(minutes)
<1>1. MaxScripts \in Nat /\ Len(minutes) \in Nat
  BY TranscriptsAssumption, LenProperties DEF MinuteInv
<1>2. /\ IsFiniteSet(1..MaxScripts) /\ Cardinality(1..MaxScripts) = MaxScripts
      /\ IsFiniteSet(1..Len(minutes)) /\ Cardinality(1..Len(minutes)) = Len(minutes)
  <2>1. ASSUME NEW n \in Nat PROVE IsFiniteSet(1..n) /\ Cardinality(1..n) = n
    <3>1. 1 \in Int /\ n \in Int
      OBVIOUS
    <3>2. IsFiniteSet(1..n) /\ Cardinality(1..n) = IF 1 > n THEN 0 ELSE n - 1 + 1
      BY <3>1, FS_Interval
    <3>. QED
      BY <3>2
  <2>. QED
    BY <1>1, <2>1
<1>3. ASSUME NEW S, NEW n \in Nat, IsFiniteSet(S), Cardinality(S) = n, NEW T \in SUBSET S
      PROVE  IsFiniteSet(T) /\ Cardinality(T) \in 0..n
  BY <1>3, FS_Subset, FS_CardinalityType
<1>4. NumberedScripts \in SUBSET (1..MaxScripts)
  BY DEF NumberedScripts
<1>5. \A t : MinutesOf(t) \in SUBSET (1..Len(minutes))
  BY DEF MinutesOf, MinuteIds
<1>. QED
  BY <1>1, <1>2, <1>3, <1>4, <1>5

LEMMA MinuteBegun ==
  ASSUME ScriptInv, MinuteInv, RestTyped, NEW p \in Proc, BeginMinutes(p)
  PROVE  MinuteInv' /\ KeptWhole
<1>. DEFINE n == Len(minutes) + 1
<1>0. minutes \in Seq(Minute) /\ Len(minutes) \in Nat /\ Len(minutes) < MaxMinutes
        /\ MaxMinutes \in Nat /\ MaxScripts \in Nat
  BY LenProperties, MinutesAssumption, TranscriptsAssumption DEF MinuteInv, BeginMinutes
<1>1. PICK t \in Minutable :
          minutes' = Append(minutes,
                [script |-> t, rev |-> Cardinality(MinutesOf(t)) + 1,
                 status |-> "BUILDING", active |-> FALSE, saved |-> FALSE,
                 created |-> month, number |-> Unnumbered])
  BY DEF BeginMinutes
<1>. DEFINE x == [script |-> t, rev |-> Cardinality(MinutesOf(t)) + 1,
                  status |-> "BUILDING", active |-> FALSE, saved |-> FALSE,
                  created |-> month, number |-> Unnumbered]
<1>2. x \in Minute
  <2>1. t \in 1..MaxScripts
    BY <1>0, LenProperties DEF Minutable, CurrentScripts, Revisions, ScriptInv
  <2>2. Cardinality(MinutesOf(t)) + 1 \in 1..MaxMinutes
    BY <1>0, FiniteNumbers
  <2>3. month \in 1..MaxMonth /\ Unnumbered \in [month : 0..MaxMonth, seq : 0..MaxScripts]
    BY <1>0, MinutesAssumption DEF RestTyped, Unnumbered
  <2>. QED
    BY <2>1, <2>2, <2>3 DEF Minute
<1>3. x.status = "BUILDING" /\ ~x.active /\ x.number = Unnumbered
  OBVIOUS
<1>. HIDE DEF x
<1>4. /\ minutes' \in Seq(Minute) /\ Len(minutes') = n /\ minutes'[n] = x
      /\ \A m \in MinuteIds : minutes'[m] = minutes[m]
  BY <1>0, <1>1, <1>2, AppendProperties DEF MinuteIds, x
<1>5. about'[p] = n /\ Alone(p) /\ at'[p] = "generate"
  BY <1>4 DEF BeginMinutes, RestTyped, Move, Alone
<1>6. MinuteIds' = MinuteIds \cup {n} /\ n \notin MinuteIds
  BY <1>0, <1>4 DEF MinuteIds
<1>7. ASSUME NEW q \in Proc, q # p, at'[q] \in MinuteSteps
      PROVE  at[q] \in MinuteSteps /\ about'[q] = about[q] /\ about[q] \in MinuteIds
  BY <1>5, <1>7 DEF Alone, MinuteInv, Writing
<1>8. ASSUME NEW q \in Proc PROVE Writing(q)' /\ Exporting(q)'
  <2>1. CASE q = p
    BY <1>3, <1>4, <1>5, <1>6, <2>1 DEF Writing, Exporting, ExportSteps
  <2>2. CASE q # p
    BY <1>4, <1>5, <1>6, <1>7, <2>2 DEF Writing, Exporting, Alone, MinuteInv
  <2>. QED
    BY <2>1, <2>2
<1>9. AloneIn(MinuteSteps)'
  BY <1>5, <1>6, <1>7 DEF AloneIn, MinuteInv
<1>10. CurrentMinutes' = CurrentMinutes
  BY <1>3, <1>4, <1>6 DEF CurrentMinutes
<1>11. MinutesWhole'
  BY <1>4, <1>6, <1>10 DEF MinutesWhole, MinuteInv, CurrentMinutes
<1>12. OneNumber'
  BY <1>3, <1>4, <1>6 DEF OneNumber, MinuteInv
<1>13. Counted'
  <2>1. \A s : NumberedOf(s)' = NumberedOf(s)
    BY <1>3, <1>4, <1>6 DEF NumberedOf, MinutesOf
  <2>2. NumberedScripts' = NumberedScripts
    BY <2>1 DEF NumberedScripts
  <2>3. x.number.seq = 0
    BY <1>3 DEF Unnumbered
  <2>. QED
    BY <1>4, <1>6, <2>2, <2>3, FiniteNumbers DEF Counted, MinuteInv
<1>14. KeptWhole
  BY <1>4, <1>10 DEF KeptWhole, CurrentMinutes
<1>. QED
  BY <1>0, <1>4, <1>5, <1>8, <1>9, <1>11, <1>12, <1>13, <1>14 DEF MinuteInv

LEMMA MinuteRows ==
  ASSUME MinuteInv
  PROVE  \A m \in MinuteIds : minutes[m] \in Minute
BY ElementOfSeq DEF MinuteInv, MinuteIds

\* If a transcript has a numbered minute, the latest of them is there to inherit from.
LEMMA InheritedExists ==
  ASSUME MinuteInv, NEW m \in MinuteIds, NumberedOf(minutes[m].script) # {}
  PROVE  Inherited(m) # {}
<1>. DEFINE N == NumberedOf(minutes[m].script)
            revs == {r \in 1..MaxMinutes : \E n \in N : minutes[n].rev = r}
<1>1. \A n \in N : n \in MinuteIds /\ minutes[n].rev \in 1..MaxMinutes
  <2>1. \A n \in MinuteIds : minutes[n].rev \in 1..MaxMinutes
    BY MinuteRows DEF Minute
  <2>. QED
    BY <2>1 DEF NumberedOf, MinutesOf
<1>2. revs \in SUBSET Nat /\ revs # {} /\ MaxMinutes \in Nat /\ \A r \in revs : r <= MaxMinutes
  BY <1>1, MinutesAssumption
<1>3. PICK r \in revs : \A s \in revs : s <= r
  BY <1>2, GreatestNumber
<1>4. PICK n \in N : minutes[n].rev = r
  BY <1>3
<1>5. \A k \in N : minutes[k].rev <= minutes[n].rev
  BY <1>1, <1>3, <1>4
<1>. QED
  BY <1>4, <1>5 DEF Inherited

\* The next number is no one's yet, and counts at most one more than there are.
LEMMA NextNumberFits ==
  ASSUME MinuteInv, RestTyped
  PROVE  /\ NextNumber.month \in 1..MaxMonth
         /\ NextNumber.seq \in 1..Cardinality(NumberedScripts) + 1
         /\ NextNumber = [month |-> NextNumber.month, seq |-> NextNumber.seq]
<1>. DEFINE seqs == {minutes[m].number.seq : m \in {n \in MinuteIds : minutes[n].created = month}}
            T == seqs \cup {0}
<1>1. Cardinality(NumberedScripts) \in Nat
  BY FiniteNumbers
<1>2. \A m \in MinuteIds : minutes[m].number.seq \in Nat
  BY MinuteRows DEF Minute
<1>3. T \in SUBSET Nat /\ T # {} /\ \A x \in T : x <= Cardinality(NumberedScripts)
  BY <1>1, <1>2 DEF MinuteInv, Counted
<1>4. \E x \in T : \A y \in T : y <= x
  BY <1>1, <1>3, GreatestNumber
<1>5. Largest(T) \in T
  BY <1>4 DEF Largest
<1>6. NextNumber = [month |-> month, seq |-> Largest(T) + 1]
  BY DEF NextNumber
<1>7. Largest(T) \in 0..Cardinality(NumberedScripts)
  BY <1>1, <1>3, <1>5
<1>. HIDE DEF T
<1>8. month \in 1..MaxMonth
  BY DEF RestTyped
<1>. QED
  BY <1>1, <1>6, <1>7, <1>8

LEMMA MinuteNumbered ==
  ASSUME MinuteInv, RestTyped, NEW p \in Proc, AssignNumber(p)
  PROVE  MinuteInv' /\ KeptWhole
<1>. DEFINE m == about[p]
            v == minutes'[m].number
<1>0. /\ at[p] = "number" /\ m \in MinuteIds /\ minutes[m] \in Minute
      /\ minutes[m].status = "BUILDING" /\ ~minutes[m].active /\ minutes[m].saved
  BY ElementOfSeq DEF MinuteInv, Writing, MinuteIds, MinuteSteps, AssignNumber
<1>1. Alone(p) /\ at'[p] = "activateMinute" /\ about' = about
  BY DEF AssignNumber, RestTyped, Move, Alone
<1>2. minutes \in [1..Len(minutes) -> Minute] /\ Len(minutes) \in Nat /\ MinuteInv
  BY LenProperties DEF MinuteInv
<1>3. /\ v \in [month : 0..MaxMonth, seq : 0..MaxScripts] /\ v # Unnumbered
      /\ minutes' = [minutes EXCEPT ![m].number = v]
      /\ minutes[m].number # Unnumbered => v = minutes[m].number
      /\ \A n \in NumberedOf(minutes[m].script) : minutes[n].number = v
      /\ \/ NumberedOf(minutes[m].script) # {} /\ v.seq <= Cardinality(NumberedScripts)
         \/ NumberedOf(minutes[m].script) = {} /\ v.seq <= Cardinality(NumberedScripts) + 1
  <2>1. CASE minutes[m].number # Unnumbered
    <3>1. minutes' = minutes
      BY <2>1 DEF AssignNumber
    <3>2. m \in NumberedOf(minutes[m].script)
      BY <1>0, <2>1 DEF NumberedOf, MinutesOf
    <3>3. \A n \in NumberedOf(minutes[m].script) : minutes[n].number = minutes[m].number
      BY <1>0, <2>1 DEF NumberedOf, MinutesOf, MinuteInv, OneNumber
    <3>4. minutes[m].number.seq <= Cardinality(NumberedScripts)
      BY <1>0 DEF MinuteInv, Counted
    <3>5. minutes = [minutes EXCEPT ![m].number = minutes[m].number]
      BY <1>0, <1>2 DEF Minute, MinuteIds
    <3>. QED
      BY <1>0, <2>1, <3>1, <3>2, <3>3, <3>4, <3>5 DEF Minute
  <2>2. CASE minutes[m].number = Unnumbered /\ Inherited(m) # {}
    <3>. DEFINE n == CHOOSE n \in Inherited(m) : TRUE
    <3>1. n \in NumberedOf(minutes[m].script)
      BY <2>2 DEF Inherited
    <3>2. n \in MinuteIds /\ minutes[n] \in Minute /\ minutes[n].number # Unnumbered
            /\ minutes[n].script = minutes[m].script
      BY <1>2, <3>1 DEF NumberedOf, MinutesOf, MinuteIds
    <3>3. minutes' = [minutes EXCEPT ![m].number = minutes[n].number]
      BY <2>2 DEF AssignNumber
    <3>4. v = minutes[n].number
      BY <1>0, <1>2, <3>3 DEF Minute, MinuteIds
    <3>5. \A k \in NumberedOf(minutes[m].script) : minutes[k].number = minutes[n].number
      BY <3>2 DEF NumberedOf, MinutesOf, MinuteInv, OneNumber
    <3>6. minutes[n].number.seq <= Cardinality(NumberedScripts)
      BY <3>2 DEF MinuteInv, Counted
    <3>. HIDE DEF n
    <3>. QED
      BY <2>2, <3>1, <3>2, <3>3, <3>4, <3>5, <3>6 DEF Minute
  <2>3. CASE minutes[m].number = Unnumbered /\ Inherited(m) = {}
    <3>1. NumberedOf(minutes[m].script) = {}
      BY <1>0, <2>3, InheritedExists
    <3>2. minutes' = [minutes EXCEPT ![m].number = NextNumber]
      BY <2>3 DEF AssignNumber
    <3>3. v = NextNumber
      BY <1>0, <1>2, <3>2 DEF Minute, MinuteIds
    <3>4. v # Unnumbered /\ v.seq <= Cardinality(NumberedScripts) + 1
      BY <3>3, NextNumberFits, FiniteNumbers DEF Unnumbered
    <3>5. Cardinality(NumberedScripts) + 1 \in 0..MaxScripts
      <4>1. minutes[m].script \in 1..MaxScripts /\ minutes[m].script \notin NumberedScripts
        BY <1>0, <3>1 DEF Minute, NumberedScripts
      <4>2. Cardinality(NumberedScripts \cup {minutes[m].script})
                = Cardinality(NumberedScripts) + 1
        BY <4>1, FiniteNumbers, FS_AddElement
      <4>3. NumberedScripts \cup {minutes[m].script} \in SUBSET (1..MaxScripts)
        BY <4>1 DEF NumberedScripts
      <4>4. MaxScripts \in Nat /\ IsFiniteSet(1..MaxScripts)
              /\ Cardinality(1..MaxScripts) = MaxScripts
        BY TranscriptsAssumption, FS_Interval
      <4>5. Cardinality(NumberedScripts \cup {minutes[m].script}) <= MaxScripts
        BY <4>3, <4>4, FS_Subset
      <4>. QED
        BY <4>2, <4>4, <4>5, FiniteNumbers
    <3>6. v \in [month : 0..MaxMonth, seq : 0..MaxScripts]
      BY <3>3, <3>5, NextNumberFits, FiniteNumbers, MinutesAssumption, TranscriptsAssumption
    <3>. HIDE DEF v
    <3>. QED
      BY <2>3, <3>1, <3>2, <3>3, <3>4, <3>6
  <2>. QED
    BY <2>1, <2>2, <2>3
<1>. HIDE DEF v
<1>4. /\ minutes' \in Seq(Minute) /\ Len(minutes') = Len(minutes) /\ MinuteIds' = MinuteIds
      /\ \A k \in MinuteIds : k # m => minutes'[k] = minutes[k]
      /\ minutes'[m] = [minutes[m] EXCEPT !.number = v]
  <2>1. [minutes[m] EXCEPT !.number = v] \in Minute
    BY <1>0, <1>3, SMTT(20) DEF Minute
  <2>2. minutes' = [minutes EXCEPT ![m] = [minutes[m] EXCEPT !.number = v]]
    BY <1>3
  <2>3. m \in 1..Len(minutes) /\ minutes \in Seq(Minute)
    BY <1>0 DEF MinuteIds, MinuteInv
  <2>. DEFINE w == [minutes[m] EXCEPT !.number = v]
  <2>4. w \in Minute /\ minutes' = [minutes EXCEPT ![m] = w]
    BY <2>1, <2>2
  <2>. HIDE DEF w
  <2>5. /\ minutes' \in Seq(Minute) /\ Len(minutes') = Len(minutes)
        /\ \A k \in 1..Len(minutes) : minutes'[k] = IF k = m THEN w ELSE minutes[k]
    BY <2>3, <2>4, ExceptSeq
  <2>6. minutes'[m] = [minutes[m] EXCEPT !.number = v]
    BY <2>3, <2>5 DEF w
  <2>. QED
    BY <2>3, <2>5, <2>6 DEF MinuteIds
<1>5. \A k \in MinuteIds :
         /\ minutes'[k].script = minutes[k].script /\ minutes'[k].active = minutes[k].active
         /\ minutes'[k].saved = minutes[k].saved /\ minutes'[k].status = minutes[k].status
         /\ minutes'[k].number = IF k = m THEN v ELSE minutes[k].number
  <2>1. /\ minutes'[m].script = minutes[m].script /\ minutes'[m].active = minutes[m].active
        /\ minutes'[m].saved = minutes[m].saved /\ minutes'[m].status = minutes[m].status
        /\ minutes'[m].number = v
    <3>1. /\ minutes[m] \in Minute /\ m \in MinuteIds
          /\ minutes'[m] = [minutes[m] EXCEPT !.number = v]
      BY <1>0, <1>4
    <3>. QED
      BY <3>1 DEF Minute
  <2>. QED
    BY <1>4, <2>1
<1>6. ASSUME NEW q \in Proc PROVE Writing(q)' /\ Exporting(q)'
  <2>1. CASE q = p
    BY <1>0, <1>1, <1>3, <1>4, <1>5, <2>1 DEF Writing, Exporting, ExportSteps
  <2>2. CASE q # p
    <3>1. at'[q] = at[q] /\ about'[q] = about[q] /\ Writing(q) /\ Exporting(q)
      BY <1>1, <2>2 DEF Alone, MinuteInv
    <3>2. at[q] \in MinuteSteps => about[q] # m
      BY <1>0, <2>2 DEF MinuteInv, AloneIn, MinuteSteps
    <3>. QED
      BY <1>4, <3>1, <3>2 DEF Writing, Exporting
  <2>. QED
    BY <2>1, <2>2
<1>7. AloneIn(MinuteSteps)'
  BY <1>0, <1>1 DEF MinuteInv, AloneIn, Alone, MinuteSteps
<1>8. CurrentMinutes' = CurrentMinutes /\ m \notin CurrentMinutes
  BY <1>0, <1>4, <1>5 DEF CurrentMinutes
<1>9. MinutesWhole'
  BY <1>4, <1>5, <1>8 DEF MinuteInv, MinutesWhole, CurrentMinutes
<1>10. OneNumber'
  <2> SUFFICES ASSUME NEW j \in MinuteIds, NEW k \in MinuteIds,
                      minutes[j].script = minutes[k].script,
                      minutes'[j].number # Unnumbered, minutes'[k].number # Unnumbered
               PROVE  minutes'[j].number = minutes'[k].number
    BY <1>4, <1>5 DEF OneNumber
  <2>1. \A i \in {j, k} : i # m /\ minutes[i].script = minutes[m].script
                             => minutes[i].number = v
    BY <1>3, <1>5 DEF NumberedOf, MinutesOf
  <2>2. j # m /\ k # m => minutes[j].number = minutes[k].number
    BY <1>5 DEF MinuteInv, OneNumber
  <2>. QED
    BY <1>5, <2>1, <2>2
<1>11. Counted'
  <2>1. NumberedScripts' = NumberedScripts \cup {minutes[m].script}
    <3>1. \A t : NumberedOf(t)' = IF t = minutes[m].script THEN NumberedOf(t) \cup {m}
                                  ELSE NumberedOf(t)
      BY <1>0, <1>3, <1>4, <1>5 DEF NumberedOf, MinutesOf
    <3>2. minutes[m].script \in 1..MaxScripts
      BY <1>0 DEF Minute
    <3>. QED
      BY <3>1, <3>2 DEF NumberedScripts
  <2>2. /\ Cardinality(NumberedScripts) <= Cardinality(NumberedScripts')
        /\ v.seq <= Cardinality(NumberedScripts') /\ Cardinality(NumberedScripts') \in Nat
    <3>1. CASE NumberedOf(minutes[m].script) # {}
      <4>1. minutes[m].script \in NumberedScripts
        BY <1>0, <3>1 DEF NumberedScripts, Minute
      <4>2. NumberedScripts' = NumberedScripts
        BY <2>1, <4>1
      <4>. QED
        BY <1>3, <3>1, <4>2, FiniteNumbers
    <3>2. CASE NumberedOf(minutes[m].script) = {}
      <4>1. minutes[m].script \notin NumberedScripts
        BY <3>2 DEF NumberedScripts
      <4>2. Cardinality(NumberedScripts') = Cardinality(NumberedScripts) + 1
        BY <2>1, <4>1, FiniteNumbers, FS_AddElement
      <4>. QED
        BY <1>3, <3>2, <4>2, FiniteNumbers
    <3>. QED
      BY <3>1, <3>2
  <2>3. \A k \in MinuteIds : minutes[k].number.seq \in Nat
    BY <1>2 DEF Minute, MinuteIds
  <2>. QED
    BY <1>4, <1>5, <2>2, <2>3, FiniteNumbers DEF MinuteInv, Counted
<1>12. KeptWhole
  BY <1>3, <1>5, <1>8 DEF KeptWhole, CurrentMinutes
<1>. QED
  BY <1>4, <1>6, <1>7, <1>9, <1>10, <1>11, <1>12 DEF MinuteInv

\* The number is no other transcript's, and the old revision is no longer current.
LEMMA MinuteActivated ==
  ASSUME MinuteInv, RestTyped, NEW p \in Proc, ActivateMinute(p)
  PROVE  MinuteInv' /\ KeptWhole
<1>. DEFINE m == about[p]
            Now(k) == IF k = m THEN [minutes[k] EXCEPT !.status = "DRAFT", !.active = TRUE]
                      ELSE IF minutes[k].script = minutes[m].script
                        THEN [minutes[k] EXCEPT !.active = FALSE] ELSE minutes[k]
<1>0. /\ at[p] = "activateMinute" /\ m \in MinuteIds /\ Alone(p)
      /\ minutes[m].saved /\ minutes[m].number # Unnumbered
  BY DEF MinuteInv, Writing, MinuteSteps, ActivateMinute, RestTyped, Move, Finish, Alone
<1>1. CASE NumberTaken(m)
  BY <1>0, <1>1, MinutesUntouched
     DEF ActivateMinute, Finish, Move, RestTyped, MinuteSteps, ExportSteps
<1>2. CASE ~NumberTaken(m)
  <2>1. minutes' = [k \in MinuteIds |-> Now(k)] /\ at'[p] = "export" /\ about' = about
    BY <1>2 DEF ActivateMinute, Move, RestTyped
  <2>2. Len(minutes) \in Nat /\ \A k \in MinuteIds : minutes[k] \in Minute
    BY LenProperties, MinuteRows DEF MinuteInv
  <2>3. \A k \in MinuteIds : Now(k) \in Minute
    BY <2>2 DEF Minute
  <2>4. \A k \in MinuteIds :
           /\ Now(k).script = minutes[k].script /\ Now(k).number = minutes[k].number
           /\ Now(k).saved = minutes[k].saved
           /\ Now(k).status = IF k = m THEN "DRAFT" ELSE minutes[k].status
           /\ Now(k).active <=>
                 \/ k = m
                 \/ minutes[k].active /\ minutes[k].script # minutes[m].script
    <3> TAKE k \in MinuteIds
    <3>0. minutes[k] \in Minute
      BY <2>2
    <3>1. CASE k = m
      <4>1. Now(k) = [minutes[k] EXCEPT !.status = "DRAFT", !.active = TRUE]
        BY <3>1
      <4>2. Now(k).active = TRUE
        BY <3>0, <4>1 DEF Minute
      <4>. QED
        BY <3>0, <3>1, <4>1, <4>2 DEF Minute
    <3>2. CASE k # m /\ minutes[k].script = minutes[m].script
      <4>1. Now(k) = [minutes[k] EXCEPT !.active = FALSE]
        BY <3>2
      <4>. QED
        BY <3>0, <3>2, <4>1 DEF Minute
    <3>3. CASE k # m /\ minutes[k].script # minutes[m].script
      <4>1. Now(k) = minutes[k]
        BY <3>3
      <4>. QED
        BY <3>3, <4>1
    <3>. QED
      BY <3>1, <3>2, <3>3
  <2>. HIDE DEF Now
  <2>5. minutes' \in Seq(Minute) /\ Len(minutes') = Len(minutes) /\ MinuteIds' = MinuteIds
    <3>1. minutes' \in [1..Len(minutes) -> Minute]
      BY <2>1, <2>3 DEF MinuteIds
    <3>. QED
      BY <2>2, <3>1, FunctionIsSeq DEF MinuteIds
  <2>6. \A k \in MinuteIds :
           /\ minutes'[k].script = minutes[k].script
           /\ minutes'[k].number = minutes[k].number
           /\ minutes'[k].saved = minutes[k].saved
           /\ minutes'[k].status = IF k = m THEN "DRAFT" ELSE minutes[k].status
           /\ minutes'[k].active <=>
                 \/ k = m
                 \/ minutes[k].active /\ minutes[k].script # minutes[m].script
    BY <2>1, <2>4
  <2>7. ASSUME NEW q \in Proc PROVE Writing(q)' /\ Exporting(q)'
    <3>1. CASE q = p
      BY <1>0, <2>1, <2>5, <3>1 DEF Writing, Exporting, MinuteSteps
    <3>2. CASE q # p
      <4>1. at'[q] = at[q] /\ about'[q] = about[q] /\ Writing(q) /\ Exporting(q)
        BY <1>0, <3>2 DEF Alone, MinuteInv
      <4>2. at[q] \in MinuteSteps => about[q] # m
        BY <1>0, <3>2 DEF MinuteInv, AloneIn, MinuteSteps
      <4>. QED
        BY <2>5, <2>6, <4>1, <4>2 DEF Writing, Exporting
    <3>. QED
      BY <3>1, <3>2
  <2>8. AloneIn(MinuteSteps)'
    BY <1>0, <2>1 DEF MinuteInv, AloneIn, Alone, MinuteSteps
  <2>9. CurrentMinutes' = {m} \cup {k \in CurrentMinutes : minutes[k].script # minutes[m].script}
    <3>. DEFINE C == {m} \cup {k \in CurrentMinutes : minutes[k].script # minutes[m].script}
    <3>1. ASSUME NEW k PROVE k \in CurrentMinutes' <=> k \in C
      <4>1. k \in CurrentMinutes' <=> k \in MinuteIds /\ minutes'[k].active
        BY <2>5 DEF CurrentMinutes
      <4>2. k \in C <=> \/ k = m
                       \/ /\ k \in MinuteIds /\ minutes[k].active
                          /\ minutes[k].script # minutes[m].script
        BY DEF CurrentMinutes
      <4>. QED
        BY <1>0, <2>6, <4>1, <4>2
    <3>. QED
      BY <3>1
  <2>10. MinutesWhole'
    <3>1. \A k \in CurrentMinutes : minutes[k].script # minutes[m].script
                                       => minutes[k].number # minutes[m].number
      BY <1>2 DEF NumberTaken, CurrentMinutes
    <3>2. \A k \in CurrentMinutes : k \in MinuteIds
      BY DEF CurrentMinutes
    <3>3. \A j, k \in CurrentMinutes' :
             minutes'[j].script = minutes'[k].script \/ minutes'[j].number = minutes'[k].number
               => j = k
      BY <1>0, <2>6, <2>9, <3>1, <3>2 DEF MinuteInv, MinutesWhole
    <3>4. \A k \in CurrentMinutes' : /\ minutes'[k].status = "DRAFT" /\ minutes'[k].saved
                                      /\ minutes'[k].number # Unnumbered
      BY <1>0, <2>6, <2>9, <3>2 DEF MinuteInv, MinutesWhole
    <3>. QED
      BY <3>3, <3>4 DEF MinutesWhole
  <2>11. OneNumber'
    BY <2>5, <2>6 DEF MinuteInv, OneNumber
  <2>12. Counted'
    <3>1. NumberedScripts' = NumberedScripts
      BY <2>5, <2>6 DEF NumberedScripts, NumberedOf, MinutesOf
    <3>. QED
      BY <2>5, <2>6, <3>1 DEF MinuteInv, Counted
  <2>13. KeptWhole
    BY <1>0, <2>6, <2>9 DEF KeptWhole, CurrentMinutes
  <2>. QED
    BY <2>5, <2>7, <2>8, <2>10, <2>11, <2>12, <2>13 DEF MinuteInv
<1>. QED
  BY <1>1, <1>2

-----------------------------------------------------------------------------
(* Every step *)

\* The transcription, and what happens to the audio and the clock.
LEMMA MinutesLeftAlone ==
  ASSUME MinuteInv, RestTyped, UNCHANGED minutes,
         \/ \E p \in Proc : Transcribing(p)
         \/ UNCHANGED <<at, about>>
  PROVE  MinuteInv' /\ KeptWhole
<1>1. CASE UNCHANGED <<at, about>>
  <2>1. \A q \in Proc : Writing(q)' /\ Exporting(q)'
    BY <1>1 DEF MinuteInv, Writing, Exporting, MinuteIds
  <2>2. AloneIn(MinuteSteps)'
    BY <1>1 DEF MinuteInv, AloneIn
  <2>3. MinutesWhole' /\ OneNumber' /\ Counted' /\ KeptWhole
    BY DEF MinuteInv, MinutesWhole, CurrentMinutes, MinuteIds, OneNumber, Counted,
           NumberedScripts, NumberedOf, MinutesOf, KeptWhole
  <2>. QED
    BY <2>1, <2>2, <2>3 DEF MinuteInv
<1>2. ASSUME NEW p \in Proc, Transcribing(p) PROVE MinuteInv' /\ KeptWhole
  <2>1. Alone(p) /\ at'[p] \notin MinuteSteps \cup ExportSteps
    <3>1. CASE \/ BeginTranscription(p) \/ BuildCopy(p) \/ SaveCopy(p) \/ EnsureVad(p)
               \/ SaveVad(p) \/ StopEarly(p) \/ CutOff(p)
      BY <3>1 DEF BeginTranscription, BuildCopy, SaveCopy, EnsureVad, SaveVad, StopEarly,
         CutOff, RestTyped, Move, Finish, Alone, MinuteSteps, ExportSteps
    <3>2. CASE Open(p) \/ Decode(p) \/ SecondPass(p) \/ SaveSegments(p)
      BY <3>2 DEF Open, Decode, SecondPass, SaveSegments, RestTyped, Move, Alone,
         MinuteSteps, ExportSteps
    <3>3. CASE Activate(p) \/ FailTranscript(p)
      BY <3>3 DEF Activate, FailTranscript, RestTyped, Move, Finish, Alone, MinuteSteps,
         ExportSteps
    <3>. QED
      BY <1>2, <3>1, <3>2, <3>3 DEF Transcribing, TranscriptionStep
  <2>. QED
    BY <2>1, MinutesUntouched
<1>. QED
  BY <1>1, <1>2

LEMMA MinutesStepKeeps ==
  ASSUME ScriptInv, MinuteInv, RestTyped, NEW p \in Proc,
         BeginMinutes(p) \/ BeginExport(p) \/ MinutesStep(p)
  PROVE  MinuteInv' /\ KeptWhole
<1>1. CASE BeginMinutes(p)
  BY <1>1, MinuteBegun
<1>2. CASE SaveResult(p) \/ FailMinute(p)
  BY <1>2, MinuteSaved
<1>3. CASE AssignNumber(p)
  BY <1>3, MinuteNumbered
<1>4. CASE ActivateMinute(p)
  BY <1>4, MinuteActivated
<1>5. CASE BeginExport(p)
  <2>1. Found \subseteq MinuteIds
    BY DEF Found, MinutesOf
  <2>2. UNCHANGED minutes /\ at'[p] = "export" /\ about'[p] \in Found /\ Alone(p)
    BY <1>5 DEF BeginExport, minuteVars, RestTyped, Move, Alone
  <2>. QED
    BY <2>1, <2>2, MinutesUntouched DEF MinuteSteps
<1>6. CASE WriteExport(p) \/ RecordExport(p)
  <2>1. UNCHANGED minutes /\ Alone(p)
    BY <1>6 DEF WriteExport, RecordExport, RestTyped, Move, Finish, Alone
  <2>2. at'[p] = "idle" \/ (at'[p] = "record" /\ about' = about /\ at[p] = "export")
    BY <1>6 DEF WriteExport, RecordExport, RestTyped, Move, Finish
  <2>. QED
    BY <2>1, <2>2, MinutesUntouched DEF MinuteSteps, ExportSteps, MinuteInv, Exporting
<1>. QED
  BY <1>1, <1>2, <1>3, <1>4, <1>5, <1>6 DEF MinutesStep

\* A current transcript is taken over by the one that becomes current.
LEMMA TranscriptsStep ==
  ASSUME IInv, [Next]_vars
  PROVE  ScriptInv' /\ (CurrentScripts # {} => CurrentScripts' # {})
<1>. USE DEF IInv
<1>1. ASSUME UNCHANGED <<scripts, at, about>> PROVE ScriptInv' /\ UNCHANGED CurrentScripts
  BY <1>1 DEF ScriptInv, Building, AloneIn, ScriptsWhole, CurrentScripts, Revisions
<1>2. ASSUME NEW p \in Proc, Open(p) PROVE UNCHANGED CurrentScripts
  <2>1. scripts' = Append(scripts, NewScript) /\ scripts \in Seq(Script)
    BY <1>2 DEF Open, ScriptInv
  <2>2. NewScript \in Script /\ ~NewScript.active
    BY DEF NewScript, Script
  <2>. QED
    BY <2>1, <2>2, AppendProperties, LenProperties DEF CurrentScripts, Revisions
<1>3. ASSUME NEW p \in Proc, Transcribing(p)
      PROVE  ScriptInv' /\ (CurrentScripts # {} => CurrentScripts' # {})
  <2>1. CASE Open(p)
    BY <1>2, <2>1, ScriptOpened
  <2>2. CASE Activate(p)
    BY <2>2, ScriptActivated
  <2>3. CASE Decode(p) \/ SecondPass(p) \/ SaveSegments(p) \/ FailTranscript(p)
    BY <2>3, TranscriptWritten
  <2>4. CASE \/ BeginTranscription(p) \/ BuildCopy(p) \/ SaveCopy(p) \/ EnsureVad(p)
             \/ SaveVad(p) \/ StopEarly(p) \/ CutOff(p)
    BY <2>4, TranscriptsUntouched DEF CurrentScripts, Revisions
  <2>. QED
    BY <1>3, <2>1, <2>2, <2>3, <2>4 DEF Transcribing, TranscriptionStep
<1>4. ASSUME NEW p \in Proc, BeginMinutes(p) \/ BeginExport(p) \/ MinutesStep(p)
      PROVE  ScriptInv' /\ (CurrentScripts # {} => CurrentScripts' # {})
  BY <1>4, TranscriptsUntouched DEF CurrentScripts, Revisions
<1>5. CASE (MasterChanges \/ LoseCopy) \/ MonthEnds \/ UNCHANGED vars
  BY <1>1, <1>5 DEF MasterChanges, LoseCopy, MonthEnds, vars, scriptVars, runVars
<1>. QED
  BY <1>3, <1>4, <1>5 DEF Next

LEMMA MinutesKept ==
  ASSUME IInv, [Next]_vars
  PROVE  MinuteInv' /\ KeptWhole
<1>. USE DEF IInv
<1>1. ASSUME NEW p \in Proc, Transcribing(p) PROVE MinuteInv' /\ KeptWhole
  BY <1>1, MinutesLeftAlone DEF Transcribing, minuteVars
<1>2. ASSUME NEW p \in Proc, BeginMinutes(p) \/ BeginExport(p) \/ MinutesStep(p)
      PROVE  MinuteInv' /\ KeptWhole
  BY <1>2, MinutesStepKeeps
<1>3. CASE (MasterChanges \/ LoseCopy) /\ UNCHANGED minuteVars
  BY <1>3, MinutesLeftAlone DEF MasterChanges, LoseCopy, minuteVars, runVars
<1>4. CASE MonthEnds \/ UNCHANGED vars
  BY <1>4, MinutesLeftAlone DEF MonthEnds, vars, scriptVars, runVars, minuteVars
<1>. QED
  BY <1>1, <1>2, <1>3, <1>4 DEF Next

LEMMA RestStaysTyped ==
  ASSUME IInv, [Next]_vars
  PROVE  RestTyped'
<1>. USE DEF IInv
<1>0. /\ MaxChanges \in Nat /\ MaxCuts \in Nat /\ MaxScripts \in Nat /\ MaxMinutes \in Nat
      /\ MaxMonth \in Nat \ {0} /\ Len(scripts') \in Nat /\ Len(minutes') \in Nat
  BY TranscriptsAssumption, MinutesAssumption, TranscriptsStep, MinutesKept, LenProperties
     DEF ScriptInv, MinuteInv
<1>1. ASSUME NEW p \in Proc, Transcribing(p) PROVE RestTyped'
  <2>1. UNCHANGED <<month, exports, master>>
    BY <1>1 DEF Transcribing, TranscriptionStep, BeginTranscription, BuildCopy, SaveCopy,
       EnsureVad, SaveVad, StopEarly, Open, Decode, SecondPass, SaveSegments, Activate,
       FailTranscript, CutOff, minuteVars, copyVars
  <2>2. cuts' \in 0..MaxCuts
    <3>1. CASE CutOff(p)
      BY <1>0, <3>1 DEF CutOff, RestTyped
    <3>2. CASE ~CutOff(p)
      BY <1>1, <3>2 DEF Transcribing, TranscriptionStep, BeginTranscription, BuildCopy,
         SaveCopy, EnsureVad, SaveVad, StopEarly, Open, Decode, SecondPass, SaveSegments,
         Activate, FailTranscript, RestTyped
    <3>. QED
      BY <3>1, <3>2
  <2>3. about' \in [Proc -> Nat]
    <3>1. \/ UNCHANGED about \/ about' = [about EXCEPT ![p] = 0]
          \/ about' = [about EXCEPT ![p] = Len(scripts')]
      BY <1>1 DEF Transcribing, TranscriptionStep, BeginTranscription, BuildCopy,
         SaveCopy, EnsureVad, SaveVad, StopEarly, Open, Decode, SecondPass, SaveSegments,
         Activate, FailTranscript, CutOff, Finish
    <3>. QED
      BY <1>0, <3>1 DEF RestTyped
  <2>4. at' \in [Proc -> Steps]
    BY <1>1 DEF Transcribing, TranscriptionStep, BeginTranscription, BuildCopy,
       SaveCopy, EnsureVad, SaveVad, StopEarly, Open, Decode, SecondPass, SaveSegments,
       Activate, FailTranscript, CutOff, Finish, Move, RestTyped, Steps
  <2>5. /\ {file', copyRow', vad'} \subseteq Versions \cup {None}
        /\ seen' \in [Proc -> Versions \cup {None}]
    BY <1>1 DEF Transcribing, TranscriptionStep, BeginTranscription, BuildCopy,
       SaveCopy, EnsureVad, SaveVad, StopEarly, Open, Decode, SecondPass, SaveSegments,
       Activate, FailTranscript, CutOff, Finish, RestTyped, copyVars
  <2>. QED
    BY <2>1, <2>2, <2>3, <2>4, <2>5 DEF RestTyped
<1>2. ASSUME NEW p \in Proc, BeginMinutes(p) \/ BeginExport(p) \/ MinutesStep(p)
      PROVE  RestTyped'
  <2>1. UNCHANGED <<master, file, copyRow, vad, cuts, month>>
    BY <1>2 DEF BeginMinutes, BeginExport, MinutesStep, SaveResult, AssignNumber,
       ActivateMinute, FailMinute, WriteExport, RecordExport, copyVars, minuteVars
  <2>2. at' \in [Proc -> Steps] /\ seen' \in [Proc -> Versions \cup {None}]
    BY <1>2 DEF BeginMinutes, BeginExport, MinutesStep, SaveResult, AssignNumber,
       ActivateMinute, FailMinute, WriteExport, RecordExport, Finish, Move, RestTyped, Steps
  <2>3. about' \in [Proc -> Nat]
    <3>1. Found \subseteq Nat
      BY DEF Found, MinutesOf, MinuteIds
    <3>2. UNCHANGED about \/ \E x \in Found \cup {0, Len(minutes')} :
                                 about' = [about EXCEPT ![p] = x]
      BY <1>2 DEF BeginMinutes, BeginExport, MinutesStep, SaveResult, AssignNumber,
         ActivateMinute, FailMinute, WriteExport, RecordExport, Finish
    <3>3. Found \cup {0, Len(minutes')} \subseteq Nat
      <4>1. Len(minutes') \in Nat
        BY <1>0
      <4>2. {0, Len(minutes')} \subseteq Nat
        BY <4>1
      <4>. QED
        BY <3>1, <4>2, Zenon
    <3>5. about \in [Proc -> Nat]
      BY <1>0 DEF RestTyped
    <3>4. \A x \in Nat : [about EXCEPT ![p] = x] \in [Proc -> Nat]
      BY <3>5
    <3>. QED
      BY <3>2, <3>3, <3>4, <3>5
  <2>4. exports' \in [1..MaxMinutes -> 0..MaxMinutes]
    <3>1. CASE RecordExport(p)
      <4>1. about[p] \in MinuteIds
        BY <3>1 DEF RecordExport, MinuteInv, Exporting, ExportSteps
      <4>2. about[p] \in 0..MaxMinutes
        BY <1>0, <4>1, LenProperties DEF MinuteInv, MinuteIds
      <4>. QED
        BY <3>1, <4>2 DEF RecordExport, RestTyped
    <3>2. CASE ~RecordExport(p)
      BY <1>2, <3>2 DEF BeginMinutes, BeginExport, MinutesStep, SaveResult, AssignNumber,
         ActivateMinute, FailMinute, WriteExport, RestTyped, minuteVars
    <3>. QED
      BY <3>1, <3>2
  <2>. QED
    BY <2>1, <2>2, <2>3, <2>4 DEF RestTyped
<1>3. CASE MasterChanges /\ UNCHANGED minuteVars
  BY <1>0, <1>3 DEF MasterChanges, RestTyped, Versions, minuteVars, runVars
<1>4. CASE LoseCopy /\ UNCHANGED minuteVars
  BY <1>0, <1>4 DEF LoseCopy, RestTyped, minuteVars, runVars
<1>5. CASE MonthEnds
  BY <1>0, <1>5 DEF MonthEnds, RestTyped, scriptVars, copyVars, runVars
<1>6. CASE UNCHANGED vars
  BY <1>6 DEF vars, scriptVars, copyVars, runVars, minuteVars, RestTyped
<1>. QED
  BY <1>1, <1>2, <1>3, <1>4, <1>5, <1>6 DEF Next

LEMMA Begins == Init => IInv
<1> SUFFICES ASSUME Init PROVE IInv
  OBVIOUS
<1>. USE DEF Init, TranscriptsInit
<1>1. ScriptInv
  BY EmptySeq, TranscriptsAssumption
     DEF ScriptInv, Building, AloneIn, ScriptSteps, ScriptsWhole, CurrentScripts, Revisions
<1>2. MinuteInv
  BY EmptySeq, MinutesAssumption
     DEF MinuteInv, Writing, Exporting, MinuteSteps, ExportSteps, AloneIn, MinutesWhole,
         CurrentMinutes, OneNumber, Counted, MinuteIds
<1>3. RestTyped
  BY TranscriptsAssumption, MinutesAssumption DEF RestTyped, Steps, Versions, None
<1>. QED
  BY <1>1, <1>2, <1>3 DEF IInv

LEMMA Inductive == Spec => []IInv
<1>1. IInv /\ [Next]_vars => IInv'
  BY TranscriptsStep, MinutesKept, RestStaysTyped DEF IInv
<1>. QED
  BY Begins, <1>1, PTL DEF Spec

-----------------------------------------------------------------------------
(* The state of the pipelines has its type. *)
THEOREM PipelinesTyped == Spec => []TypeOK
<1>1. IInv => TypeOK
  <2>1. ASSUME IInv PROVE TypeOK
    BY <2>1 DEF IInv, ScriptInv, MinuteInv, RestTyped, TypeOK, ScriptsTypeOK, Script,
       Minute, Steps
  <2>. QED
    BY <2>1
<1>. QED
  BY <1>1, Inductive, PTL

(* activate_transcript and activate_minute, by any number of runs that fail   *)
(* or are cut off anywhere: what is current is alone, finished and saved.     *)
THEOREM CurrentStaysWhole == Spec => []CurrentIsWhole
<1>1. ASSUME IInv PROVE CurrentIsWhole
  <2>1. Cardinality(CurrentScripts) <= 1
    <3>1. CASE CurrentScripts = {}
      BY <3>1, FS_EmptySet
    <3>2. CASE CurrentScripts # {}
      <4>1. PICK r \in CurrentScripts : TRUE
        BY <3>2
      <4>2. CurrentScripts = {r}
        BY <1>1, <4>1 DEF IInv, ScriptInv, ScriptsWhole
      <4>. QED
        BY <4>2, FS_Singleton
    <3>. QED
      BY <3>1, <3>2
  <2>. QED
    BY <1>1, <2>1 DEF IInv, ScriptInv, MinuteInv, ScriptsWhole, MinutesWhole, CurrentIsWhole
<1>2. IInv => CurrentIsWhole
  BY <1>1
<1>. QED
  BY <1>2, Inductive, PTL

(* A run that fails, is cancelled or is cut off takes nothing current away:   *)
(* the old revision is put aside by the step that makes the new one current.  *)
THEOREM CurrentIsKept == Spec => NothingCurrentIsLost
<1>1. IInv /\ [Next]_vars
        => [/\ CurrentScripts # {} => CurrentScripts' # {}
            /\ \A m \in CurrentMinutes :
                  \E n \in CurrentMinutes' : minutes'[n].script = minutes[m].script]_vars
  BY TranscriptsStep, MinutesKept DEF KeptWhole
<1>. QED
  BY <1>1, Inductive, PTL DEF Spec, NothingCurrentIsLost

(* assign_document_number: a filing number is given once, is inherited by the *)
(* later revisions of the transcript, and is on one current minute at most.   *)
THEOREM NumbersStay == Spec => NumbersAreFinal
<1>1. ASSUME IInv, [Next]_vars
      PROVE  /\ \A m \in MinuteIds : minutes[m].number # Unnumbered
                                          => minutes'[m].number = minutes[m].number
             /\ \A m, n \in MinuteIds' :
                   /\ minutes'[m].script = minutes'[n].script
                   /\ Unnumbered \notin {minutes'[m].number, minutes'[n].number}
                   => minutes'[m].number = minutes'[n].number
             /\ \A m, n \in CurrentMinutes' :
                   minutes'[m].number = minutes'[n].number => m = n
  BY <1>1, MinutesKept DEF KeptWhole, MinuteInv, OneNumber, MinutesWhole
<1>. QED
  BY <1>1, Inductive, PTL DEF Spec, NumbersAreFinal

-----------------------------------------------------------------------------
(* The minute: one item *)

Texts == {c.text : c \in Claims}

\* An item, as verify_items leaves it.
ItemRecord ==
    [kind : {"DECISION", "ACTION", "DISCUSSION", "ISSUE"}, text : Texts, quote : Nat,
     segments : SUBSET Nat, verification : {"VERIFIED", "REBOUND", "UNVERIFIED"}]

\* What an item quotes, it cites, and it has been read.
Evident(x, read) == x.verification # "UNVERIFIED" => x.quote \in x.segments \cap read

\* What NothingExtractedIsLost asks of the item that stands for another.
StandsFor(x, y) ==
    /\ x.kind = y.kind /\ y.segments \subseteq x.segments
    /\ Cardinality(x.text) >= Cardinality(y.text)
    /\ Strength[x.verification] >= Strength[y.verification]

\* Two of the items c of this kind were written with the same quote.
Quoted(c, kind) ==
    \E j, k \in DOMAIN c :
      j # k /\ c[j].kind = kind /\ c[k].kind = kind /\ c[j].quote = c[k].quote

\* What one says the other says, or it was folded for its quote.
Says(x, y, c) == y.text \subseteq x.text \/ Quoted(c, x.kind)

\* An item consists of what the first n of the items c consist of.
MadeOf(x, c, n) ==
    /\ \E i \in 1..n : c[i].kind = x.kind /\ c[i].text = x.text
    /\ \E i \in 1..n :
          c[i].kind = x.kind /\ c[i].quote = x.quote /\ c[i].verification = x.verification
    /\ \A s \in x.segments : \E i \in 1..n : c[i].kind = x.kind /\ s \in c[i].segments

LEMMA TextsAreFinite == \A t \in Texts : Cardinality(t) \in Nat
BY DraftingAssumption, FS_CardinalityType DEF Texts

LEMMA StrengthType == \A v \in {"VERIFIED", "REBOUND", "UNVERIFIED"} : Strength[v] \in Nat
BY DEF Strength

LEMMA ItemStandsForItself == ASSUME NEW x \in ItemRecord PROVE StandsFor(x, x)
BY TextsAreFinite, StrengthType DEF StandsFor, ItemRecord

LEMMA StandsForTransitive ==
  ASSUME NEW x \in ItemRecord, NEW y \in ItemRecord, NEW z \in ItemRecord,
         StandsFor(x, y), StandsFor(y, z)
  PROVE  StandsFor(x, z)
<1>1. /\ {x.text, y.text, z.text} \subseteq Texts
      /\ {x.verification, y.verification, z.verification}
            \subseteq {"VERIFIED", "REBOUND", "UNVERIFIED"}
  BY DEF ItemRecord
<1>2. /\ Cardinality(x.text) \in Nat /\ Cardinality(y.text) \in Nat /\ Cardinality(z.text) \in Nat
      /\ Strength[x.verification] \in Nat /\ Strength[y.verification] \in Nat
      /\ Strength[z.verification] \in Nat
  BY <1>1, TextsAreFinite, StrengthType
<1>. QED
  BY <1>2 DEF StandsFor

\* Of two copies the merged item has the longer text, the stronger evidence and the
\* citations of both.
LEMMA MergedIsBoth ==
  ASSUME NEW x \in ItemRecord, NEW y \in ItemRecord, x.kind = y.kind
  PROVE  /\ Merged(x, y) \in ItemRecord
         /\ StandsFor(Merged(x, y), x) /\ StandsFor(Merged(x, y), y)
         /\ Evident(x, covered) /\ Evident(y, covered) => Evident(Merged(x, y), covered)
<1>. DEFINE s == IF Strength[x.verification] >= Strength[y.verification] THEN x ELSE y
            t == IF Cardinality(x.text) >= Cardinality(y.text) THEN x.text ELSE y.text
            m == [kind |-> x.kind, text |-> t, quote |-> s.quote,
                  verification |-> s.verification, segments |-> x.segments \union y.segments]
<1>1. Merged(x, y) = m
  BY DEF Merged
<1>2. /\ x.text \in Texts /\ y.text \in Texts
      /\ x.verification \in {"VERIFIED", "REBOUND", "UNVERIFIED"}
      /\ y.verification \in {"VERIFIED", "REBOUND", "UNVERIFIED"}
      /\ x.quote \in Nat /\ y.quote \in Nat /\ x.segments \subseteq Nat /\ y.segments \subseteq Nat
      /\ x.kind \in {"DECISION", "ACTION", "DISCUSSION", "ISSUE"}
  BY DEF ItemRecord
<1>3. /\ Cardinality(x.text) \in Nat /\ Cardinality(y.text) \in Nat
      /\ Strength[x.verification] \in Nat /\ Strength[y.verification] \in Nat
  BY <1>2, TextsAreFinite, StrengthType
<1>4. /\ s \in {x, y}
      /\ Strength[s.verification] >= Strength[x.verification]
      /\ Strength[s.verification] >= Strength[y.verification]
  BY <1>3
<1>5. /\ t \in Texts /\ Cardinality(t) >= Cardinality(x.text)
      /\ Cardinality(t) >= Cardinality(y.text)
  BY <1>2, <1>3
<1>. HIDE DEF s, t
<1>6. m \in ItemRecord
  BY <1>2, <1>4, <1>5 DEF ItemRecord
<1>7. StandsFor(m, x) /\ StandsFor(m, y)
  BY <1>4, <1>5 DEF StandsFor
<1>8. Evident(x, covered) /\ Evident(y, covered) => Evident(m, covered)
  BY <1>4 DEF Evident
<1>. QED
  BY <1>1, <1>6, <1>7, <1>8

\* When one text holds the other, the merged item says both.
LEMMA MergedSaysBoth ==
  ASSUME NEW x \in ItemRecord, NEW y \in ItemRecord, Holds(x, y)
  PROVE  x.text \subseteq Merged(x, y).text /\ y.text \subseteq Merged(x, y).text
<1>1. Merged(x, y).text = IF Cardinality(x.text) >= Cardinality(y.text) THEN x.text ELSE y.text
  BY DEF Merged
<1>2. IsFiniteSet(x.text) /\ IsFiniteSet(y.text)
  BY DraftingAssumption DEF ItemRecord, Texts
<1>3. Cardinality(x.text) \in Nat /\ Cardinality(y.text) \in Nat
  BY <1>2, FS_CardinalityType
<1>4. CASE x.text \subseteq y.text
  <2>1. Cardinality(x.text) <= Cardinality(y.text)
           /\ (Cardinality(x.text) = Cardinality(y.text) => x.text = y.text)
    BY <1>2, <1>4, FS_Subset
  <2>. QED
    BY <1>1, <1>3, <1>4, <2>1
<1>5. CASE y.text \subseteq x.text
  <2>1. Cardinality(y.text) <= Cardinality(x.text)
    BY <1>2, <1>5, FS_Subset
  <2>. QED
    BY <1>1, <1>3, <1>5, <2>1
<1>. QED
  BY <1>4, <1>5 DEF Holds

\* The merged item has nothing that neither of the two has.
LEMMA MergedIsMadeOfBoth ==
  ASSUME NEW c, NEW n \in Nat, NEW x, NEW y, x.kind = y.kind,
         MadeOf(x, c, n), MadeOf(y, c, n)
  PROVE  MadeOf(Merged(x, y), c, n)
<1>. DEFINE m == Merged(x, y)
<1>1. /\ m.kind = x.kind /\ m.text \in {x.text, y.text}
      /\ m.segments = x.segments \union y.segments
      /\ \/ m.quote = x.quote /\ m.verification = x.verification
         \/ m.quote = y.quote /\ m.verification = y.verification
  BY DEF Merged
<1>. HIDE DEF m
<1>2. \E i \in 1..n : c[i].kind = m.kind /\ c[i].text = m.text
  BY <1>1 DEF MadeOf
<1>3. \E i \in 1..n :
         c[i].kind = m.kind /\ c[i].quote = m.quote /\ c[i].verification = m.verification
  BY <1>1 DEF MadeOf
<1>4. \A s \in m.segments : \E i \in 1..n : c[i].kind = m.kind /\ s \in c[i].segments
  BY <1>1 DEF MadeOf
<1>. QED
  BY <1>2, <1>3, <1>4 DEF MadeOf, m

-----------------------------------------------------------------------------
(* The minute: folding one item in *)

\* An item of list stands for x, and says what it says or was folded for its quote.
IsKept(list, x, c) == \E k \in DOMAIN list : StandsFor(list[k], x) /\ Says(list[k], x, c)

\* Folding the next item into a list made of those before it loses neither the item nor
\* any of the list, and adds nothing else.
LEMMA FoldedIn ==
  ASSUME NEW c \in Seq(ItemRecord), NEW n \in DOMAIN c, NEW list \in Seq(ItemRecord),
         \A j \in DOMAIN list : MadeOf(list[j], c, n - 1)
  PROVE  LET l == Fold(list, c[n])
         IN  /\ l \in Seq(ItemRecord)
             /\ IsKept(l, c[n], c) /\ \A j \in DOMAIN list : IsKept(l, list[j], c)
             /\ \A j \in DOMAIN l : MadeOf(l[j], c, n)
             /\ Evident(c[n], covered) /\ (\A j \in DOMAIN list : Evident(list[j], covered))
                   => \A j \in DOMAIN l : Evident(l[j], covered)
<1>. DEFINE x == c[n]
            holding == {k \in DOMAIN list : Comparable(list[k], x) /\ Holds(list[k], x)}
            quoting == {k \in DOMAIN list : Comparable(list[k], x) /\ SameWords(list[k], x)}
<1>0. /\ DOMAIN list = 1..Len(list) /\ Len(list) \in Nat /\ n \in 1..n /\ n \in Nat
      /\ \A k \in DOMAIN list : list[k] \in ItemRecord
      /\ x \in ItemRecord
  OBVIOUS
<1>m. MadeOf(x, c, n) /\ \A y : MadeOf(y, c, n - 1) => MadeOf(y, c, n)
  <2>1. \A i \in 1..(n - 1) : i \in 1..n
    BY <1>0
  <2>. QED
    BY <1>0, <2>1 DEF MadeOf
<1>s. \A y : StandsFor(y, y) => StandsFor(y, y) /\ Says(y, y, c)
  BY DEF Says
<1>1. CASE holding \union quoting = {}
  <2>1. Fold(list, x) = Append(list, x)
    BY <1>1 DEF Fold
  <2>. DEFINE l == Append(list, x)
  <2>2. /\ l \in Seq(ItemRecord) /\ DOMAIN l = 1..(Len(list) + 1) /\ l[Len(list) + 1] = x
        /\ \A j \in DOMAIN list : l[j] = list[j]
    BY <1>0
  <2>. HIDE DEF l, holding, quoting, x
  <2>3. Len(list) + 1 \in DOMAIN l /\ StandsFor(l[Len(list) + 1], x)
    BY <1>0, <2>2, ItemStandsForItself
  <2>4. \A j \in DOMAIN list : j \in DOMAIN l /\ StandsFor(l[j], list[j])
    BY <1>0, <2>2, ItemStandsForItself
  <2>5. ASSUME NEW j \in DOMAIN l, j \notin DOMAIN list PROVE l[j] = x
    <3>1. j = Len(list) + 1
      BY <1>0, <2>2, <2>5
    <3>. QED
      BY <2>2, <3>1
  <2>6. IsKept(l, x, c) /\ \A j \in DOMAIN list : IsKept(l, list[j], c)
    BY <1>s, <2>2, <2>3, <2>4 DEF IsKept, Says
  <2>7. \A j \in DOMAIN l : MadeOf(l[j], c, n)
    BY <1>m, <2>2, <2>5
  <2>. QED
    BY <2>1, <2>2, <2>5, <2>6, <2>7 DEF l, x
<1>2. CASE holding \union quoting # {}
  <2>. DEFINE k == IF holding # {} THEN Min(holding) ELSE Max(quoting)
              l == [list EXCEPT ![k] = Merged(list[k], x)]
  <2>1. Fold(list, x) = l
    BY <1>2 DEF Fold
  <2>2. k \in holding \union quoting
    <3>1. holding \in SUBSET Nat /\ quoting \in SUBSET Nat /\ \A j \in quoting : j <= Len(list)
      BY <1>0
    <3>. HIDE DEF holding, quoting
    <3>2. CASE holding # {}
      BY <3>1, <3>2, LeastNumber DEF Min
    <3>3. CASE holding = {}
      <4>1. quoting # {}
        BY <1>2, <3>3
      <4>2. \E i \in quoting : \A j \in quoting : j <= i
        BY <1>0, <3>1, <4>1, GreatestNumber
      <4>3. \E i \in quoting : \A j \in quoting : i >= j
        BY <3>1, <4>2
      <4>. QED
        BY <3>3, <4>3 DEF Max
    <3>. QED
      BY <3>2, <3>3
  <2>3. /\ k \in DOMAIN list /\ list[k].kind = x.kind
        /\ Holds(list[k], x) \/ list[k].quote = x.quote
    BY <2>2 DEF Comparable, SameWords
  <2>. HIDE DEF k, holding, quoting
  <2>4. /\ Merged(list[k], x) \in ItemRecord
        /\ StandsFor(Merged(list[k], x), list[k]) /\ StandsFor(Merged(list[k], x), x)
        /\ Evident(list[k], covered) /\ Evident(x, covered) => Evident(Merged(list[k], x), covered)
    BY <1>0, <2>3, MergedIsBoth
  <2>5. /\ l \in Seq(ItemRecord) /\ DOMAIN l = DOMAIN list /\ l[k] = Merged(list[k], x)
        /\ \A j \in DOMAIN list : j # k => l[j] = list[j]
    BY <1>0, <2>3, <2>4
  <2>6. Says(Merged(list[k], x), list[k], c) /\ Says(Merged(list[k], x), x, c)
    <3>1. CASE Holds(list[k], x)
      BY <1>0, <2>3, <3>1, MergedSaysBoth DEF Says
    <3>2. CASE list[k].quote = x.quote
      <4>1. PICK i \in 1..(n - 1) : c[i].kind = list[k].kind /\ c[i].quote = list[k].quote
        BY <2>3 DEF MadeOf
      <4>2. i \in DOMAIN c /\ i # n
        BY <1>0, <4>1
      <4>3. Merged(list[k], x).kind = x.kind
        BY <2>3 DEF Merged
      <4>. QED
        BY <2>3, <3>2, <4>1, <4>2, <4>3 DEF Says, Quoted
    <3>. QED
      BY <2>3, <3>1, <3>2
  <2>7. MadeOf(Merged(list[k], x), c, n)
    BY <1>0, <1>m, <2>3, MergedIsMadeOfBoth
  <2>. HIDE DEF l, x
  <2>8. \A j \in DOMAIN list : IsKept(l, list[j], c)
    <3>1. \A j \in DOMAIN list : j # k => StandsFor(l[j], list[j]) /\ Says(l[j], list[j], c)
      BY <1>0, <2>5, ItemStandsForItself DEF Says
    <3>. QED
      BY <2>3, <2>4, <2>5, <2>6, <3>1 DEF IsKept
  <2>9. IsKept(l, x, c)
    BY <2>3, <2>4, <2>5, <2>6 DEF IsKept
  <2>10. \A j \in DOMAIN l : MadeOf(l[j], c, n)
    BY <1>m, <2>5, <2>7
  <2>11. Evident(x, covered) /\ (\A j \in DOMAIN list : Evident(list[j], covered))
           => \A j \in DOMAIN l : Evident(l[j], covered)
    BY <2>3, <2>4, <2>5
  <2>. QED
    BY <2>1, <2>5, <2>8, <2>9, <2>10, <2>11 DEF x
<1>. QED
  BY <1>1, <1>2

-----------------------------------------------------------------------------
(* The minute: folding all items *)

\* The two steps that are folded over a list: an item into the items, a segment into the
\* windows.  The lemmas below are about either, for no lemma may be about any operator.
Step(how, list, x) == IF how = "fold" THEN Fold(list, x) ELSE Extend(list, x)

\* l[i] is what the first i of the entries of c come to.
Folding(how, base, l, c) ==
    /\ l[0] = base
    /\ \A i \in 1..Len(c) : l[i] = Step(how, l[i - 1], c[i])

\* f is the function that FoldLeft recurs through, on the first n places.
Iterates(how, base, f, c, n) ==
    f = [S \in SUBSET (1..n) |->
           IF S = {} THEN base ELSE Step(how, f[S \ {Max(S)}], c[Max(S)])]

\* The greatest index of a set is picked by Max, and there is one.
LEMMA GreatestIs ==
  ASSUME NEW n \in Nat, NEW S \in SUBSET (1..n), S # {}
  PROVE  /\ Max(S) \in S /\ \A i \in S : Max(S) >= i
         /\ n \in S => Max(S) = n
<1>1. S \in SUBSET Nat /\ \A i \in S : i <= n
  OBVIOUS
<1>2. \E i \in S : \A j \in S : j <= i
  BY <1>1, GreatestNumber
<1>3. \E i \in S : \A j \in S : i >= j
  BY <1>1, <1>2
<1>4. Max(S) \in S /\ \A i \in S : Max(S) >= i
  BY <1>3 DEF Max
<1>5. ASSUME n \in S PROVE Max(S) = n
  <2>1. Max(S) \in Nat /\ Max(S) >= n /\ Max(S) <= n
    BY <1>1, <1>4, <1>5
  <2>. HIDE DEF Max
  <2>. QED
    BY <2>1
<1>. QED
  BY <1>4, <1>5

\* A function for the first n - 1 items extends to one for n, and so there is one for all.
LEMMA IteratesOn ==
  ASSUME NEW how, NEW base, NEW c, NEW n \in Nat, n # 0, NEW f, Iterates(how, base, f, c, n - 1)
  PROVE  \E g : Iterates(how, base, g, c, n)
<1>. DEFINE g == [S \in SUBSET (1..n) |->
                   IF S = {} THEN base ELSE IF n \in S THEN Step(how, f[S \ {n}], c[n]) ELSE f[S]]
<1>0. n - 1 \in Nat /\ n \in 1..n
  OBVIOUS
<1>1. \A S \in SUBSET (1..n) : n \notin S => S \in SUBSET (1..(n - 1)) /\ g[S] = f[S]
  <2>1. f[{}] = base
    BY DEF Iterates
  <2>2. \A S \in SUBSET (1..n) : n \notin S => S \in SUBSET (1..(n - 1))
    OBVIOUS
  <2>. QED
    BY <2>1, <2>2
<1>2. ASSUME NEW S \in SUBSET (1..n), S # {}
      PROVE  g[S] = Step(how, g[S \ {Max(S)}], c[Max(S)])
  <2>1. CASE n \in S
    <3>1. Max(S) = n
      BY <1>2, <2>1, GreatestIs
    <3>2. g[S \ {n}] = f[S \ {n}]
      BY <1>1
    <3>3. g[S] = Step(how, f[S \ {n}], c[n])
      BY <2>1
    <3>. QED
      BY <3>1, <3>2, <3>3
  <2>2. CASE n \notin S
    <3>1. S \in SUBSET (1..(n - 1)) /\ g[S] = f[S]
      BY <1>1, <2>2
    <3>2. g[S \ {Max(S)}] = f[S \ {Max(S)}]
      BY <1>1, <2>2
    <3>3. f[S] = Step(how, f[S \ {Max(S)}], c[Max(S)])
      BY <1>2, <3>1 DEF Iterates
    <3>. QED
      BY <3>1, <3>2, <3>3
  <2>. QED
    BY <2>1, <2>2
<1>3. g = [S \in SUBSET (1..n) |->
             IF S = {} THEN base ELSE Step(how, g[S \ {Max(S)}], c[Max(S)])]
  <2>. DEFINE h == [S \in SUBSET (1..n) |->
                     IF S = {} THEN base ELSE Step(how, g[S \ {Max(S)}], c[Max(S)])]
  <2>1. \A S \in SUBSET (1..n) : g[S] = h[S]
    <3>1. g[{}] = base
      OBVIOUS
    <3>. HIDE DEF g
    <3>. QED
      BY <1>2, <3>1
  <2>2. DOMAIN g = SUBSET (1..n) /\ DOMAIN h = SUBSET (1..n) /\ g = [S \in DOMAIN g |-> g[S]]
        /\ h = [S \in DOMAIN h |-> h[S]]
    OBVIOUS
  <2>. HIDE DEF g, h
  <2>3. g = h
    BY <2>1, <2>2
  <2>. QED
    BY <2>3 DEF h
<1>. QED
  BY <1>3 DEF Iterates

LEMMA IteratesExists ==
  ASSUME NEW how, NEW base, NEW c, NEW n \in Nat PROVE \E f : Iterates(how, base, f, c, n)
<1>. DEFINE Bad == {k \in Nat : ~ \E f : Iterates(how, base, f, c, k)}
<1>1. SUFFICES ASSUME Bad # {} PROVE FALSE
  OBVIOUS
<1>2. PICK k \in Bad : \A j \in Bad : k <= j
  <2>1. Bad \in SUBSET Nat
    OBVIOUS
  <2>. HIDE DEF Bad
  <2>. QED
    BY <1>1, <2>1, LeastNumber
<1>3. k # 0
  <2>. DEFINE f == [S \in SUBSET (1..0) |-> base]
  <2>1. \A S \in SUBSET (1..0) : S = {}
    OBVIOUS
  <2>2. f = [S \in SUBSET (1..0) |->
               IF S = {} THEN base ELSE Step(how, f[S \ {Max(S)}], c[Max(S)])]
    BY <2>1
  <2>3. Iterates(how, base, f, c, 0)
    BY <2>2 DEF Iterates
  <2>. QED
    BY <2>3
<1>4. k - 1 \in Nat /\ k - 1 \notin Bad
  BY <1>2, <1>3
<1>. QED
  BY <1>2, <1>3, <1>4, IteratesOn

\* What the recursion returns is reached by one step after the other.
LEMMA Stepwise ==
  ASSUME NEW how, NEW base, NEW c, NEW n \in Nat, n = Len(c), NEW it, Iterates(how, base, it, c, n)
  PROVE  \E l : Folding(how, base, l, c) /\ it[1..n] = l[n]
<1>. DEFINE l == [i \in 0..n |-> it[1..i]]
<1>1. l[0] = base
  <2>1. 1..0 = {} /\ {} \in SUBSET (1..n) /\ 0 \in 0..n
    OBVIOUS
  <2>. QED
    BY <2>1 DEF Iterates
<1>2. ASSUME NEW i \in 1..n PROVE l[i] = Step(how, l[i - 1], c[i])
  <2>0. i \in Nat /\ i \in 0..n /\ i - 1 \in 0..n
    OBVIOUS
  <2>1. 1..i \in SUBSET (1..n) /\ 1..i # {} /\ (1..i) \ {i} = 1..(i - 1) /\ i \in 1..i
    <3>1. i \in 1..i /\ 1..i \subseteq 1..n
      BY <2>0
    <3>2. (1..i) \ {i} = 1..(i - 1)
      BY <2>0
    <3>. QED
      BY <3>1, <3>2
  <2>2. Max(1..i) = i
    BY <2>0, <2>1, GreatestIs
  <2>3. it[1..i] = Step(how, it[(1..i) \ {i}], c[i])
    BY <2>1, <2>2 DEF Iterates
  <2>. QED
    BY <2>0, <2>1, <2>3
<1>3. l[n] = it[1..n]
  <2>1. n \in 0..n
    OBVIOUS
  <2>. QED
    BY <2>1
<1>4. Folding(how, base, l, c)
  BY <1>1, <1>2 DEF Folding
<1>. QED
  BY <1>3, <1>4

\* Deduplication folds in one item after the other.
LEMMA FoldedLeft ==
  ASSUME NEW c \in Seq(ItemRecord)
  PROVE  \E l : Folding("fold", <<>>, l, c) /\ FoldLeft(Fold, <<>>, c) = l[Len(c)]
<1>. DEFINE n == Len(c)
            it == CHOOSE f : Iterates("fold", <<>>, f, c, n)
<1>0. n \in Nat /\ DOMAIN c = 1..n
  OBVIOUS
<1>1. FoldLeft(Fold, <<>>, c) = it[1..n]
  BY <1>0 DEF FoldLeft, MapThenFoldSet, Iterates, Step
<1>2. Iterates("fold", <<>>, it, c, n)
  <2>1. \E f : Iterates("fold", <<>>, f, c, n)
    BY <1>0, IteratesExists
  <2>. HIDE DEF n
  <2>. QED
    BY <2>1
<1>. HIDE DEF it
<1>. QED
  BY <1>0, <1>1, <1>2, Stepwise

\* What is true of the items that were written is true of those they are folded into.
LEMMA FoldedAll ==
  ASSUME NEW c \in Seq(ItemRecord)
  PROVE  LET list == FoldLeft(Fold, <<>>, c)
         IN  /\ list \in Seq(ItemRecord) /\ \A j \in DOMAIN c : IsKept(list, c[j], c)
             /\ \A j \in DOMAIN list : MadeOf(list[j], c, Len(c))
             /\ (\A j \in DOMAIN c : Evident(c[j], covered))
                   => \A j \in DOMAIN list : Evident(list[j], covered)
<1>. DEFINE n == Len(c)
<1>0. n \in Nat /\ DOMAIN c = 1..n /\ \A i \in 1..n : c[i] \in ItemRecord
  OBVIOUS
<1>1. PICK l : Folding("fold", <<>>, l, c) /\ FoldLeft(Fold, <<>>, c) = l[n]
  BY FoldedLeft
<1>. DEFINE Fine(i) ==
              /\ l[i] \in Seq(ItemRecord) /\ \A j \in 1..i : IsKept(l[i], c[j], c)
              /\ \A j \in DOMAIN l[i] : MadeOf(l[i][j], c, i)
              /\ (\A j \in 1..n : Evident(c[j], covered))
                    => \A j \in DOMAIN l[i] : Evident(l[i][j], covered)
            Bad == {i \in 0..n : ~Fine(i)}
<1>2. SUFFICES ASSUME Bad # {} PROVE FALSE
  <2>1. n \in 0..n
    BY <1>0
  <2>. QED
    BY <1>0, <1>1, <2>1
<1>3. PICK i \in Bad : \A j \in Bad : i <= j
  <2>1. Bad \in SUBSET Nat
    BY <1>0
  <2>. HIDE DEF Bad
  <2>. QED
    BY <1>2, <2>1, LeastNumber
<1>4. i # 0
  <2>1. l[0] = <<>> /\ <<>> \in Seq(ItemRecord) /\ DOMAIN <<>> = {} /\ 1..0 = {}
    BY <1>1 DEF Folding, Step
  <2>2. Fine(0)
    BY <2>1
  <2>. QED
    BY <2>2
<1>5. i \in 1..n /\ i - 1 \in 0..n /\ i - 1 \notin Bad
  BY <1>0, <1>3, <1>4
<1>6. Fine(i - 1)
  BY <1>5
<1>7. l[i] = Fold(l[i - 1], c[i]) /\ c[i] \in ItemRecord
  BY <1>0, <1>1, <1>5 DEF Folding, Step
<1>. DEFINE a == l[i - 1]
            b == l[i]
<1>8. /\ b \in Seq(ItemRecord)
      /\ IsKept(b, c[i], c) /\ \A j \in DOMAIN a : IsKept(b, a[j], c)
      /\ \A j \in DOMAIN b : MadeOf(b[j], c, i)
      /\ Evident(c[i], covered) /\ (\A j \in DOMAIN a : Evident(a[j], covered))
            => \A j \in DOMAIN b : Evident(b[j], covered)
  <2>1. i \in DOMAIN c /\ a \in Seq(ItemRecord) /\ \A j \in DOMAIN a : MadeOf(a[j], c, i - 1)
    BY <1>0, <1>5, <1>6
  <2>. HIDE DEF a
  <2>2. b = Fold(a, c[i])
    BY <1>7 DEF a
  <2>. HIDE DEF b
  <2>. QED
    BY <2>1, <2>2, FoldedIn
<1>9. \A j \in 1..i : IsKept(b, c[j], c)
  <2>. SUFFICES ASSUME NEW j \in 1..i, j # i PROVE IsKept(b, c[j], c)
    BY <1>8
  <2>1. j \in 1..(i - 1) /\ j \in 1..n
    BY <1>0, <1>5
  <2>2. PICK k \in DOMAIN a : StandsFor(a[k], c[j]) /\ Says(a[k], c[j], c)
    BY <1>6, <2>1 DEF IsKept
  <2>3. PICK m \in DOMAIN b : StandsFor(b[m], a[k]) /\ Says(b[m], a[k], c)
    BY <1>8 DEF IsKept
  <2>4. a[k] \in ItemRecord /\ b[m] \in ItemRecord /\ c[j] \in ItemRecord
    BY <1>0, <1>6, <1>8, <2>1
  <2>5. StandsFor(b[m], c[j])
    BY <2>2, <2>3, <2>4, StandsForTransitive
  <2>6. Says(b[m], c[j], c)
    BY <2>2, <2>3 DEF Says, StandsFor
  <2>. QED
    BY <2>5, <2>6 DEF IsKept
<1>10. Fine(i)
  BY <1>5, <1>6, <1>8, <1>9
<1>. QED
  BY <1>3, <1>10


-----------------------------------------------------------------------------
(* The minute: the order of its items *)

\* Item j of the list is put before item k.
Earlier(list, j, k) ==
    LET s == list[j].segments
        t == list[k].segments
    IN  IF s = {} \/ t = {} THEN (s # {} /\ t = {}) \/ ((s = {}) = (t = {}) /\ j < k)
        ELSE Min(s) < Min(t) \/ (Min(s) = Min(t) /\ j < k)

\* Items are put by their first segment, those without one last, ties as they came.
LEMMA EarlierIsAnOrder ==
  ASSUME NEW list \in Seq(ItemRecord)
  PROVE  \A i, j, k \in DOMAIN list :
            /\ ~Earlier(list, i, i)
            /\ i = j \/ Earlier(list, i, j) \/ Earlier(list, j, i)
            /\ Earlier(list, i, j) /\ Earlier(list, j, k) => Earlier(list, i, k)
<1>1. DOMAIN list \subseteq Nat /\ \A i \in DOMAIN list : list[i].segments \in SUBSET Nat
  <2>1. DOMAIN list = 1..Len(list) /\ Len(list) \in Nat
           /\ \A i \in DOMAIN list : list[i] \in ItemRecord
    OBVIOUS
  <2>. QED
    BY <2>1 DEF ItemRecord
<1>2. \A S \in SUBSET Nat : S # {} => Min(S) \in Nat
  BY LeastNumber DEF Min
<1>. DEFINE seg(i) == list[i].segments
            none(i) == seg(i) = {}
            low(i) == Min(seg(i))
<1>3. \A i \in DOMAIN list : none(i) \/ low(i) \in Nat
  BY <1>1, <1>2
<1>4. \A i, j : Earlier(list, i, j) <=>
          \/ ~none(i) /\ none(j)
          \/ none(i) /\ none(j) /\ i < j
          \/ ~none(i) /\ ~none(j) /\ (low(i) < low(j) \/ (low(i) = low(j) /\ i < j))
  BY DEF Earlier
<1>. HIDE DEF none, low
<1>. SUFFICES ASSUME NEW i \in DOMAIN list, NEW j \in DOMAIN list, NEW k \in DOMAIN list
     PROVE  /\ ~Earlier(list, i, i)
            /\ i = j \/ Earlier(list, i, j) \/ Earlier(list, j, i)
            /\ Earlier(list, i, j) /\ Earlier(list, j, k) => Earlier(list, i, k)
  OBVIOUS
<1>5. i \in Nat /\ j \in Nat /\ k \in Nat
  BY <1>1
<1>. QED
  BY <1>3, <1>4, <1>5

\* The rank of an item is how many come before it; ranks differ, so they fill the places.
LEMMA OrderExists ==
  ASSUME NEW list \in Seq(ItemRecord)
  PROVE  \E o \in SetToSeqs(DOMAIN list) :
            \A j, k \in DOMAIN list : j < k => Earlier(list, o[j], o[k])
<1>. DEFINE n == Len(list)
            Before(k) == {j \in 1..n : Earlier(list, j, k)}
            p == [k \in 1..n |-> Cardinality(Before(k)) + 1]
            o == [i \in 1..n |-> CHOOSE k \in 1..n : p[k] = i]
<1>0. n \in Nat /\ DOMAIN list = 1..n
  OBVIOUS
<1>. HIDE DEF n
<1>1. \A i, j, k \in 1..n :
         /\ ~Earlier(list, i, i)
         /\ i = j \/ Earlier(list, i, j) \/ Earlier(list, j, i)
         /\ Earlier(list, i, j) /\ Earlier(list, j, k) => Earlier(list, i, k)
  BY <1>0, EarlierIsAnOrder
<1>2. IsFiniteSet(1..n) /\ Cardinality(1..n) = n
  BY <1>0, FS_Interval
<1>3. \A k \in 1..n : IsFiniteSet(Before(k)) /\ Cardinality(Before(k)) \in Nat
  BY <1>2, FS_Subset, FS_CardinalityType
<1>4. ASSUME NEW k \in 1..n PROVE p[k] \in 1..n
  <2>1. Before(k) \in SUBSET (1..n) /\ Before(k) # 1..n
    BY <1>1
  <2>2. Cardinality(Before(k)) <= n /\ Cardinality(Before(k)) # n
    BY <1>2, <2>1, FS_Subset
  <2>. HIDE DEF Before
  <2>. QED
    BY <1>0, <1>3, <2>2
<1>5. ASSUME NEW j \in 1..n, NEW k \in 1..n, Earlier(list, j, k) PROVE p[j] < p[k]
  <2>1. Before(j) \in SUBSET Before(k) /\ j \in Before(k) /\ j \notin Before(j)
    BY <1>1, <1>5
  <2>2. Cardinality(Before(j)) <= Cardinality(Before(k))
        /\ Cardinality(Before(j)) # Cardinality(Before(k))
    BY <1>3, <2>1, FS_Subset
  <2>. HIDE DEF Before
  <2>. QED
    BY <1>3, <2>2
<1>. HIDE DEF p
<1>6. \A j, k \in 1..n : p[j] = p[k] => j = k
  BY <1>0, <1>1, <1>4, <1>5
<1>7. p \in Surjection(1..n, 1..n)
  <2>1. p \in [1..n -> 1..n]
    BY <1>4 DEF p
  <2>2. p \in Injection(1..n, 1..n)
    BY <1>6, <2>1 DEF Injection, IsInjective
  <2>. QED
    BY <1>2, <2>2, FS_Injection
<1>8. \A i \in 1..n : o[i] \in 1..n /\ p[o[i]] = i
  BY <1>7 DEF Surjection
<1>9. o \in [1..n -> 1..n] /\ \A i, j \in 1..n : i # j => o[i] # o[j]
  BY <1>8
<1>10. o \in SetToSeqs(DOMAIN list)
  BY <1>0, <1>2, <1>9 DEF SetToSeqs
<1>11. ASSUME NEW j \in 1..n, NEW k \in 1..n, j < k PROVE Earlier(list, o[j], o[k])
  <2>1. o[j] # o[k] /\ ~(k < j)
    BY <1>8, <1>11
  <2>2. ~Earlier(list, o[k], o[j])
    BY <1>5, <1>8, <2>1
  <2>. QED
    BY <1>1, <1>8, <2>1, <2>2
<1>. HIDE DEF o
<1>. QED
  BY <1>0, <1>10, <1>11

\* Putting the items in order loses none and adds none.
LEMMA InOrder ==
  ASSUME NEW list \in Seq(ItemRecord)
  PROVE  LET l == Chronological(list)
         IN  /\ l \in Seq(ItemRecord)
             /\ \A j \in DOMAIN l : \E k \in DOMAIN list : l[j] = list[k]
             /\ \A k \in DOMAIN list : \E j \in DOMAIN l : l[j] = list[k]
<1>. DEFINE n == Len(list)
            o == CHOOSE o \in SetToSeqs(DOMAIN list) :
                   \A j, k \in DOMAIN list : j < k => Earlier(list, o[j], o[k])
<1>0. n \in Nat /\ DOMAIN list = 1..n /\ \A k \in 1..n : list[k] \in ItemRecord
  OBVIOUS
<1>1. Chronological(list) = [k \in 1..n |-> list[o[k]]]
  BY <1>0 DEF Chronological, Earlier
<1>2. o \in SetToSeqs(1..n)
  BY <1>0, OrderExists
<1>. HIDE DEF o, n
<1>3. IsFiniteSet(1..n) /\ Cardinality(1..n) = n
  BY <1>0, FS_Interval
<1>4. o \in Injection(1..n, 1..n)
  BY <1>2, <1>3 DEF SetToSeqs, Injection, IsInjective
<1>5. o \in Surjection(1..n, 1..n)
  BY <1>3, <1>4, FS_Injection
<1>6. o \in [1..n -> 1..n] /\ \A k \in 1..n : \E j \in 1..n : o[j] = k
  BY <1>5 DEF Surjection
<1>. DEFINE l == [k \in 1..n |-> list[o[k]]]
<1>7. l \in Seq(ItemRecord) /\ DOMAIN l = 1..n
  BY <1>0, <1>6
<1>8. \A j \in 1..n : l[j] = list[o[j]] /\ o[j] \in 1..n
  BY <1>6
<1>9. \A k \in 1..n : \E j \in 1..n : l[j] = list[k]
  BY <1>6, <1>8
<1>. HIDE DEF l
<1>10. Chronological(list) = l
  BY <1>1 DEF l
<1>. QED
  BY <1>0, <1>7, <1>8, <1>9, <1>10

-----------------------------------------------------------------------------
(* The minute: what its items rest on *)

\* Each item that was written has an item of the minute that stands for it.
NothingLost == \A k \in DOMAIN collected : IsKept(items, collected[k], collected)
NothingAdded == \A k \in DOMAIN items : MadeOf(items[k], collected, Len(collected))

\* The lists hold evident items, those of the minute are made of those that were written,
\* and once the minute is reduced nothing written is lost.
ItemsInv ==
    /\ DOMAIN cost \subseteq Nat
    /\ collected \in Seq(ItemRecord) /\ \A k \in DOMAIN collected : Evident(collected[k], covered)
    /\ items \in Seq(ItemRecord) /\ \A k \in DOMAIN items : Evident(items[k], covered)
    /\ draft \in {"none", "cut"} => collected = <<>>
    /\ draft \in {"none", "cut", "map"} => items = <<>>
    /\ NothingAdded
    /\ draft \in {"summarise", "done"} => NothingLost

\* An item that verify_items let through quotes what it cites, out of its window.
LEMMA AnswersAreEvident ==
  ASSUME DOMAIN cost \subseteq Nat, NEW w, NEW x \in Answers(w)
  PROVE  /\ x \in ItemRecord
         /\ x.verification # "UNVERIFIED" => x.quote \in x.segments \cap Within(w)
<1>1. PICK claim \in Claims, quote \in {Invented} \union Said,
           cited \in {{}} \union {{n} : n \in Said} : x = Verified(claim, quote, cited, w)
  BY DEF Answers
<1>2. /\ claim.text \in Texts /\ claim.kind \in {"DECISION", "ACTION", "DISCUSSION", "ISSUE"}
      /\ quote \in Nat /\ cited \subseteq Nat
  BY <1>1, DraftingAssumption DEF Texts, Said, Invented
<1>. DEFINE legal == cited \intersect Within(w)
<1>3. CASE quote \in legal
  <2>1. x = [kind |-> claim.kind, text |-> claim.text, quote |-> quote,
             segments |-> {quote}, verification |-> "VERIFIED"]
    BY <1>1, <1>3 DEF Verified, Located
  <2>. QED
    BY <1>2, <1>3, <2>1 DEF ItemRecord
<1>4. CASE quote \notin legal /\ quote \in Within(w)
  <2>1. x = [kind |-> claim.kind, text |-> claim.text, quote |-> quote,
             segments |-> {quote}, verification |-> "REBOUND"]
    BY <1>1, <1>4 DEF Verified, Located
  <2>. QED
    BY <1>2, <1>4, <2>1 DEF ItemRecord
<1>5. CASE quote \notin legal /\ quote \notin Within(w)
  <2>1. x = [kind |-> claim.kind, text |-> claim.text, quote |-> quote,
             segments |-> legal, verification |-> "UNVERIFIED"]
    BY <1>1, <1>5 DEF Verified, Located
  <2>. QED
    BY <1>2, <2>1 DEF ItemRecord
<1>. QED
  BY <1>3, <1>4, <1>5

\* Evidence does not go away as more of the transcript is read.
LEMMA EvidenceGrows ==
  ASSUME covered \subseteq covered', NEW x, Evident(x, covered) PROVE Evident(x, covered')
BY DEF Evident

LEMMA ReadKeepsItems == ASSUME ItemsInv, ReadAnswer PROVE ItemsInv'
<1>. DEFINE w == Head(pending)
<1>1. /\ draft' = draft /\ draft = "map" /\ cost' = cost /\ items' = items
      /\ covered' = covered \union Within(w)
  BY DEF ReadAnswer
<1>2. \A x : Evident(x, covered) => Evident(x, covered')
  BY <1>1, EvidenceGrows
<1>3. collected' \in Seq(ItemRecord)
         /\ \A k \in DOMAIN collected' : Evident(collected'[k], covered')
  <2>1. CASE collected' = collected
    BY <1>2, <2>1 DEF ItemsInv
  <2>2. ASSUME NEW x \in Answers(w), collected' = Append(collected, x)
        PROVE  collected' \in Seq(ItemRecord)
                  /\ \A k \in DOMAIN collected' : Evident(collected'[k], covered')
    <3>1. x \in ItemRecord /\ Evident(x, covered')
      BY <1>1, AnswersAreEvident DEF ItemsInv, Evident
    <3>2. collected \in Seq(ItemRecord)
             /\ \A k \in DOMAIN collected : Evident(collected[k], covered')
      BY <1>2 DEF ItemsInv
    <3>3. \A k \in DOMAIN collected' : k \in DOMAIN collected \/ k = Len(collected) + 1
      BY <2>2, <3>2
    <3>4. /\ collected' \in Seq(ItemRecord) /\ collected'[Len(collected) + 1] = x
          /\ \A k \in DOMAIN collected : collected'[k] = collected[k]
      BY <2>2, <3>1, <3>2
    <3>. QED
      BY <3>1, <3>2, <3>3, <3>4
  <2>. QED
    BY <2>1, <2>2 DEF ReadAnswer
<1>4. items = <<>> /\ DOMAIN items' = {}
  BY <1>1 DEF ItemsInv
<1>5. NothingAdded'
  BY <1>4 DEF NothingAdded
<1>. QED
  BY <1>1, <1>2, <1>3, <1>4, <1>5 DEF ItemsInv

LEMMA ReduceKeepsItems == ASSUME ItemsInv, Reduce PROVE ItemsInv'
<1>. DEFINE f == FoldLeft(Fold, <<>>, collected)
<1>1. /\ items' = Chronological(f) /\ draft' = "summarise"
      /\ UNCHANGED <<cost, covered, collected>>
  BY DEF Reduce
<1>2. /\ collected \in Seq(ItemRecord)
      /\ f \in Seq(ItemRecord) /\ \A j \in DOMAIN collected : IsKept(f, collected[j], collected)
      /\ \A j \in DOMAIN f : Evident(f[j], covered) /\ MadeOf(f[j], collected, Len(collected))
  BY FoldedAll DEF ItemsInv
<1>. HIDE DEF f
<1>3. /\ items' \in Seq(ItemRecord)
      /\ \A j \in DOMAIN items' : \E k \in DOMAIN f : items'[j] = f[k]
      /\ \A k \in DOMAIN f : \E j \in DOMAIN items' : items'[j] = f[k]
  BY <1>1, <1>2, InOrder
<1>4. \A x : Evident(x, covered) => Evident(x, covered')
  BY <1>1, EvidenceGrows
<1>5. \A j \in DOMAIN items' : Evident(items'[j], covered')
  BY <1>2, <1>3, <1>4
<1>6. \A k \in DOMAIN collected : IsKept(items', collected[k], collected)
  BY <1>2, <1>3 DEF IsKept
<1>7. \A j \in DOMAIN items' : MadeOf(items'[j], collected, Len(collected))
  BY <1>2, <1>3
<1>. QED
  BY <1>1, <1>2, <1>3, <1>4, <1>5, <1>6, <1>7 DEF ItemsInv, NothingLost, NothingAdded

LEMMA NextKeepsItems == ASSUME ItemsInv, [PipelineNext]_pipelineVars PROVE ItemsInv'
<1>. USE DEF ItemsInv, NothingLost, NothingAdded, Evident, IsKept
<1>1. CASE UNCHANGED draftVars
  BY <1>1 DEF draftVars
<1>2. ASSUME NEW n, TakeTranscript(n) PROVE ItemsInv'
  <2>1. DOMAIN cost' \subseteq Nat
    BY <1>2 DEF TakeTranscript
  <2>2. /\ draft' \in {"cut", "done"} /\ collected = <<>> /\ items = <<>>
        /\ UNCHANGED <<covered, collected, items>>
    BY <1>2 DEF TakeTranscript
  <2>3. DOMAIN collected' = {} /\ DOMAIN items' = {}
    BY <2>2
  <2>. QED
    BY <2>1, <2>2, <2>3
<1>3. CASE BuildWindows \/ MissAnswer \/ CutAnswer \/ Summarise
  BY <1>3 DEF BuildWindows, MissAnswer, CutAnswer, Summarise
<1>4. CASE Stop
  BY <1>4 DEF Stop
<1>5. CASE ReadAnswer \/ Reduce
  BY <1>5, ReadKeepsItems, ReduceKeepsItems
<1>. QED
  BY <1>1, <1>2, <1>3, <1>4, <1>5
     DEF PipelineNext, LoadTranscript, DraftNext, BuildDocument, pipelineVars

LEMMA ItemsInvariance == PipelineSpec => []ItemsInv
<1>1. PipelineInit => ItemsInv
  BY DEF PipelineInit, DraftInit, ItemsInv, NothingLost, NothingAdded
<1>. QED
  BY <1>1, NextKeepsItems, PTL DEF PipelineSpec

\* An item of the minute that is not marked unverified quotes a segment it cites, out of a
\* window whose answer has been read; its text, its quote with the verdict, and each of its
\* citations were written by the model for an item of its kind; and whatever the order in
\* which the model writes its items and whichever are folded together, each has one in the
\* minute that cites all it cited, is no less verified, has a text no shorter, and says
\* all it said unless two of its kind were written with one quote (verify.py, dedupe.py,
\* generator.py).
THEOREM MinutesAreFaithful == PipelineSpec => []ItemsAreFaithful
<1>1. ItemsInv => EvidenceIsCited
  BY DEF ItemsInv, Evident, EvidenceIsCited, Range
<1>2. ItemsInv => NothingExtractedIsLost
  <2>1. \A kind : Quoted(collected, kind) => QuotedTwice(kind)
    BY DEF Quoted, QuotedTwice
  <2>. QED
    BY <2>1
       DEF ItemsInv, NothingLost, IsKept, StandsFor, Says, NothingExtractedIsLost, Range
<1>3. ItemsInv => NothingIsMadeUp
  <2>. SUFFICES ASSUME ItemsInv, NEW k \in DOMAIN items
                PROVE  LET x == items[k]
                       IN  /\ \E y \in Written(x.kind) : y.text = x.text
                           /\ \E y \in Written(x.kind) :
                                 y.quote = x.quote /\ y.verification = x.verification
                           /\ \A n \in x.segments : \E y \in Written(x.kind) : n \in y.segments
    BY DEF NothingIsMadeUp, Range
  <2>. DEFINE x == items[k]
  <2>1. MadeOf(x, collected, Len(collected)) /\ DOMAIN collected = 1..Len(collected)
    BY DEF ItemsInv, NothingAdded
  <2>. HIDE DEF x
  <2>2. \A i \in 1..Len(collected) :
           collected[i].kind = x.kind => collected[i] \in Written(x.kind)
    BY <2>1 DEF Written, Range
  <2>3. /\ \E y \in Written(x.kind) : y.text = x.text
        /\ \E y \in Written(x.kind) : y.quote = x.quote /\ y.verification = x.verification
        /\ \A n \in x.segments : \E y \in Written(x.kind) : n \in y.segments
    BY <2>1, <2>2 DEF MadeOf
  <2>. QED
    BY <2>3 DEF x
<1>4. ItemsInv => ItemsAreFaithful
  BY <1>1, <1>2, <1>3 DEF ItemsAreFaithful
<1>. QED
  BY <1>4, ItemsInvariance, PTL

-----------------------------------------------------------------------------
(* The transcript: the time of the working copy *)

ChunkRecord == [start : Nat, frames : Nat \ {0}, onDisk : BOOLEAN]

Silent(l) == {k \in 0..(Len(l) - 1) : l[k + 1] = Silence}

\* Every sound of the copy is ahead of its time by the same amount: by what the copy is shorter
\* than the frame that is expected next, which is what lay before the first chunk.
InStep ==
    skipped = 0 /\ ~warned =>
      \A k \in DOMAIN copy : copy[k] \in {expected - Len(copy) + k - 1, Silence}

\* The recording ends where its last chunk does, and the first of them is there or missed.
EndAhead ==
    /\ chunks # <<>> => written = chunks[Len(chunks)].start + chunks[Len(chunks)].frames
    /\ chunks = <<>> /\ skipped = 0 => written = expected /\ rateKnown

TimeInv ==
    /\ chunks \in Seq(ChunkRecord) /\ copy \in Seq(Int) /\ gaps \subseteq [from : Nat, to : Nat]
    /\ written \in Nat /\ expected \in Nat /\ skipped \in Nat
    /\ UNION {Ticks(g) : g \in gaps} = Silent(copy)
    /\ stage = "normalize" => InStep /\ EndAhead
    /\ stage # "normalize" => TimeIsKept

\* A stretch of silence is as long as its gap.
LEMMA SilenceAdds ==
  ASSUME NEW l \in Seq(Int), NEW n \in Nat
  PROVE  /\ l \o Blank(n) \in Seq(Int) /\ Len(l \o Blank(n)) = Len(l) + n
         /\ \A k \in 1..Len(l) : (l \o Blank(n))[k] = l[k]
         /\ \A k \in (Len(l) + 1)..(Len(l) + n) : (l \o Blank(n))[k] = Silence
         /\ Silent(l \o Blank(n)) = Silent(l) \union Ticks(Span(Len(l), Len(l) + n))
<1>1. Blank(n) \in Seq(Int) /\ Len(Blank(n)) = n /\ \A k \in 1..n : Blank(n)[k] = Silence
  BY DEF Blank, Silence
<1>. DEFINE m == l \o Blank(n)
<1>2. /\ m \in Seq(Int) /\ Len(m) = Len(l) + n /\ Len(l) \in Nat
      /\ \A k \in 1..Len(l) : m[k] = l[k]
      /\ \A k \in (Len(l) + 1)..(Len(l) + n) : m[k] = Silence
  BY <1>1
<1>. HIDE DEF m
<1>3. ASSUME NEW k \in Int
      PROVE  k \in Silent(m) <=> k \in Silent(l) \union Ticks(Span(Len(l), Len(l) + n))
  <2>1. CASE k \in 0..(Len(l) - 1)
    BY <1>2, <2>1 DEF Silent, Ticks, Span
  <2>2. CASE k \in Len(l)..(Len(l) + n - 1)
    BY <1>2, <2>2 DEF Silent, Ticks, Span
  <2>3. CASE k \notin 0..(Len(l) + n - 1)
    BY <1>2, <2>3 DEF Silent, Ticks, Span
  <2>. QED
    BY <1>2, <2>1, <2>2, <2>3
<1>4. /\ Silent(m) \subseteq Int /\ Silent(l) \subseteq Int
      /\ Ticks(Span(Len(l), Len(l) + n)) \subseteq Int
  BY <1>2 DEF Silent, Ticks, Span
<1>. QED
  BY <1>2, <1>3, <1>4 DEF m

\* The entries of two lists put together.
LEMMA Concatenated ==
  ASSUME NEW l \in Seq(Int), NEW r \in Seq(Int)
  PROVE  /\ l \o r \in Seq(Int) /\ Len(l \o r) = Len(l) + Len(r)
         /\ \A k \in 1..Len(l) : (l \o r)[k] = l[k]
         /\ \A k \in (Len(l) + 1)..(Len(l) + Len(r)) : (l \o r)[k] = r[k - Len(l)]
OBVIOUS

\* A chunk that is on disk adds no silence.
LEMMA SoundAdds ==
  ASSUME NEW l \in Seq(Int), NEW c \in ChunkRecord
  PROVE  /\ l \o Sound(c) \in Seq(Int) /\ Len(l \o Sound(c)) = Len(l) + c.frames
         /\ \A k \in 1..Len(l) : (l \o Sound(c))[k] = l[k]
         /\ \A k \in (Len(l) + 1)..(Len(l) + c.frames) :
               (l \o Sound(c))[k] = c.start + (k - Len(l)) - 1
         /\ Silent(l \o Sound(c)) = Silent(l)
<1>. DEFINE a == c.start
            n == c.frames
            r == Sound(c)
            m == l \o r
<1>0. a \in Nat /\ n \in Nat /\ r = [k \in 1..n |-> a + k - 1]
  BY DEF ChunkRecord, Sound
<1>1. r \in Seq(Int) /\ Len(r) = n /\ \A k \in 1..n : r[k] = a + k - 1
  <2>. HIDE DEF a, n, r
  <2>1. r \in [1..n -> Int] /\ \A k \in 1..n : r[k] = a + k - 1
    BY <1>0
  <2>. QED
    BY <1>0, <2>1
<1>. HIDE DEF r, m, n, a
<1>2. /\ m \in Seq(Int) /\ Len(m) = Len(l) + n /\ Len(l) \in Nat
      /\ \A k \in 1..Len(l) : m[k] = l[k]
      /\ \A k \in (Len(l) + 1)..(Len(l) + n) : m[k] = r[k - Len(l)]
  <2>1. /\ l \o r \in Seq(Int) /\ Len(l \o r) = Len(l) + Len(r) /\ Len(l) \in Nat
        /\ \A k \in 1..Len(l) : (l \o r)[k] = l[k]
        /\ \A k \in (Len(l) + 1)..(Len(l) + Len(r)) : (l \o r)[k] = r[k - Len(l)]
    <3>1. l \in Seq(Int) /\ r \in Seq(Int)
      BY <1>1
    <3>2. l \o r \in Seq(Int) /\ Len(l \o r) = Len(l) + Len(r) /\ Len(l) \in Nat
      BY <3>1
    <3>3. \A k \in 1..Len(l) : (l \o r)[k] = l[k]
      BY <3>1
    <3>4. \A k \in (Len(l) + 1)..(Len(l) + Len(r)) : (l \o r)[k] = r[k - Len(l)]
      BY <3>1
    <3>. QED
      BY <3>2, <3>3, <3>4
  <2>. QED
    BY <1>1, <2>1 DEF m
<1>3. \A k \in (Len(l) + 1)..(Len(l) + n) : m[k] = a + (k - Len(l)) - 1 /\ m[k] >= 0
  <2>. SUFFICES ASSUME NEW k \in (Len(l) + 1)..(Len(l) + n)
                PROVE  m[k] = a + (k - Len(l)) - 1 /\ m[k] >= 0
    OBVIOUS
  <2>1. k - Len(l) \in 1..n /\ k \in Int
    BY <1>0, <1>2
  <2>2. m[k] = a + (k - Len(l)) - 1
    BY <1>1, <1>2, <2>1
  <2>. QED
    BY <1>0, <1>2, <2>1, <2>2
<1>4. Silent(m) = Silent(l)
  <2>1. ASSUME NEW k \in 0..(Len(m) - 1), m[k + 1] = Silence
        PROVE  k \in 0..(Len(l) - 1)
    <3>1. k + 1 \notin (Len(l) + 1)..(Len(l) + n)
      BY <1>3, <2>1 DEF Silence
    <3>. QED
      BY <1>0, <1>2, <2>1, <3>1
  <2>2. \A k \in 0..(Len(l) - 1) : k \in 0..(Len(m) - 1) /\ m[k + 1] = l[k + 1]
    BY <1>0, <1>2
  <2>. QED
    BY <2>1, <2>2 DEF Silent
<1>. QED
  BY <1>2, <1>3, <1>4 DEF m, r, n, a

\* The chunk at hand is one of those a manifest holds, and the last is still ahead.
LEMMA NextChunk ==
  ASSUME chunks \in Seq(ChunkRecord), chunks # <<>>
  PROVE  /\ Head(chunks) \in ChunkRecord /\ Tail(chunks) \in Seq(ChunkRecord)
         /\ Tail(chunks) # <<>> => Tail(chunks)[Len(Tail(chunks))] = chunks[Len(chunks)]
         /\ Tail(chunks) = <<>> => Head(chunks) = chunks[Len(chunks)]
<1>1. /\ Len(chunks) \in Nat \ {0} /\ Tail(chunks) \in Seq(ChunkRecord)
      /\ Len(Tail(chunks)) = Len(chunks) - 1 /\ Head(chunks) = chunks[1]
      /\ \A k \in 1..(Len(chunks) - 1) : Tail(chunks)[k] = chunks[k + 1]
  OBVIOUS
<1>2. Head(chunks) \in ChunkRecord
  BY <1>1
<1>3. ASSUME Tail(chunks) # <<>> PROVE Tail(chunks)[Len(Tail(chunks))] = chunks[Len(chunks)]
  <2>1. Len(Tail(chunks)) # 0
    BY <1>1, <1>3
  <2>. QED
    BY <1>1, <2>1
<1>4. ASSUME Tail(chunks) = <<>> PROVE Head(chunks) = chunks[Len(chunks)]
  <2>1. Len(Tail(chunks)) = 0
    BY <1>1, <1>4, EmptySeq
  <2>2. Len(chunks) = 1
    <3>. DEFINE n == Len(chunks)
    <3>1. n \in Nat /\ n - 1 = 0
      BY <1>1, <2>1
    <3>. HIDE DEF n
    <3>2. n = 1
      BY <3>1
    <3>. QED
      BY <3>2 DEF n
  <2>. QED
    BY <1>1, <2>2
<1>. QED
  BY <1>1, <1>2, <1>3, <1>4

\* The sound of a chunk is put where the master has it, after the silence of its hole.
LEMMA WriteKeepsTime == ASSUME TimeInv, WriteChunk PROVE TimeInv'
<1>. DEFINE c == Head(chunks)
            hole == Larger(0, c.start - expected)
            padded == copy \o Blank(hole)
<1>1. /\ chunks \in Seq(ChunkRecord) /\ chunks # <<>> /\ stage = "normalize" /\ stage' = stage
      /\ copy' = (copy \o Blank(hole)) \o Sound(c)
      /\ gaps' = (IF hole > 0 THEN gaps \union {Span(Len(copy), Len(copy) + hole)} ELSE gaps)
      /\ warned' = (warned \/ c.start < expected) /\ expected' = c.start + c.frames
      /\ rateKnown' = TRUE /\ chunks' = Tail(chunks) /\ written' = written /\ skipped' = skipped
  BY DEF TimeInv, WriteChunk
<1>b. c \in ChunkRecord
  BY <1>1, NextChunk
<1>. HIDE DEF c
<1>c. c.start \in Nat /\ c.frames \in Nat /\ expected \in Nat /\ copy \in Seq(Int)
  BY <1>b DEF TimeInv, ChunkRecord
<1>d. hole \in Nat /\ (c.start >= expected => hole = c.start - expected)
  BY <1>c DEF Larger
<1>. HIDE DEF hole
<1>2. /\ c \in ChunkRecord /\ c.start \in Nat /\ c.frames \in Nat /\ expected \in Nat
      /\ hole \in Nat /\ Len(copy) \in Nat /\ copy \in Seq(Int)
      /\ c.start >= expected => hole = c.start - expected
  BY <1>b, <1>c, <1>d
<1>3. /\ padded \in Seq(Int) /\ Len(padded) = Len(copy) + hole
      /\ \A k \in 1..Len(copy) : padded[k] = copy[k]
      /\ \A k \in (Len(copy) + 1)..(Len(copy) + hole) : padded[k] = Silence
      /\ Silent(padded) = Silent(copy) \union Ticks(Span(Len(copy), Len(copy) + hole))
  BY <1>2, SilenceAdds
<1>a. copy' = padded \o Sound(c)
  BY <1>1
<1>. HIDE DEF padded
<1>4. /\ copy' \in Seq(Int) /\ Len(copy') = Len(padded) + c.frames
      /\ \A k \in 1..Len(padded) : copy'[k] = padded[k]
      /\ \A k \in (Len(padded) + 1)..(Len(padded) + c.frames) :
            copy'[k] = c.start + (k - Len(padded)) - 1
      /\ Silent(copy') = Silent(padded)
  BY <1>a, <1>2, <1>3, SoundAdds
<1>e. Len(copy') = (Len(copy) + hole) + c.frames
  BY <1>3, <1>4
<1>5. /\ gaps' \subseteq [from : Nat, to : Nat]
      /\ UNION {Ticks(g) : g \in gaps'} = Silent(copy')
  <2>. DEFINE s == Span(Len(copy), Len(copy) + hole)
  <2>1. /\ s \in [from : Nat, to : Nat] /\ Silent(copy') = Silent(copy) \union Ticks(s)
        /\ gaps' = IF hole > 0 THEN gaps \union {s} ELSE gaps
        /\ hole = 0 => Ticks(s) = {}
    BY <1>1, <1>2, <1>3, <1>4 DEF Span, Ticks
  <2>2. gaps \subseteq [from : Nat, to : Nat] /\ UNION {Ticks(g) : g \in gaps} = Silent(copy)
    BY DEF TimeInv
  <2>. HIDE DEF s
  <2>3. CASE hole > 0
    BY <2>1, <2>2, <2>3
  <2>4. CASE hole = 0
    BY <2>1, <2>2, <2>4
  <2>. QED
    BY <1>2, <2>3, <2>4
<1>6. ASSUME skipped = 0, ~warned, c.start >= expected
      PROVE  \A k \in DOMAIN copy' : copy'[k] \in {expected' - Len(copy') + k - 1, Silence}
  <2>1. hole = c.start - expected
    BY <1>2, <1>6
  <2>2. \A k \in DOMAIN copy : copy[k] \in {expected - Len(copy) + k - 1, Silence}
    BY <1>1, <1>6 DEF TimeInv, InStep
  <2>. SUFFICES ASSUME NEW k \in 1..Len(copy')
                PROVE  copy'[k] \in {expected' - Len(copy') + k - 1, Silence}
    BY <1>4
  <2>3. /\ expected' - Len(copy') + k - 1 = expected - Len(copy) + k - 1
        /\ expected' - Len(copy') + k - 1 = c.start + (k - (Len(copy) + hole)) - 1
    <3>1. k \in Int /\ expected' = c.start + c.frames
      BY <1>1
    <3>2. LET q == (Len(copy) + hole) + c.frames
          IN  /\ (c.start + c.frames) - q + k - 1 = expected - Len(copy) + k - 1
              /\ (c.start + c.frames) - q + k - 1 = c.start + (k - (Len(copy) + hole)) - 1
      <4>. DEFINE a == c.start
                  f == c.frames
                  p == Len(copy)
                  e == expected
      <4>1. a \in Nat /\ f \in Nat /\ p \in Nat /\ e \in Nat /\ hole \in Nat /\ hole = a - e
        BY <1>2, <2>1
      <4>. HIDE DEF a, f, p, e
      <4>2. /\ (a + f) - ((p + hole) + f) + k - 1 = e - p + k - 1
            /\ (a + f) - ((p + hole) + f) + k - 1 = a + (k - (p + hole)) - 1
        BY <3>1, <4>1
      <4>. QED
        BY <4>2 DEF a, f, p, e
    <3>. QED
      BY <1>e, <3>1, <3>2
  <2>4. CASE k \in 1..Len(copy)
    <3>1. k \in 1..Len(padded) /\ k \in DOMAIN copy
      BY <1>2, <1>3, <2>4
    <3>. QED
      BY <1>3, <1>4, <2>2, <2>3, <2>4, <3>1
  <2>5. CASE k \in (Len(copy) + 1)..(Len(copy) + hole)
    <3>1. k \in 1..Len(padded)
      BY <1>2, <1>3, <2>5
    <3>. QED
      BY <1>3, <1>4, <2>5, <3>1
  <2>6. CASE k \in (Len(copy) + hole + 1)..(Len(copy) + hole + c.frames)
    <3>1. copy'[k] = c.start + (k - (Len(copy) + hole)) - 1
      BY <1>3, <1>4, <2>6
    <3>. QED
      BY <2>3, <3>1
  <2>. QED
    BY <1>2, <1>e, <2>4, <2>5, <2>6
<1>f. InStep'
  <2>a. ~warned' => ~(warned \/ c.start < expected)
    BY <1>1, Zenon
  <2>1. skipped' = 0 /\ ~warned' => skipped = 0 /\ ~warned /\ c.start >= expected
    BY <1>1, <1>2, <2>a
  <2>. QED
    BY <1>6, <2>1 DEF InStep
<1>7. EndAhead'
  BY <1>1, NextChunk DEF TimeInv, EndAhead, c
<1>. QED
  <2>1. expected' \in Nat
    BY <1>1, <1>2
  <2>3. chunks' \in Seq(ChunkRecord)
    BY <1>1, NextChunk
  <2>2. written' \in Nat /\ skipped' \in Nat
    BY <1>1 DEF TimeInv
  <2>. QED
    BY <1>1, <1>4, <1>5, <1>f, <1>7, <2>1, <2>2, <2>3 DEF TimeInv

\* A chunk that is not on disk is counted, which tells the loss.
LEMMA SkipKeepsTime == ASSUME TimeInv, SkipChunk PROVE TimeInv'
<1>. DEFINE c == Head(chunks)
<1>1. /\ chunks \in Seq(ChunkRecord) /\ chunks # <<>> /\ stage = "normalize" /\ stage' = stage
      /\ skipped' = skipped + 1 /\ chunks' = Tail(chunks) /\ written' = written
      /\ skipped \in Nat /\ skipped' # 0
  BY DEF TimeInv, SkipChunk
<1>2. /\ c \in ChunkRecord /\ c.start \in Nat /\ c.frames \in Nat \ {0}
      /\ Tail(chunks) \in Seq(ChunkRecord)
  BY <1>1, NextChunk DEF ChunkRecord
<1>3. /\ copy' \in Seq(Int) /\ gaps' \subseteq [from : Nat, to : Nat] /\ expected' \in Nat
      /\ UNION {Ticks(g) : g \in gaps'} = Silent(copy')
  <2>1. CASE rateKnown
    <3>1. /\ copy' = copy \o Blank(c.frames) /\ expected' = c.start + c.frames
          /\ gaps' = gaps \union {Span(Len(copy), Len(copy) + c.frames)}
          /\ copy \in Seq(Int) /\ Len(copy) \in Nat
      BY <2>1 DEF SkipChunk, TimeInv
    <3>2. /\ copy' \in Seq(Int)
          /\ Silent(copy') = Silent(copy) \union Ticks(Span(Len(copy), Len(copy) + c.frames))
      BY <1>2, <3>1, SilenceAdds
    <3>. QED
      BY <1>2, <3>1, <3>2 DEF TimeInv, Span
  <2>2. CASE ~rateKnown
    BY <2>2 DEF SkipChunk, TimeInv
  <2>. QED
    BY <2>1, <2>2
<1>4. InStep' /\ EndAhead'
  BY <1>1, NextChunk DEF InStep, EndAhead, TimeInv
<1>. QED
  BY <1>1, <1>2, <1>3, <1>4 DEF TimeInv

\* A copy of another length than the recording's raises a warning.
LEMMA FinishKeepsTime == ASSUME TimeInv, FinishCopy PROVE TimeInv'
<1>1. /\ UNCHANGED <<chunks, written, expected, rateKnown, copy, gaps, skipped>>
      /\ stage = "normalize" /\ stage' = "vad" /\ chunks = <<>>
      /\ warned' = (warned \/ (rateKnown /\ written # Len(copy)))
  BY DEF FinishCopy
<1>2. ASSUME skipped' = 0, ~warned'
      PROVE  Len(copy') = written' /\ \A k \in DOMAIN copy' : copy'[k] \in {k - 1, Silence}
  <2>1. written = expected /\ rateKnown /\ written = Len(copy)
    BY <1>1, <1>2 DEF TimeInv, EndAhead
  <2>2. \A k \in DOMAIN copy : copy[k] \in {expected - Len(copy) + k - 1, Silence}
    BY <1>1, <1>2 DEF TimeInv, InStep
  <2>3. \A k \in DOMAIN copy : expected - Len(copy) + k - 1 = k - 1
    BY <2>1 DEF TimeInv
  <2>. QED
    BY <1>1, <2>1, <2>2, <2>3
<1>3. TimeIsKept'
  BY <1>1, <1>2 DEF TimeIsKept, TimeInv, Silent
<1>. QED
  BY <1>1, <1>3 DEF TimeInv, Silent

\* What comes after the copy leaves it alone, until it is not needed any more.
LEMMA LaterKeepsTime ==
  ASSUME TimeInv,
         \/ Detect \/ NothingToDetect \/ Plan \/ DecodeFirst \/ DecodeSecond \/ Abandon
         \/ Select \/ WithoutSecondPass \/ KeepFirstPass \/ Merge \/ LoadTranscript
         \/ UNCHANGED speechVars
  PROVE  TimeInv'
<1>1. CASE LoadTranscript
  <2>1. /\ copy' = <<>> /\ gaps' = {} /\ written' = 0 /\ expected' = 0 /\ skipped' = 0
        /\ chunks' = chunks /\ stage' = "saved"
    BY <1>1 DEF LoadTranscript
  <2>2. Silent(copy') = {} /\ UNION {Ticks(g) : g \in gaps'} = {}
    BY <2>1 DEF Silent
  <2>. QED
    BY <2>1, <2>2 DEF TimeInv, TimeIsKept, Silent
<1>2. CASE UNCHANGED speechVars
  BY <1>2 DEF speechVars, audioVars, TimeInv, TimeIsKept, InStep, EndAhead, Silent
<1>3. CASE ~LoadTranscript /\ ~UNCHANGED speechVars
  <2>1. UNCHANGED audioVars /\ stage # "normalize" /\ stage' # "normalize"
    BY <1>3 DEF Detect, NothingToDetect, Plan, DecodeFirst, DecodeSecond, Abandon, Select,
                WithoutSecondPass, KeepFirstPass, Merge
  <2>. QED
    BY <2>1 DEF audioVars, TimeInv, TimeIsKept, Silent
<1>. QED
  BY <1>1, <1>2, <1>3

\* The working copy is in step with the master at each chunk.
LEMMA TimeInvariance == PipelineSpec => []TimeInv
<1>1. PipelineInit => TimeInv
  <2>. SUFFICES ASSUME SpeechInit PROVE TimeInv
    BY DEF PipelineInit
  <2>1. chunks \in Seq(ChunkRecord) /\ chunks # <<>>
    BY SpeechAssumption DEF SpeechInit, ChunkRecord
  <2>2. /\ Len(chunks) \in Nat \ {0} /\ chunks[Len(chunks)] \in ChunkRecord
        /\ Head(chunks) \in ChunkRecord
    BY <2>1
  <2>3. /\ written = chunks[Len(chunks)].start + chunks[Len(chunks)].frames
        /\ written \in Nat /\ expected \in Nat
    BY <2>2 DEF SpeechInit, Last, ChunkRecord
  <2>4. copy = <<>> /\ gaps = {} /\ Silent(copy) = {}
    BY DEF SpeechInit, Silent
  <2>. QED
    BY <2>1, <2>3, <2>4 DEF SpeechInit, TimeInv, InStep, EndAhead
<1>2. TimeInv /\ [PipelineNext]_pipelineVars => TimeInv'
  <2>1. UNCHANGED pipelineVars => UNCHANGED speechVars
    BY DEF pipelineVars
  <2>. QED
    BY <2>1, WriteKeepsTime, SkipKeepsTime, FinishKeepsTime, LaterKeepsTime
       DEF PipelineNext, SpeechNext
<1>. QED
  BY <1>1, <1>2, PTL DEF PipelineSpec

\* Whatever chunks are missing, overlap or leave a hole, a sound of the working copy is at
\* the time it has in the recording, or the loss is told (normalize.py).
THEOREM CopyKeepsTime == PipelineSpec => []TimeIsKept
<1>1. TimeInv => TimeIsKept
  BY DEF TimeInv, TimeIsKept
<1>. QED
  BY <1>1, TimeInvariance, PTL

-----------------------------------------------------------------------------
(* The minute: its windows *)

WindowRecord == [from : Nat, to : Nat, repeats : Nat, tries : Nat]

\* A window of some of the first n segments.
WindowTo(w, n) == w \in WindowRecord /\ 1 <= w.from /\ w.from <= w.to /\ w.to <= n

\* The windows begin one after the other and leave none of the first n segments out.
CutTo(list, n) ==
    /\ list \in Seq(WindowRecord) /\ list # <<>> /\ list[Len(list)].to = n
    /\ \A k \in DOMAIN list : WindowTo(list[k], n)
    /\ \A k \in 1..(Len(list) - 1) : list[k].from <= list[k + 1].from
    /\ \A t \in 1..n : \E k \in DOMAIN list : t \in Within(list[k])

\* The next window begins no earlier than the one it repeats the end of.
LEMMA CarriedFits ==
  ASSUME NEW w \in WindowRecord, w.from <= w.to
  PROVE  Carried(w) \in Nat /\ w.from <= w.to + 1 - Carried(w) /\ w.to + 1 - Carried(w) \in Nat
<1>1. w.from \in Nat /\ w.to \in Nat
  BY DEF WindowRecord
<1>2. Repeat \in Nat
  BY DraftingAssumption
<1>. QED
  BY <1>1, <1>2 DEF Carried, Size

\* The last window of a list is given another.
LEMMA LastExchanged ==
  ASSUME NEW list \in Seq(WindowRecord), list # <<>>, NEW w \in WindowRecord
  PROVE  LET l == Append(Front(list), w)
         IN  /\ l \in Seq(WindowRecord) /\ Len(l) = Len(list) /\ Len(l) \in Nat \ {0}
             /\ \A k \in 1..(Len(list) - 1) : l[k] = list[k]
             /\ l[Len(list)] = w
<1>1. Len(list) \in Nat \ {0} /\ Len(list) - 1 \in Nat
  OBVIOUS
<1>2. /\ Front(list) \in Seq(WindowRecord) /\ Len(Front(list)) = Len(list) - 1
      /\ \A k \in 1..(Len(list) - 1) : Front(list)[k] = list[k]
  BY <1>1 DEF Front
<1>. QED
  BY <1>1, <1>2

\* One more segment is in the last window, or in a new one.
LEMMA ExtendCovers ==
  ASSUME NEW list, NEW n \in Nat \ {0}, CutTo(list, n)
  PROVE  CutTo(Extend(list, n + 1), n + 1)
<1>. DEFINE m == Len(list)
            w == list[m]
            carry == Carried(w)
            next == [from |-> (n + 1) - carry, to |-> n + 1, repeats |-> carry, tries |-> 0]
            more == [w EXCEPT !.to = n + 1]
<1>1. /\ list \in Seq(WindowRecord) /\ m \in Nat \ {0} /\ m \in DOMAIN list /\ DOMAIN list = 1..m
      /\ w \in WindowRecord /\ WindowTo(w, n) /\ w.to = n /\ list # <<>>
      /\ \A k \in 1..m : list[k] \in WindowRecord /\ WindowTo(list[k], n)
      /\ \A k \in 1..(m - 1) : list[k].from <= list[k + 1].from
      /\ \A t \in 1..n : \E k \in 1..m : t \in Within(list[k])
  <2>1. list \in Seq(WindowRecord) /\ list # <<>>
    BY DEF CutTo
  <2>2. m \in Nat \ {0} /\ DOMAIN list = 1..m
    BY <2>1
  <2>3. \A k \in 1..m : list[k] \in WindowRecord /\ WindowTo(list[k], n)
    BY <2>2 DEF CutTo, WindowTo
  <2>4. m \in 1..m /\ w \in WindowRecord /\ WindowTo(w, n)
    BY <2>2, <2>3
  <2>5. /\ w.to = n
        /\ \A k \in 1..(m - 1) : list[k].from <= list[k + 1].from
        /\ \A t \in 1..n : \E k \in 1..m : t \in Within(list[k])
    BY <2>2 DEF CutTo
  <2>. HIDE DEF m, w
  <2>. QED
    BY <2>1, <2>2, <2>3, <2>4, <2>5
<1>2. Extend(list, n + 1) = Append(list, next) \/ Extend(list, n + 1) = Append(Front(list), more)
  <2>1. Extend(list, n + 1) =
          IF Cost(Within(w)) + cost[n + 1] > Tokens THEN Append(list, next)
          ELSE Append(Front(list), more)
    <3>1. \A x : Extend(list, x) =
                    IF Cost(Within(w)) + cost[x] > Tokens
                    THEN Append(list, [from |-> x - carry, to |-> x,
                                       repeats |-> carry, tries |-> 0])
                    ELSE Append(Front(list), [w EXCEPT !.to = x])
      BY Zenon DEF Extend, Last
    <3>. QED
      BY <3>1
  <2>. HIDE DEF next, more, w, carry, m
  <2>. QED
    BY <2>1
<1>3. \A k \in 1..m : WindowTo(list[k], n + 1)
  <2>. SUFFICES ASSUME NEW k \in 1..m PROVE WindowTo(list[k], n + 1)
    OBVIOUS
  <2>1. WindowTo(list[k], n)
    BY <1>1
  <2>2. list[k].to \in Nat
    BY <2>1 DEF WindowTo, WindowRecord
  <2>. QED
    BY <2>1, <2>2 DEF WindowTo
<1>4. CASE Extend(list, n + 1) = Append(list, next)
  <2>. DEFINE l == Append(list, next)
  <2>1. /\ carry \in Nat /\ w.from <= n + 1 - carry /\ n + 1 - carry \in Nat
        /\ 1 <= w.from /\ w.from \in Nat
    BY <1>1, CarriedFits DEF WindowTo, WindowRecord
  <2>. HIDE DEF carry
  <2>2. next \in WindowRecord /\ WindowTo(next, n + 1)
    BY <2>1 DEF WindowTo, WindowRecord
  <2>a. next.from = (n + 1) - carry /\ next.to = n + 1
    OBVIOUS
  <2>. HIDE DEF next
  <2>3. /\ l \in Seq(WindowRecord) /\ Len(l) = m + 1 /\ DOMAIN l = 1..(m + 1) /\ l # <<>>
        /\ \A k \in 1..m : l[k] = list[k]
        /\ l[m + 1] = next
    BY <1>1, <2>2
  <2>. HIDE DEF l, m, w
  <2>4. \A k \in 1..(m + 1) : WindowTo(l[k], n + 1)
    BY <1>1, <1>3, <2>2, <2>3
  <2>5. \A k \in 1..m : l[k].from <= l[k + 1].from
    <3>. SUFFICES ASSUME NEW k \in 1..m PROVE l[k].from <= l[k + 1].from
      OBVIOUS
    <3>1. CASE k = m
      BY <1>1, <2>1, <2>a, <2>3, <3>1 DEF w
    <3>2. CASE k # m
      BY <1>1, <2>3, <3>2
    <3>. QED
      BY <3>1, <3>2
  <2>6. \A t \in 1..(n + 1) : \E k \in 1..(m + 1) : t \in Within(l[k])
    <3>. SUFFICES ASSUME NEW t \in 1..(n + 1) PROVE \E k \in 1..(m + 1) : t \in Within(l[k])
      OBVIOUS
    <3>1. CASE t = n + 1
      <4>1. t \in Within(l[m + 1]) /\ m + 1 \in 1..(m + 1)
        BY <1>1, <2>1, <2>a, <2>3, <3>1 DEF Within
      <4>. QED
        BY <4>1
    <3>2. CASE t # n + 1
      <4>1. PICK k \in 1..m : t \in Within(list[k])
        BY <1>1, <3>2
      <4>2. k \in 1..(m + 1) /\ l[k] = list[k]
        BY <1>1, <2>3
      <4>. QED
        BY <4>1, <4>2
    <3>. QED
      BY <3>1, <3>2
  <2>7. (m + 1) - 1 = m
    BY <1>1
  <2>8. CutTo(l, n + 1)
    BY <2>3, <2>4, <2>5, <2>6, <2>7, <2>a DEF CutTo
  <2>. QED
    BY <1>4, <2>8 DEF l
<1>5. CASE Extend(list, n + 1) = Append(Front(list), more)
  <2>. DEFINE l == Append(Front(list), more)
  <2>1. /\ more \in WindowRecord /\ more.from = w.from /\ more.to = n + 1
        /\ WindowTo(more, n + 1)
    <3>1. w \in WindowRecord /\ 1 <= w.from /\ w.from <= w.to /\ w.to = n
      BY <1>1 DEF WindowTo
    <3>. HIDE DEF w, m
    <3>2. more \in WindowRecord /\ more.from = w.from /\ more.to = n + 1 /\ w.from \in Nat
      BY <3>1 DEF WindowRecord
    <3>. HIDE DEF more
    <3>. QED
      BY <3>1, <3>2 DEF WindowTo
  <2>. HIDE DEF more
  <2>2. /\ l \in Seq(WindowRecord) /\ Len(l) = m /\ DOMAIN l = 1..m /\ l # <<>>
        /\ \A k \in 1..(m - 1) : l[k] = list[k]
        /\ l[m] = more
    <3>1. /\ l \in Seq(WindowRecord) /\ Len(l) = m /\ l[m] = more
          /\ \A k \in 1..(m - 1) : l[k] = list[k]
      BY <1>1, <2>1, LastExchanged
    <3>. HIDE DEF l, m
    <3>. QED
      BY <1>1, <3>1
  <2>. HIDE DEF l, m, w
  <2>3. \A k \in 1..m : WindowTo(l[k], n + 1) /\ l[k].from = list[k].from
    <3>. SUFFICES ASSUME NEW k \in 1..m PROVE WindowTo(l[k], n + 1) /\ l[k].from = list[k].from
      OBVIOUS
    <3>1. CASE k = m
      BY <2>1, <2>2, <3>1 DEF w, m
    <3>2. CASE k # m
      BY <1>1, <1>3, <2>2, <3>2
    <3>. QED
      BY <3>1, <3>2
  <2>4. \A k \in 1..(m - 1) : l[k].from <= l[k + 1].from
    <3>. SUFFICES ASSUME NEW k \in 1..(m - 1) PROVE l[k].from <= l[k + 1].from
      OBVIOUS
    <3>1. k \in 1..m /\ k + 1 \in 1..m
      BY <1>1
    <3>. QED
      BY <1>1, <2>3, <3>1
  <2>5. \A t \in 1..(n + 1) : \E k \in 1..m : t \in Within(l[k])
    <3>. SUFFICES ASSUME NEW t \in 1..(n + 1) PROVE \E k \in 1..m : t \in Within(l[k])
      OBVIOUS
    <3>1. CASE t = n + 1
      <4>1. t \in Within(l[m]) /\ m \in 1..m
        BY <1>1, <2>1, <2>2, <3>1 DEF Within, WindowTo, WindowRecord
      <4>. QED
        BY <4>1
    <3>2. CASE t # n + 1
      <4>1. PICK k \in 1..m : t \in Within(list[k])
        BY <1>1, <3>2
      <4>2. CASE k = m
        <5>1. t \in Within(more)
          BY <1>1, <2>1, <4>1, <4>2 DEF Within, w, m, WindowRecord
        <5>. QED
          BY <2>2, <4>2, <5>1
      <4>3. CASE k # m
        BY <1>1, <2>2, <4>1, <4>3
      <4>. QED
        BY <4>2, <4>3
    <3>. QED
      BY <3>1, <3>2
  <2>6. CutTo(l, n + 1)
    BY <2>1, <2>2, <2>3, <2>4, <2>5 DEF CutTo
  <2>. QED
    BY <1>5, <2>6 DEF l
<1>. QED
  BY <1>2, <1>4, <1>5

\* Cutting a transcript takes one segment after the other.
LEMMA CutLeft ==
  ASSUME NEW base, NEW c \in Seq(Nat)
  PROVE  \E l : Folding("cut", base, l, c) /\ FoldLeft(Extend, base, c) = l[Len(c)]
<1>. DEFINE n == Len(c)
            it == CHOOSE f : Iterates("cut", base, f, c, n)
<1>0. n \in Nat /\ DOMAIN c = 1..n
  OBVIOUS
<1>1. FoldLeft(Extend, base, c) = it[1..n]
  BY <1>0 DEF FoldLeft, MapThenFoldSet, Iterates, Step
<1>2. Iterates("cut", base, it, c, n)
  <2>1. \E f : Iterates("cut", base, f, c, n)
    BY <1>0, IteratesExists
  <2>. HIDE DEF n
  <2>. QED
    BY <2>1
<1>. HIDE DEF it
<1>. QED
  BY <1>0, <1>1, <1>2, Stepwise

\* The windows that a transcript is cut into leave none of it out.
LEMMA CutCovers == ASSUME Len(cost) \in Nat \ {0} PROVE CutTo(Cut, Len(cost))
<1>. DEFINE n == Len(cost) - 1
            c == [k \in 1..n |-> k + 1]
            base == <<[from |-> 1, to |-> 1, repeats |-> 0, tries |-> 0]>>
<1>0. n \in Nat /\ n + 1 = Len(cost)
  OBVIOUS
<1>a. Cut = FoldLeft(Extend, base, c)
  BY DEF Cut
<1>. HIDE DEF n
<1>1. c \in Seq(Nat) /\ Len(c) = n /\ \A k \in 1..n : c[k] = k + 1
  <2>1. c \in [1..n -> Nat] /\ \A k \in 1..n : c[k] = k + 1
    BY <1>0
  <2>. QED
    BY <1>0, <2>1
<1>. HIDE DEF c
<1>2. PICK l : Folding("cut", base, l, c) /\ FoldLeft(Extend, base, c) = l[n]
  BY <1>1, CutLeft
<1>3. CutTo(base, 1)
  <2>. DEFINE w == [from |-> 1, to |-> 1, repeats |-> 0, tries |-> 0]
  <2>1. w \in WindowRecord /\ WindowTo(w, 1) /\ w.to = 1 /\ 1 \in Within(w)
    BY DEF WindowRecord, WindowTo, Within
  <2>. HIDE DEF w
  <2>2. /\ <<w>> \in Seq(WindowRecord) /\ <<w>> # <<>> /\ Len(<<w>>) = 1
        /\ DOMAIN <<w>> = {1} /\ <<w>>[1] = w
    BY <2>1
  <2>3. CutTo(<<w>>, 1)
    BY <2>1, <2>2 DEF CutTo
  <2>. QED
    BY <2>3 DEF w
<1>. HIDE DEF base
<1>. DEFINE Bad == {i \in 0..n : ~CutTo(l[i], i + 1)}
<1>4. SUFFICES ASSUME Bad # {} PROVE FALSE
  <2>1. n \in 0..n
    BY <1>0
  <2>. QED
    BY <1>0, <1>a, <1>2, <2>1
<1>5. PICK i \in Bad : \A j \in Bad : i <= j
  <2>1. Bad \in SUBSET Nat
    BY <1>0
  <2>. HIDE DEF Bad
  <2>. QED
    BY <1>4, <2>1, LeastNumber
<1>6. i # 0
  <2>1. l[0] = base /\ 0 + 1 = 1
    BY <1>2 DEF Folding
  <2>. QED
    BY <1>3, <1>5, <2>1
<1>7. i \in 1..n /\ i - 1 \in 0..n /\ i - 1 \notin Bad
  BY <1>0, <1>5, <1>6
<1>8. CutTo(l[i - 1], i)
  <2>1. (i - 1) + 1 = i
    BY <1>7
  <2>. QED
    BY <1>7, <2>1
<1>9. l[i] = Extend(l[i - 1], i + 1)
  BY <1>1, <1>2, <1>7 DEF Folding, Step
<1>10. CutTo(l[i], i + 1)
  <2>1. i \in Nat \ {0}
    BY <1>7
  <2>. QED
    BY <1>8, <1>9, <2>1, ExtendCovers
<1>. QED
  BY <1>5, <1>10

\* Folding a short tail into the window before it leaves none out.
LEMMA TailCovers ==
  ASSUME NEW list, NEW n \in Nat \ {0}, CutTo(list, n)
  PROVE  CutTo(WithTail(list), n)
<1>. DEFINE m == Len(list)
            whole == [list[m - 1] EXCEPT !.to = list[m].to]
            l == Append(Front(Front(list)), whole)
<1>1. /\ list \in Seq(WindowRecord) /\ m \in Nat \ {0} /\ DOMAIN list = 1..m
      /\ list # <<>> /\ list[m].to = n
      /\ \A k \in 1..m : list[k] \in WindowRecord /\ WindowTo(list[k], n)
      /\ \A k \in 1..(m - 1) : list[k].from <= list[k + 1].from
      /\ \A t \in 1..n : \E k \in 1..m : t \in Within(list[k])
  <2>1. list \in Seq(WindowRecord) /\ list # <<>>
    BY DEF CutTo
  <2>2. m \in Nat \ {0} /\ DOMAIN list = 1..m
    BY <2>1
  <2>3. \A k \in 1..m : list[k] \in WindowRecord /\ WindowTo(list[k], n)
    BY <2>2 DEF CutTo, WindowTo
  <2>. QED
    BY <2>1, <2>2, <2>3 DEF CutTo
<1>2. WithTail(list) = list \/ (m > 1 /\ WithTail(list) = l)
  BY DEF WithTail, Last
<1>3. ASSUME m > 1 PROVE CutTo(l, n)
  <2>0. m - 1 \in 1..m /\ m \in 1..m /\ m - 1 \in Nat \ {0} /\ (m - 1) + 1 = m
    BY <1>1, <1>3
  <2>1. /\ Front(list) \in Seq(WindowRecord) /\ Len(Front(list)) = m - 1
        /\ \A k \in 1..(m - 1) : Front(list)[k] = list[k]
    BY <1>1, <2>0 DEF Front
  <2>2. Front(list) # <<>>
    BY <2>0, <2>1, EmptySeq
  <2>3. /\ whole \in WindowRecord /\ whole.from = list[m - 1].from /\ whole.to = n
        /\ WindowTo(whole, n)
    <3>. DEFINE v == list[m - 1]
    <3>1. v \in WindowRecord /\ 1 <= v.from /\ v.from <= v.to /\ v.to <= n /\ list[m].to = n
      BY <1>1, <2>0 DEF WindowTo
    <3>2. whole = [v EXCEPT !.to = n]
      BY <1>1
    <3>. HIDE DEF v, m, whole
    <3>3. /\ whole \in WindowRecord /\ whole.from = v.from /\ whole.to = n
          /\ v.from \in Nat /\ v.to \in Nat
      BY <3>1, <3>2 DEF WindowRecord
    <3>4. WindowTo(whole, n)
      BY <3>1, <3>3 DEF WindowTo
    <3>. QED
      BY <3>3, <3>4 DEF v
  <2>. HIDE DEF whole, m
  <2>4. /\ l \in Seq(WindowRecord) /\ Len(l) = m - 1 /\ l # <<>> /\ DOMAIN l = 1..(m - 1)
        /\ \A k \in 1..((m - 1) - 1) : l[k] = list[k]
        /\ l[m - 1] = whole
    <3>1. /\ l \in Seq(WindowRecord) /\ Len(l) = m - 1
          /\ \A k \in 1..((m - 1) - 1) : l[k] = Front(list)[k]
          /\ l[m - 1] = whole
      <4>. DEFINE f == Front(list)
      <4>1. f \in Seq(WindowRecord) /\ f # <<>> /\ Len(f) = m - 1 /\ whole \in WindowRecord
        BY <2>1, <2>2, <2>3
      <4>2. l = Append(Front(f), whole)
        OBVIOUS
      <4>. HIDE DEF f, l
      <4>3. /\ Append(Front(f), whole) \in Seq(WindowRecord)
            /\ Len(Append(Front(f), whole)) = Len(f)
            /\ \A k \in 1..(Len(f) - 1) : Append(Front(f), whole)[k] = f[k]
            /\ Append(Front(f), whole)[Len(f)] = whole
        BY <4>1, LastExchanged
      <4>. QED
        BY <4>1, <4>2, <4>3 DEF f
    <3>2. \A k \in 1..((m - 1) - 1) : k \in 1..(m - 1)
      BY <2>0
    <3>3. l # <<>> /\ DOMAIN l = 1..(m - 1)
      BY <2>0, <3>1, EmptySeq
    <3>. QED
      BY <2>1, <3>1, <3>2, <3>3
  <2>. HIDE DEF l
  <2>5. \A k \in 1..(m - 1) : WindowTo(l[k], n) /\ l[k].from = list[k].from
    <3>. SUFFICES ASSUME NEW k \in 1..(m - 1) PROVE WindowTo(l[k], n) /\ l[k].from = list[k].from
      OBVIOUS
    <3>1. CASE k = m - 1
      BY <2>3, <2>4, <3>1
    <3>2. CASE k # m - 1
      <4>1. k \in 1..((m - 1) - 1) /\ k \in 1..m
        BY <2>0, <3>2
      <4>. QED
        BY <1>1, <2>4, <4>1
    <3>. QED
      BY <3>1, <3>2
  <2>6. \A k \in 1..((m - 1) - 1) : l[k].from <= l[k + 1].from
    <3>. SUFFICES ASSUME NEW k \in 1..((m - 1) - 1) PROVE l[k].from <= l[k + 1].from
      OBVIOUS
    <3>1. k \in 1..(m - 1) /\ k + 1 \in 1..(m - 1)
      BY <2>0
    <3>. QED
      BY <1>1, <2>5, <3>1
  <2>7. \A t \in 1..n : \E k \in 1..(m - 1) : t \in Within(l[k])
    <3>. SUFFICES ASSUME NEW t \in 1..n PROVE \E k \in 1..(m - 1) : t \in Within(l[k])
      OBVIOUS
    <3>1. PICK k \in 1..m : t \in Within(list[k])
      BY <1>1
    <3>2. CASE k \in 1..((m - 1) - 1)
      <4>1. k \in 1..(m - 1)
        BY <2>0, <3>2
      <4>. QED
        BY <2>4, <3>1, <3>2, <4>1
    <3>3. CASE k = m - 1 \/ k = m
      <4>1. list[m - 1].from <= list[m].from
        BY <1>1, <2>0
      <4>2. /\ list[m - 1].from \in Nat /\ list[m].from \in Nat
            /\ list[m - 1].to \in Nat /\ list[m - 1].to <= n /\ list[m].to = n
        BY <1>1, <2>0 DEF WindowTo, WindowRecord
      <4>3. t \in Within(whole)
        BY <2>3, <3>1, <3>3, <4>1, <4>2 DEF Within
      <4>4. m - 1 \in 1..(m - 1)
        BY <2>0
      <4>. QED
        BY <2>4, <4>3, <4>4
    <3>. QED
      BY <2>0, <3>2, <3>3
  <2>. QED
    BY <2>3, <2>4, <2>5, <2>6, <2>7 DEF CutTo
<1>. QED
  BY <1>2, <1>3

-----------------------------------------------------------------------------
(* The minute: what of the transcript it has not read *)

\* What is counted is finite.
FiniteInv == IsFiniteSet(first) /\ IsFiniteSet(second) /\ IsFiniteSet(script)

\* A segment has been read, is reported as missing, or is in a window still to come.
InReach(t) ==
    \/ t \in covered
    \/ \E w \in unread : t \in Within(w)
    \/ \E k \in DOMAIN pending : t \in Within(pending[k])

WindowsInv ==
    /\ cost \in Seq(Costs) /\ blank \in Nat
    /\ pending \in Seq(WindowRecord) /\ \A k \in DOMAIN pending : WindowTo(pending[k], Len(cost))
    /\ \A w \in unread : WindowTo(w, Len(cost))
    /\ covered \subseteq 1..Len(cost)
    /\ draft \in {"none", "cut"} => covered = {} /\ unread = {}
    /\ draft = "cut" => cost # <<>>
    /\ draft \in {"map", "summarise", "done"} => \A t \in 1..Len(cost) : InReach(t)
    /\ draft # "map" => pending = <<>>

ToldInv ==
    /\ document # NoDocument => draft = "done"
    /\ GapsAreConfessed

GapsInv == FiniteInv /\ WindowsInv /\ ToldInv

\* The rows that a pass leaves.
Rows(S, n, active) == {Row(s, n, active) : s \in S}

\* A pass leaves as many rows as it has segments, at the most.
LEMMA RowsAreFinite ==
  ASSUME NEW S, IsFiniteSet(S), NEW n, NEW active
  PROVE  IsFiniteSet(Rows(S, n, active))
<1>. DEFINE f == [s \in S |-> Row(s, n, active)]
            T == {Row(s, n, active) : s \in S}
<1>1. f \in [S -> T] /\ \A t \in T : \E s \in S : f[s] = t
  OBVIOUS
<1>. HIDE DEF f, T
<1>2. f \in Surjection(S, T)
  BY <1>1 DEF Surjection
<1>. QED
  BY <1>2, FS_Surjection DEF T, Rows

\* A decoded window adds two segments at the most.
LEMMA SpeechStaysFinite == ASSUME FiniteInv, SpeechNext PROVE FiniteInv'
<1>0. ASSUME NEW x, NEW y PROVE IsFiniteSet({x}) /\ IsFiniteSet({x, y})
  <2>1. {x, y} = {x} \cup {y}
    OBVIOUS
  <2>2. IsFiniteSet({x}) /\ IsFiniteSet({y})
    BY FS_Singleton
  <2>3. IsFiniteSet({x} \cup {y})
    BY <2>2, FS_Union
  <2>. QED
    BY <2>1, <2>2, <2>3
<1>1. ASSUME NEW w, NEW texts, NEW U \in Utterances(w, texts) PROVE IsFiniteSet(U)
  <2>. DEFINE e == Extent(w)
              Uttered(s, x) == [at |-> s, text |-> x, region |-> Attributed(s, w)]
              Inside == {s \in [from : Ticks(e), to : (e.from + 1)..e.to] : s.from < s.to}
              Middle == (e.from + 1)..(e.to - 1)
              One(s, x) == {Uttered(s, x)}
              Two(m, x, y) == {Uttered(Span(e.from, m), x), Uttered(Span(m, e.to), y)}
  <2>1. \/ U = {} \/ U \in {One(s, x) : s \in Inside, x \in texts}
        \/ U \in {Two(m, x, y) : m \in Middle, x \in texts, y \in texts}
    BY <1>1 DEF Utterances
  <2>2. \A s, x : IsFiniteSet(One(s, x))
    BY <1>0
  <2>3. \A m, x, y : IsFiniteSet(Two(m, x, y))
    BY <1>0
  <2>. HIDE DEF e, Inside, Middle, One, Two
  <2>4. CASE U \in {One(s, x) : s \in Inside, x \in texts}
    <3>1. PICK s \in Inside, x \in texts : U = One(s, x)
      BY <2>4
    <3>. QED
      BY <2>2, <3>1
  <2>5. CASE U \in {Two(m, x, y) : m \in Middle, x \in texts, y \in texts}
    <3>1. PICK m \in Middle, x \in texts, y \in texts : U = Two(m, x, y)
      BY <2>5
    <3>. QED
      BY <2>3, <3>1
  <2>. QED
    BY <2>1, <2>4, <2>5, FS_EmptySet
<1>2. CASE DecodeFirst
  <2>1. PICK U \in Utterances(Head(queue), {"clean", "poor", "empty"}) : first' = first \union U
    BY <1>2 DEF DecodeFirst
  <2>. QED
    BY <1>1, <1>2, <2>1, FS_Union DEF DecodeFirst, FiniteInv
<1>3. CASE DecodeSecond
  <2>1. PICK U \in Utterances(Head(queue), {"clean", "empty"}) : second' = second \union U
    BY <1>3 DEF DecodeSecond
  <2>. QED
    BY <1>1, <1>3, <2>1, FS_Union DEF DecodeSecond, FiniteInv
<1>4. CASE KeepFirstPass
  <2>1. IsFiniteSet(first)
    BY DEF FiniteInv
  <2>2. IsFiniteSet(Rows(first, 1, TRUE))
    BY <2>1, RowsAreFinite
  <2>. QED
    BY <1>4, <2>2 DEF KeepFirstPass, FiniteInv, Rows
<1>5. CASE Merge
  <2>. DEFINE later == {t \in second : t.region \in Replaced}
              a == Rows(first, 1, FALSE)
              b == Rows(first, 1, TRUE)
              c == Rows(later, 2, TRUE)
  <2>1. IsFiniteSet(later)
    BY FS_Subset DEF FiniteInv
  <2>f. IsFiniteSet(first)
    BY DEF FiniteInv
  <2>. HIDE DEF later
  <2>a. IsFiniteSet(a)
    BY <2>f, RowsAreFinite
  <2>b. IsFiniteSet(b)
    BY <2>f, RowsAreFinite
  <2>c. IsFiniteSet(c)
    BY <2>1, RowsAreFinite
  <2>3. script' \subseteq (a \cup b) \cup c
    BY <1>5 DEF Merge, later, Rows
  <2>. HIDE DEF a, b, c
  <2>4. IsFiniteSet((a \cup b) \cup c)
    BY <2>a, <2>b, <2>c, FS_Union
  <2>5. IsFiniteSet(script')
    BY <2>3, <2>4, FS_Subset
  <2>. QED
    BY <1>5, <2>5 DEF Merge, FiniteInv
<1>6. CASE Abandon
  BY <1>6, FS_EmptySet DEF Abandon, FiniteInv
<1>7. CASE WriteChunk \/ SkipChunk \/ FinishCopy \/ Detect \/ NothingToDetect \/ Plan
           \/ Select \/ WithoutSecondPass
  BY <1>7 DEF WriteChunk, SkipChunk, FinishCopy, Detect, NothingToDetect, Plan, Select,
              WithoutSecondPass, passVars, FiniteInv
<1>. QED
  BY <1>2, <1>3, <1>4, <1>5, <1>6, <1>7 DEF SpeechNext

\* The transcript that the minute is drafted from is a list.
LEMMA LoadKeepsGaps == ASSUME GapsInv, LoadTranscript PROVE GapsInv'
<1>. DEFINE active == {s \in script : s.active}
            empty == {s \in active : s.text = "empty"}
            n == Cardinality(active \ empty)
<1>1. /\ TakeTranscript(n) /\ blank' = Cardinality(empty)
      /\ first' = {} /\ second' = {} /\ script' = {} /\ document' = document
  BY DEF LoadTranscript
<1>2. n \in Nat /\ blank' \in Nat
  <2>1. IsFiniteSet(active \ empty) /\ IsFiniteSet(empty)
    BY FS_Subset DEF GapsInv, FiniteInv
  <2>. HIDE DEF active, empty
  <2>. QED
    BY <1>1, <2>1, FS_CardinalityType
<1>. HIDE DEF n, empty
<1>3. /\ draft = "none" /\ draft' = (IF n = 0 THEN "done" ELSE "cut") /\ cost' \in [1..n -> Costs]
      /\ UNCHANGED <<pending, covered, unread, document>>
      /\ covered = {} /\ unread = {} /\ pending = <<>> /\ document = NoDocument
  BY <1>1 DEF TakeTranscript, GapsInv, WindowsInv, ToldInv
<1>4. cost' \in Seq(Costs) /\ Len(cost') = n /\ (n # 0 => cost' # <<>>)
  BY <1>2, <1>3
<1>5. WindowsInv'
  <2>1. 1..0 = {}
    OBVIOUS
  <2>2. pending' \in Seq(WindowRecord) /\ DOMAIN pending' = {}
    BY <1>3
  <2>. QED
    BY <1>2, <1>3, <1>4, <2>1, <2>2 DEF WindowsInv
<1>6. ToldInv'
  BY <1>3 DEF ToldInv, GapsAreConfessed, NoDocument
<1>. QED
  BY <1>1, <1>5, <1>6, FS_EmptySet DEF GapsInv, FiniteInv

\* The segments of a window are in either half of it.
LEMMA HalvesHold ==
  ASSUME NEW w \in WindowRecord, NEW n \in Nat, WindowTo(w, n), Size(w) > 1
  PROVE  /\ Halves(w) \in Seq(WindowRecord) /\ Len(Halves(w)) = 2
         /\ WindowTo(Halves(w)[1], n) /\ WindowTo(Halves(w)[2], n)
         /\ \A t \in Within(w) : t \in Within(Halves(w)[1]) \/ t \in Within(Halves(w)[2])
<1>. DEFINE middle == w.from + (Size(w) \div 2)
            a == [w EXCEPT !.to = middle - 1, !.tries = 1]
            b == [w EXCEPT !.from = middle, !.repeats = 0, !.tries = 1]
<1>1. w.from \in Nat /\ w.to \in Nat /\ w.repeats \in Nat /\ w.tries \in Nat
  BY DEF WindowRecord
<1>2. /\ middle \in Nat /\ w.from < middle /\ middle <= w.to /\ middle - 1 \in Nat
      /\ w.from <= middle - 1
  <2>1. Size(w) \in Nat /\ w.to + 1 = w.from + Size(w)
    BY <1>1 DEF Size
  <2>2. ASSUME NEW k \in Nat, k > 1 PROVE k \div 2 \in Nat /\ k \div 2 >= 1 /\ k \div 2 <= k - 1
    BY <2>2
  <2>3. Size(w) \div 2 \in Nat /\ Size(w) \div 2 >= 1 /\ Size(w) \div 2 <= Size(w) - 1
    BY <2>1, <2>2
  <2>. QED
    BY <1>1, <2>1, <2>3
<1>3. Halves(w) = <<a, b>>
  BY DEF Halves
<1>. HIDE DEF middle
<1>4. /\ a \in WindowRecord /\ a.from = w.from /\ a.to = middle - 1
      /\ b \in WindowRecord /\ b.from = middle /\ b.to = w.to
  BY <1>1, <1>2 DEF WindowRecord
<1>. HIDE DEF a, b
<1>5. WindowTo(a, n) /\ WindowTo(b, n)
  BY <1>1, <1>2, <1>4 DEF WindowTo
<1>6. \A t \in Within(w) : t \in Within(a) \/ t \in Within(b)
  BY <1>1, <1>2, <1>4 DEF Within
<1>7. /\ <<a, b>> \in Seq(WindowRecord) /\ Len(<<a, b>>) = 2
      /\ <<a, b>>[1] = a /\ <<a, b>>[2] = b
  BY <1>4
<1>. QED
  BY <1>3, <1>5, <1>6, <1>7

\* What is left of the windows when the first is taken.
LEMMA TailWindows ==
  ASSUME NEW q \in Seq(WindowRecord), q # <<>>, NEW n, \A k \in DOMAIN q : WindowTo(q[k], n)
  PROVE  /\ Tail(q) \in Seq(WindowRecord) /\ \A k \in DOMAIN Tail(q) : WindowTo(Tail(q)[k], n)
         /\ Head(q) \in WindowRecord /\ WindowTo(Head(q), n)
         /\ \A t : (\E k \in DOMAIN q : t \in Within(q[k])) =>
              t \in Within(Head(q)) \/ \E k \in DOMAIN Tail(q) : t \in Within(Tail(q)[k])
<1>1. /\ Tail(q) \in Seq(WindowRecord) /\ DOMAIN Tail(q) = 1..(Len(q) - 1) /\ DOMAIN q = 1..Len(q)
      /\ Len(q) \in Nat \ {0} /\ Head(q) = q[1] /\ \A k \in 1..(Len(q) - 1) : Tail(q)[k] = q[k + 1]
  OBVIOUS
<1>2. ASSUME NEW k \in DOMAIN q
      PROVE  k = 1 \/ (k - 1 \in DOMAIN Tail(q) /\ q[k] = Tail(q)[k - 1])
  <2>1. k \in 1..Len(q)
    BY <1>1
  <2>2. CASE k # 1
    <3>1. k - 1 \in 1..(Len(q) - 1) /\ (k - 1) + 1 = k
      BY <1>1, <2>1, <2>2
    <3>. QED
      BY <1>1, <3>1
  <2>. QED
    BY <2>2
<1>3. \A k \in DOMAIN Tail(q) : k + 1 \in DOMAIN q /\ Tail(q)[k] = q[k + 1]
  BY <1>1
<1>4. Head(q) \in WindowRecord /\ WindowTo(Head(q), n)
  BY <1>1
<1>5. \A k \in DOMAIN Tail(q) : WindowTo(Tail(q)[k], n)
  BY <1>3
<1>6. ASSUME NEW t, NEW k \in DOMAIN q, t \in Within(q[k])
      PROVE  t \in Within(Head(q)) \/ \E j \in DOMAIN Tail(q) : t \in Within(Tail(q)[j])
  <2>1. CASE k = 1
    BY <1>1, <1>6, <2>1
  <2>2. CASE k - 1 \in DOMAIN Tail(q) /\ q[k] = Tail(q)[k - 1]
    BY <1>6, <2>2
  <2>. QED
    BY <1>2, <2>1, <2>2
<1>. QED
  BY <1>1, <1>4, <1>5, <1>6

\* Windows that are appended to others are among them.
LEMMA MoreWindows ==
  ASSUME NEW p \in Seq(WindowRecord), NEW q \in Seq(WindowRecord), NEW n,
         \A k \in DOMAIN p : WindowTo(p[k], n), \A k \in DOMAIN q : WindowTo(q[k], n)
  PROVE  /\ p \o q \in Seq(WindowRecord) /\ \A k \in DOMAIN (p \o q) : WindowTo((p \o q)[k], n)
         /\ \A k \in DOMAIN p : \E j \in DOMAIN (p \o q) : (p \o q)[j] = p[k]
         /\ \A k \in DOMAIN q : \E j \in DOMAIN (p \o q) : (p \o q)[j] = q[k]
<1>. DEFINE r == p \o q
            a == Len(p)
            b == Len(q)
<1>1. /\ r \in Seq(WindowRecord) /\ DOMAIN r = 1..(a + b) /\ DOMAIN p = 1..a /\ DOMAIN q = 1..b
      /\ a \in Nat /\ b \in Nat
      /\ \A k \in 1..a : r[k] = p[k]
      /\ \A k \in (a + 1)..(a + b) : r[k] = q[k - a]
  OBVIOUS
<1>. HIDE DEF r, a, b
<1>2. \A k \in 1..b : k + a \in (a + 1)..(a + b) /\ (k + a) - a = k
  BY <1>1
<1>3. \A k \in 1..(a + b) : k \in 1..a \/ (k \in (a + 1)..(a + b) /\ k - a \in 1..b)
  BY <1>1
<1>4. \A k \in 1..(a + b) : WindowTo(r[k], n)
  BY <1>1, <1>3
<1>5. \A k \in 1..b : k + a \in 1..(a + b) /\ r[k + a] = q[k]
  BY <1>1, <1>2
<1>6. \A k \in 1..a : k \in 1..(a + b) /\ r[k] = p[k]
  BY <1>1
<1>7. /\ \A k \in DOMAIN p : \E j \in DOMAIN r : r[j] = p[k]
      /\ \A k \in DOMAIN q : \E j \in DOMAIN r : r[j] = q[k]
  BY <1>1, <1>5, <1>6
<1>. QED
  BY <1>1, <1>4, <1>7 DEF r

\* The windows that are cut hold the whole transcript.
LEMMA BuildKeepsWindows ==
  ASSUME WindowsInv, BuildWindows, blank' = blank PROVE WindowsInv'
<1>1. /\ draft = "cut" /\ draft' = "map" /\ pending' = WithTail(Cut)
      /\ UNCHANGED <<cost, covered, unread, blank>>
  BY DEF BuildWindows
<1>2. Len(cost) \in Nat \ {0}
  BY <1>1 DEF WindowsInv
<1>3. CutTo(WithTail(Cut), Len(cost))
  BY <1>2, CutCovers, TailCovers
<1>. QED
  BY <1>1, <1>3 DEF WindowsInv, CutTo, InReach

\* The first window is answered, or is reported as missing.
LEMMA TakenKeepsWindows ==
  ASSUME WindowsInv, draft = "map", draft' = draft, pending # <<>>, pending' = Tail(pending),
         UNCHANGED <<cost, blank>>,
         \/ covered' = covered \union Within(Head(pending)) /\ unread' = unread
         \/ covered' = covered /\ unread' = unread \union {Head(pending)}
  PROVE  WindowsInv'
<1>. DEFINE n == Len(cost)
            w == Head(pending)
<1>1. /\ cost \in Seq(Costs) /\ blank \in Nat
      /\ pending \in Seq(WindowRecord) /\ \A k \in DOMAIN pending : WindowTo(pending[k], n)
      /\ \A u \in unread : WindowTo(u, n)
      /\ covered \subseteq 1..n
      /\ \A t \in 1..n : InReach(t)
  BY DEF WindowsInv
<1>2. /\ pending' \in Seq(WindowRecord) /\ \A k \in DOMAIN pending' : WindowTo(pending'[k], n)
      /\ WindowTo(w, n)
      /\ \A t : (\E k \in DOMAIN pending : t \in Within(pending[k])) =>
           t \in Within(w) \/ \E k \in DOMAIN pending' : t \in Within(pending'[k])
  <2>. HIDE DEF n
  <2>. QED
    BY <1>1, TailWindows
<1>3. Within(w) \subseteq 1..n
  BY <1>2 DEF WindowTo, Within, WindowRecord
<1>4. covered' \subseteq 1..n /\ \A u \in unread' : WindowTo(u, n)
  <2>. HIDE DEF n, w
  <2>. QED
    BY <1>1, <1>2, <1>3 DEF w
<1>5. \A t \in 1..n : InReach(t)'
  <2>. HIDE DEF n
  <2>. QED
    BY <1>1, <1>2 DEF InReach
<1>6. n' = n
  OBVIOUS
<1>. QED
  BY <1>1, <1>2, <1>4, <1>5, <1>6 DEF WindowsInv

\* The two halves of a window come last.
LEMMA HalvedKeepsWindows ==
  ASSUME WindowsInv, draft = "map", draft' = draft, pending # <<>>,
         Size(Head(pending)) > 1, pending' = Tail(pending) \o Halves(Head(pending)),
         UNCHANGED <<cost, blank, covered, unread>>
  PROVE  WindowsInv'
<1>. DEFINE n == Len(cost)
            w == Head(pending)
            h == Halves(w)
<1>1. /\ cost \in Seq(Costs) /\ blank \in Nat
      /\ pending \in Seq(WindowRecord) /\ \A k \in DOMAIN pending : WindowTo(pending[k], n)
      /\ \A u \in unread : WindowTo(u, n)
      /\ covered \subseteq 1..n
      /\ \A t \in 1..n : InReach(t)
  BY DEF WindowsInv
<1>2. n \in Nat /\ n' = n
  BY <1>1
<1>. HIDE DEF n
<1>3. /\ Tail(pending) \in Seq(WindowRecord)
      /\ \A k \in DOMAIN Tail(pending) : WindowTo(Tail(pending)[k], n)
      /\ w \in WindowRecord /\ WindowTo(w, n)
      /\ \A t : (\E k \in DOMAIN pending : t \in Within(pending[k])) =>
           t \in Within(w) \/ \E k \in DOMAIN Tail(pending) : t \in Within(Tail(pending)[k])
  BY <1>1, TailWindows
<1>4. Size(w) > 1 /\ pending' = Tail(pending) \o h
  OBVIOUS
<1>. HIDE DEF w
<1>5. /\ h \in Seq(WindowRecord) /\ Len(h) = 2 /\ WindowTo(h[1], n) /\ WindowTo(h[2], n)
      /\ \A t \in Within(w) : t \in Within(h[1]) \/ t \in Within(h[2])
  BY <1>2, <1>3, <1>4, HalvesHold
<1>. HIDE DEF h
<1>6. DOMAIN h = 1..2 /\ 1 \in DOMAIN h /\ 2 \in DOMAIN h /\ \A k \in DOMAIN h : WindowTo(h[k], n)
  <2>1. DOMAIN h = 1..2
    BY <1>5
  <2>2. \A k \in 1..2 : k = 1 \/ k = 2
    OBVIOUS
  <2>. QED
    BY <1>5, <2>1, <2>2
<1>7. /\ pending' \in Seq(WindowRecord) /\ \A k \in DOMAIN pending' : WindowTo(pending'[k], n)
      /\ \A k \in DOMAIN Tail(pending) : \E j \in DOMAIN pending' : pending'[j] = Tail(pending)[k]
      /\ \A k \in DOMAIN h : \E j \in DOMAIN pending' : pending'[j] = h[k]
  <2>. DEFINE p == Tail(pending)
  <2>1. p \in Seq(WindowRecord) /\ \A k \in DOMAIN p : WindowTo(p[k], n)
    BY <1>3
  <2>. HIDE DEF p
  <2>2. /\ p \o h \in Seq(WindowRecord) /\ \A k \in DOMAIN (p \o h) : WindowTo((p \o h)[k], n)
        /\ \A k \in DOMAIN p : \E j \in DOMAIN (p \o h) : (p \o h)[j] = p[k]
        /\ \A k \in DOMAIN h : \E j \in DOMAIN (p \o h) : (p \o h)[j] = h[k]
    BY <1>5, <1>6, <2>1, MoreWindows
  <2>3. pending' = p \o h
    BY <1>4 DEF p
  <2>. QED
    BY <2>2, <2>3 DEF p
<1>8. \A t \in 1..n : InReach(t)'
  <2>. SUFFICES ASSUME NEW t \in 1..n PROVE InReach(t)'
    OBVIOUS
  <2>1. CASE t \in covered \/ \E u \in unread : t \in Within(u)
    BY <2>1 DEF InReach, Within
  <2>2. CASE \E k \in DOMAIN pending : t \in Within(pending[k])
    <3>1. CASE \E k \in DOMAIN Tail(pending) : t \in Within(Tail(pending)[k])
      BY <1>7, <3>1 DEF InReach
    <3>2. CASE t \in Within(w)
      <4>1. \E k \in DOMAIN h : t \in Within(h[k])
        BY <1>5, <1>6, <3>2
      <4>. QED
        BY <1>7, <4>1 DEF InReach
    <3>. QED
      BY <1>3, <2>2, <3>1, <3>2
  <2>. QED
    BY <1>1, <2>1, <2>2 DEF InReach
<1>9. Len(cost)' = n /\ Len(cost) = n
  BY <1>2 DEF n
<1>. QED
  BY <1>1, <1>7, <1>8, <1>9 DEF WindowsInv, n

\* Each step of the drafting keeps the transcript in reach.
LEMMA DraftKeepsWindows ==
  ASSUME WindowsInv, DraftNext, blank' = blank PROVE WindowsInv'
<1>1. CASE BuildWindows
  BY <1>1, BuildKeepsWindows
<1>2. CASE ReadAnswer
  BY <1>2, TakenKeepsWindows DEF ReadAnswer
<1>3. CASE MissAnswer
  BY <1>3, TakenKeepsWindows DEF MissAnswer
<1>4. CASE CutAnswer
  <2>1. CASE Head(pending).tries = 0 /\ Size(Head(pending)) > 1
    BY <1>4, <2>1, HalvedKeepsWindows DEF CutAnswer
  <2>2. CASE ~(Head(pending).tries = 0 /\ Size(Head(pending)) > 1)
    BY <1>4, <2>2, TakenKeepsWindows DEF CutAnswer
  <2>. QED
    BY <2>1, <2>2
<1>5. CASE Stop
  <2>1. pending' \in Seq(WindowRecord) /\ DOMAIN pending' = {}
    BY <1>5 DEF Stop
  <2>. QED
    BY <1>5, <2>1 DEF Stop, WindowsInv
<1>6. CASE Reduce
  BY <1>6 DEF Reduce, WindowsInv, InReach, Within
<1>7. CASE Summarise
  BY <1>7 DEF Summarise, WindowsInv, InReach, Within
<1>. QED
  BY <1>1, <1>2, <1>3, <1>4, <1>5, <1>6, <1>7 DEF DraftNext

\* There is no document before the drafting is done, and nothing is drafted after.
LEMMA DraftKeepsGaps ==
  ASSUME GapsInv, DraftNext, UNCHANGED <<speechVars, blank, document>> PROVE GapsInv'
<1>1. WindowsInv'
  BY DraftKeepsWindows DEF GapsInv
<1>2. FiniteInv'
  BY DEF GapsInv, FiniteInv, speechVars, passVars
<1>3. draft # "done"
  BY DEF DraftNext, BuildWindows, ReadAnswer, MissAnswer, CutAnswer, Stop, Reduce, Summarise
<1>4. document = NoDocument /\ document' = NoDocument
  BY <1>3 DEF GapsInv, ToldInv
<1>5. ToldInv'
  BY <1>4 DEF ToldInv, GapsAreConfessed, NoDocument
<1>. QED
  BY <1>1, <1>2, <1>5 DEF GapsInv

\* As many segments have been covered as there are: all of them, and none without text.
LEMMA DocumentKeepsGaps ==
  ASSUME GapsInv, NEW hide, BuildDocument(hide), UNCHANGED speechVars PROVE GapsInv'
<1>1. /\ draft = "done" /\ UNCHANGED <<draftVars, blank>>
      /\ document'.whole = (Cardinality(covered) >= Len(cost) + blank)
  BY DEF BuildDocument, CoveredTime, TranscriptTime
<1>2. cost \in Seq(Costs) /\ Len(cost) \in Nat /\ blank \in Nat /\ covered \subseteq 1..Len(cost)
  BY DEF GapsInv, WindowsInv
<1>3. WindowsInv'
  BY <1>1 DEF GapsInv, WindowsInv, draftVars, InReach, Within
<1>4. FiniteInv'
  BY DEF GapsInv, FiniteInv, speechVars, passVars
<1>5. ASSUME document'.whole PROVE covered = DOMAIN cost
  <2>. DEFINE N == 1..Len(cost)
  <2>1. IsFiniteSet(N) /\ Cardinality(N) = Len(cost)
    <3>1. Cardinality(1..Len(cost)) = IF 1 > Len(cost) THEN 0 ELSE Len(cost) - 1 + 1
      BY <1>2, FS_Interval
    <3>. QED
      BY <1>2, <3>1, FS_Interval
  <2>. HIDE DEF N
  <2>2. covered \subseteq N
    BY <1>2 DEF N
  <2>3. Cardinality(covered) \in Nat /\ Cardinality(covered) >= Cardinality(N)
    <3>1. IsFiniteSet(covered)
      BY <2>1, <2>2, FS_Subset
    <3>2. Cardinality(covered) \in Nat
      BY <3>1, FS_CardinalityType
    <3>3. Cardinality(covered) >= Len(cost) + blank
      BY <1>1, <1>5, Zenon
    <3>. QED
      BY <1>2, <2>1, <3>2, <3>3
  <2>4. /\ Cardinality(covered) <= Cardinality(N)
        /\ Cardinality(covered) = Cardinality(N) => covered = N
    BY <2>1, <2>2, FS_Subset
  <2>5. covered = N
    BY <1>2, <2>1, <2>3, <2>4
  <2>. QED
    BY <1>2, <2>5 DEF N
<1>6. ToldInv'
  BY <1>1, <1>5 DEF ToldInv, GapsAreConfessed, Said, draftVars
<1>. QED
  BY <1>3, <1>4, <1>6 DEF GapsInv

\* At first there is no transcript.
LEMMA GapsInitially == ASSUME PipelineInit PROVE GapsInv
<1>1. FiniteInv
  BY FS_EmptySet DEF PipelineInit, SpeechInit, FiniteInv
<1>2. /\ draft = "none" /\ cost = <<>> /\ pending = <<>> /\ covered = {} /\ unread = {}
      /\ blank = 0 /\ document = NoDocument
  BY DEF PipelineInit, DraftInit, DocumentInit
<1>3. /\ cost \in Seq(Costs) /\ pending \in Seq(WindowRecord) /\ DOMAIN pending = {}
  BY <1>2
<1>. QED
  BY <1>1, <1>2, <1>3 DEF GapsInv, WindowsInv, ToldInv, GapsAreConfessed, NoDocument

\* The transcript stays in reach, from the first window to the document.
LEMMA GapsAlways == PipelineSpec => []GapsInv
<1>1. PipelineInit => GapsInv
  BY GapsInitially
<1>2. GapsInv /\ [PipelineNext]_pipelineVars => GapsInv'
  <2>. SUFFICES ASSUME GapsInv, [PipelineNext]_pipelineVars PROVE GapsInv'
    OBVIOUS
  <2>1. CASE SpeechNext /\ UNCHANGED <<draftVars, blank, document>>
    <3>1. FiniteInv'
      BY <2>1, SpeechStaysFinite DEF GapsInv
    <3>. QED
      BY <2>1, <3>1 DEF GapsInv, WindowsInv, ToldInv, GapsAreConfessed, draftVars, InReach,
                        Within, Said
  <2>2. CASE LoadTranscript
    BY <2>2, LoadKeepsGaps
  <2>3. CASE DraftNext /\ UNCHANGED <<speechVars, blank, document>>
    BY <2>3, DraftKeepsGaps
  <2>4. CASE \E hide \in BOOLEAN : BuildDocument(hide) /\ UNCHANGED speechVars
    BY <2>4, DocumentKeepsGaps
  <2>5. CASE UNCHANGED pipelineVars
    BY <2>5 DEF pipelineVars, speechVars, passVars, draftVars, GapsInv, FiniteInv, WindowsInv,
                ToldInv, GapsAreConfessed, InReach, Within, Said
  <2>. QED
    BY <2>1, <2>2, <2>3, <2>4, <2>5 DEF PipelineNext
<1>. QED
  BY <1>1, <1>2, PTL DEF PipelineSpec

\* What is out of reach of the windows has been read or is reported.
LEMMA NothingIsMissed == ASSUME GapsInv PROVE NothingIsMissedSilently
<1>. SUFFICES ASSUME draft \in {"summarise", "done"}
              PROVE  Said = covered \union UNION {Within(w) : w \in unread}
  BY DEF NothingIsMissedSilently
<1>1. /\ cost \in Seq(Costs) /\ pending = <<>> /\ covered \subseteq 1..Len(cost)
      /\ \A t \in 1..Len(cost) : InReach(t)
      /\ \A w \in unread : WindowTo(w, Len(cost))
  BY DEF GapsInv, WindowsInv
<1>2. Said = 1..Len(cost)
  BY <1>1 DEF Said
<1>3. \A w \in unread : Within(w) \subseteq 1..Len(cost)
  BY <1>1 DEF WindowTo, Within, WindowRecord
<1>4. \A t \in 1..Len(cost) : t \in covered \/ \E w \in unread : t \in Within(w)
  BY <1>1 DEF InReach
<1>. QED
  BY <1>1, <1>2, <1>3, <1>4

\* However the transcript is cut, and whichever answers are missing, cut off or halved, each
\* of its segments is in a window that was read or in one the minute reports, and a document
\* that claims the whole transcript has all of it (generator.py, document.py).
THEOREM TranscriptIsAccountedFor == PipelineSpec => []MeetingIsAccountedFor
<1>1. GapsInv => MeetingIsAccountedFor
  BY NothingIsMissed DEF GapsInv, ToldInv, MeetingIsAccountedFor
<1>. QED
  BY <1>1, GapsAlways, PTL

=============================================================================
