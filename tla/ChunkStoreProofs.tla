-------------------------- MODULE ChunkStoreProofs --------------------------
(***************************************************************************)
(* What TLAPS proves of ChunkStore, for every number of chunks, frames to  *)
(* a chunk, crashes and disk errors.                                       *)
(***************************************************************************)
EXTENDS ChunkStore, FiniteSetTheorems, TLAPS

WriterSteps == {"opening", "open", "sync", "build", "check", "rename", "discard",
                "forget", "append", "mirror"}
PassSteps == {"sweep", "next", "replace", "append", "event", "clean", "cleanMeta", "close"}

\* The files of one chunk, one by one.
Gone(s) == part[s] = Absent
Recorded(s) == \E l \in lines : l.seq = s
RecordedSeqs == {l.seq : l \in Readable}

Typed ==
    /\ TypeOK /\ IsFiniteSet(lines) /\ w \in WriterSteps \cup {"idle", "exited", "dead"}
    /\ r \in PassSteps \cup {"off", "done"} /\ crashes \in Nat /\ faults \in Nat

\* A chunk that was not begun has left no trace; a partial is the only copy of its
\* audio, or the final chunk was built from all of it.
FilesInv ==
    /\ \A s \in Seqs : s >= nextSeq =>
          /\ Gone(s) /\ tmp[s] = Absent /\ rec[s] = Absent /\ wav[s] = Absent
          /\ quar[s] = Absent
    /\ \A s \in Seqs : ~Gone(s) => /\ quar[s] = Absent
                                   /\ wav[s] # Absent => part[s] = wav[s]

\* A line is of the final chunk it names, one to a chunk; a row has its line.
LinesInv ==
    /\ \A l \in lines : wav[l.seq] = l.frames
    /\ \A l, m \in lines : l.seq = m.seq => l = m
    /\ ManifestAheadOfDatabase

\* The chunk the recorder is at.
ChunkInv ==
    /\ w \in WriterSteps => seq + 1 = nextSeq
    /\ w \in {"opening", "open", "sync", "build", "check", "rename"} => wav[seq] = Absent
    /\ w = "opening" => Gone(seq) /\ frames = 0
    /\ w \in {"open", "sync", "build"} => part[seq] \in 0..frames
    /\ w = "open" => frames < F
    /\ w \in {"build", "check", "rename", "append", "mirror"} => frames > 0
    /\ w \in {"check", "rename"} => tmp[seq] = part[seq] /\ ~Gone(seq)
    /\ w = "discard" => IF frames = 0 THEN part[seq] = 0 /\ wav[seq] = Absent
                                      ELSE ~Gone(seq) /\ wav[seq] = part[seq]
    /\ w = "forget" => IF frames = 0 THEN part[seq] \in {Absent, 0} /\ wav[seq] = Absent
                                     ELSE wav[seq] # Absent
    /\ w \in {"append", "mirror"} => wav[seq] # Absent
    /\ w \in WriterSteps \ {"mirror"} => ~Recorded(seq)
    /\ w = "mirror" => Recorded(seq)

\* While the recorder is there it is alone.
WriterInv ==
    /\ Alive => /\ r = "off" /\ ~torn /\ summary = <<>> /\ \A l \in lines : l.readable
                /\ \A s \in Seqs : rec[s] = Absent /\ quar[s] = Absent
    /\ ChunkInv

\* What a pass has still to do is what it has not done, and nothing but that.
PassInv ==
    /\ r \in PassSteps => ~Alive /\ known \subseteq RecordedSeqs
    /\ r \in {"sweep", "next", "cleanMeta"} => todo = Partials
    /\ r \in {"replace", "append", "event", "clean"} =>
          cur \notin todo /\ Partials = todo \cup {cur}
    /\ r \in PassSteps \ {"sweep", "replace"} => Temporaries = {}
    /\ r = "replace" => /\ wav[cur] = Absent /\ rec[cur] = part[cur]
                        /\ Temporaries = {cur} /\ tmp[cur] = Absent
    /\ r \in {"append", "event", "clean"} => wav[cur] # Absent
    /\ r = "append" => ~Recorded(cur)
    /\ r = "close" => Partials = {} /\ meta = {}
    /\ PassLeavesNothing

\* Without a disk error, the chunks before the last one are in the manifest, no
\* partial but that of the open chunk is left, and a summary is complete.
CleanInv ==
    faults = 0 =>
        /\ \A s \in Seqs : s + 1 < nextSeq => Recorded(s)
        /\ \A s \in Seqs : w \in {"idle", "mirror"} /\ s < nextSeq => Recorded(s)
        /\ Alive => \A s \in Seqs : ~Gone(s) => s = seq /\ w \in WriterSteps
        /\ w \in {"forget", "append", "mirror"} => Gone(seq)
        /\ w \in {"sync", "discard", "forget"} => frames > 0
        /\ Alive => listed = Chain({l \in lines : w = "mirror" => l.seq # seq})
        /\ summary # <<>> => Partials = {} /\ summary = <<Chain(Readable)>>

IInv == Typed /\ FilesInv /\ LinesInv /\ WriterInv /\ PassInv /\ CleanInv

-----------------------------------------------------------------------------
(* Numbers and files *)

\* The lowest partial of those a pass has to do is one of them.
LEMMA LowestPartial ==
  ASSUME NEW T \in SUBSET Seqs, T # {}
  PROVE  Min(T) \in T
<1>1. T \in SUBSET Nat
  BY ConstantsAssumption DEF Seqs
<1>2. PICK x \in T : \A y \in T : ~ (<<y, x>> \in OpToRel(<, Nat))
  BY <1>1, NatLessThanWellFounded, WFMin
<1>3. \A y \in T : ~(y < x)
  BY <1>1, <1>2 DEF OpToRel
<1>4. \A y \in T : x <= y
  BY <1>1, <1>3
<1>. QED
  BY <1>4 DEF Min

LEMMA GreatestOf ==
  ASSUME NEW a \in Int, NEW b \in Int, NEW c \in Int, NEW d \in Int
  PROVE  /\ Max({a, b, c, d}) \in {a, b, c, d}
         /\ \A x \in {a, b, c, d} : x <= Max({a, b, c, d})
<1>1. \E x \in {a, b, c, d} : \A y \in {a, b, c, d} : x >= y
  OBVIOUS
<1>2. PICK x \in {a, b, c, d} : \A y \in {a, b, c, d} : x >= y
  BY <1>1
<1>. DEFINE T == {a, b, c, d}
<1>3. Max(T) \in T /\ \A y \in T : Max(T) >= y
  BY <1>2 DEF Max
<1>. QED
  BY <1>3

LEMMA FileSet ==
  ASSUME NEW f \in [Seqs -> FileSize], NEW s \in Seqs, NEW n
  PROVE  /\ \A t \in Seqs : Set(f, s, n)[t] = IF t = s THEN n ELSE f[t]
         /\ n \in FileSize => Set(f, s, n) \in [Seqs -> FileSize]
BY DEF Set

\* The chunk a pass turns to.
LEMMA PickedChunk ==
  ASSUME Typed, PassInv, r = "next", Pick
  PROVE  /\ cur' \in todo /\ todo' = todo \ {cur'} /\ cur' \in Seqs /\ todo' \subseteq Seqs
         /\ ~Gone(cur')
BY LowestPartial DEF Typed, TypeOK, PassInv, Pick, Partials, Gone

LEMMA Numbers ==
  /\ MaxChunks \in Nat \ {0} /\ F \in Nat \ {0} /\ Seqs \subseteq Nat
  /\ \A n \in FileSize : n \in Int /\ (n # Absent => n \in 0..F) /\ n >= -1
  /\ Absent \in FileSize /\ 0 \in FileSize /\ 0..F \subseteq FileSize
BY ConstantsAssumption DEF Seqs, FileSize, Absent

-----------------------------------------------------------------------------
(* Every variable stays in its range *)

LEMMA LineAppended ==
  ASSUME Typed, NEW s \in Seqs, wav[s] # Absent, AppendLine(s, wav[s])
  PROVE  /\ lines' \subseteq [no : Nat, seq : Seqs, frames : 0..F, readable : BOOLEAN]
         /\ IsFiniteSet(lines') /\ torn' = FALSE /\ begun' = TRUE
         /\ \E l \in lines' : /\ l.seq = s /\ l.frames = wav[s] /\ l.readable = ~torn
                               /\ lines' = lines \cup {l}
<1>. DEFINE l == [no |-> Cardinality(lines) + 1, seq |-> s, frames |-> wav[s],
                  readable |-> ~torn]
<1>1. lines' = lines \cup {l} /\ torn' = FALSE /\ begun' = TRUE
  BY DEF AppendLine
<1>2. Cardinality(lines) \in Nat /\ IsFiniteSet(lines \cup {l})
  BY FS_CardinalityType, FS_AddElement DEF Typed
<1>3. wav[s] \in 0..F
  BY Numbers DEF Typed, TypeOK
<1>4. (~torn) \in BOOLEAN
  OBVIOUS
<1>5. l \in [no : Nat, seq : Seqs, frames : 0..F, readable : BOOLEAN]
  BY <1>2, <1>3, <1>4
<1>6. l.seq = s /\ l.frames = wav[s] /\ l.readable = ~torn
  BY Zenon
<1>. HIDE DEF l
<1>. QED
  BY <1>1, <1>2, <1>5, <1>6 DEF Typed, TypeOK

LEMMA FlagsTyped ==
  ASSUME Typed, Recorder \/ Pass \/ PassCrash
  PROVE  torn' \in BOOLEAN /\ begun' \in BOOLEAN
<1>0. torn \in BOOLEAN /\ begun \in BOOLEAN
  BY DEF Typed, TypeOK
<1>1. torn' \in {torn, FALSE, TRUE, torn \/ r \in {"append", "event"}}
  BY DEF Recorder, OpenMeta, OpenPartial, WriteFrame, RecordGap, EndChunk, Sync, Build,
     CheckFinal, Rename, Discard, Forget, Append, Mirror, Stop, Abandon, RecorderCrash, Pass,
     Begin, Sweep, AlreadyFinal, QuarantinePartial, Rebuild, RebuildFails, Replace,
     RecoverAppend, RecoverEvent, CleanPartial, CleanMeta, SweepMeta, CloseRecording,
     PassCrash, AppendLine, AppendEvent, manifestVars
<1>2. begun' \in {begun, TRUE}
  BY DEF Recorder, OpenMeta, OpenPartial, WriteFrame, RecordGap, EndChunk, Sync, Build,
     CheckFinal, Rename, Discard, Forget, Append, Mirror, Stop, Abandon, RecorderCrash, Pass,
     Begin, Sweep, AlreadyFinal, QuarantinePartial, Rebuild, RebuildFails, Replace,
     RecoverAppend, RecoverEvent, CleanPartial, CleanMeta, SweepMeta, CloseRecording,
     PassCrash, AppendLine, AppendEvent, manifestVars
<1>. QED
  BY <1>0, <1>1, <1>2, Zenon

LEMMA RecorderTyped ==
  ASSUME IInv, Recorder
  PROVE  Typed'
<1>. USE DEF IInv
<1>0. torn' \in BOOLEAN /\ begun' \in BOOLEAN
  BY FlagsTyped
<1>1. CASE OpenMeta
  BY <1>1, ConstantsAssumption
     DEF OpenMeta, Typed, TypeOK, WriterSteps, WriteMeta, Goto, manifestVars, passVars, Seqs
<1>2. CASE OpenPartial
  BY <1>2, <1>0, Numbers
     DEF Set, OpenPartial, Typed, TypeOK, WriterSteps, Goto, Fault, manifestVars, passVars
<1>3. CASE WriteFrame
  <2>1. part[seq] \in 0..frames /\ frames \in 0..F /\ frames < F
    BY <1>3 DEF WriteFrame, Typed, TypeOK, WriterInv, ChunkInv
  <2>2. PICK n \in part[seq]..(frames + 1) : part' = Set(part, seq, n)
    BY <1>3 DEF WriteFrame
  <2>3. n \in 0..F /\ frames + 1 \in 0..F
    BY <2>1, Numbers
  <2>4. part' \in [Seqs -> FileSize]
    BY <2>2, <2>3, Numbers DEF Set, Typed, TypeOK
  <2>. QED
    BY <1>0, <1>3, <2>3, <2>4
       DEF WriteFrame, Typed, TypeOK, WriterSteps, Goto, manifestVars, passVars
<1>4. CASE RecordGap \/ EndChunk \/ Stop
  BY <1>0, <1>4 DEF RecordGap, EndChunk, Stop, Typed, TypeOK, WriterSteps, Goto, Fault,
              AppendEvent, fileVars, manifestVars, writerVars, passVars
<1>5. CASE Sync \/ Abandon
  <2>1. part' \in [Seqs -> FileSize]
    BY <1>5, Numbers DEF Set, Sync, Abandon, Flush, Typed, TypeOK
  <2>2. CASE Sync
    BY <1>0, <2>1, <2>2 DEF Sync, Typed, TypeOK, WriterSteps, Goto, Fault, manifestVars, passVars
  <2>3. CASE Abandon
    BY <1>0, <2>1, <2>3 DEF Abandon, Typed, TypeOK, WriterSteps, Goto, manifestVars, passVars
  <2>. QED
    BY <1>5, <2>2, <2>3
<1>6. CASE Build \/ CheckFinal
  <2>1. tmp' \in [Seqs -> FileSize]
    BY <1>6, Numbers DEF Set, Build, CheckFinal, BuiltFrom, Typed, TypeOK
  <2>2. CASE Build
    BY <1>0, <2>1, <2>2 DEF Build, Typed, TypeOK, WriterSteps, Goto, Fault, manifestVars, passVars
  <2>3. CASE CheckFinal
    BY <1>0, <2>1, <2>3 DEF CheckFinal, Typed, TypeOK, WriterSteps, Goto, manifestVars, passVars
  <2>. QED
    BY <1>6, <2>2, <2>3
<1>7. CASE Rename \/ Discard
  <2>1. /\ part' \in [Seqs -> FileSize] /\ tmp' \in [Seqs -> FileSize]
        /\ wav' \in [Seqs -> FileSize]
    BY <1>7, Numbers DEF Set, Rename, Discard, Typed, TypeOK
  <2>2. CASE Rename
    BY <1>0, <2>1, <2>2 DEF Rename, Typed, TypeOK, WriterSteps, Goto, manifestVars, passVars
  <2>3. CASE Discard
    BY <1>0, <2>1, <2>3 DEF Discard, Typed, TypeOK, WriterSteps, Goto, Fault, manifestVars, passVars
  <2>. QED
    BY <1>7, <2>2, <2>3
<1>8. CASE Forget \/ Mirror
  BY <1>8 DEF Forget, AfterDiscard, Mirror, Typed, TypeOK, WriterSteps, Goto, fileVars,
              manifestVars, passVars
<1>9. CASE Append
  <2>1. wav[seq] # Absent /\ seq \in Seqs
    BY <1>9 DEF Append, WriterInv, ChunkInv, Typed, TypeOK
  <2>2. /\ lines' \subseteq [no : Nat, seq : Seqs, frames : 0..F, readable : BOOLEAN]
        /\ IsFiniteSet(lines') /\ torn' \in BOOLEAN /\ begun' \in BOOLEAN
    BY <1>9, <2>1, LineAppended DEF Append, manifestVars, Typed, TypeOK
  <2>. QED
    BY <1>9, <2>2 DEF Append, Typed, TypeOK, WriterSteps, Goto, Fault, fileVars, passVars
<1>10. CASE RecorderCrash
  BY <1>0, <1>10 DEF RecorderCrash, Typed, TypeOK, WriterSteps, Goto, fileVars, passVars
<1>. QED
  BY <1>1, <1>2, <1>3, <1>4, <1>5, <1>6, <1>7, <1>8, <1>9, <1>10 DEF Recorder

LEMMA PassTyped ==
  ASSUME IInv, Pass \/ PassCrash
  PROVE  Typed'
<1>. USE DEF IInv
<1>0. torn' \in BOOLEAN /\ begun' \in BOOLEAN
  BY FlagsTyped
<1>1. CASE Begin
  BY <1>1 DEF Begin, Typed, TypeOK, PassSteps, To, Readable, Partials, fileVars, manifestVars,
              writerVars
<1>2. CASE Sweep
  BY <1>2, <1>0, Numbers
     DEF Set, Sweep, Typed, TypeOK, PassSteps, To, manifestVars, writerVars
<1>3. CASE AlreadyFinal
  BY <1>3, PickedChunk
     DEF AlreadyFinal, Typed, TypeOK, PassSteps, To, fileVars, manifestVars, writerVars
<1>4. CASE QuarantinePartial \/ RebuildFails
  <2>1. cur' \in Seqs /\ todo' \subseteq Seqs
    BY <1>4, PickedChunk DEF QuarantinePartial, RebuildFails
  <2>2. part' \in [Seqs -> FileSize] /\ quar' \in [Seqs -> FileSize]
    <3>1. Max({quar[cur'], part[cur']}) \in FileSize
      <4>1. quar[cur'] \in FileSize /\ part[cur'] \in FileSize
        BY <2>1 DEF Typed, TypeOK
      <4>2. quar[cur'] \in Int /\ part[cur'] \in Int
        BY <4>1, Numbers
      <4>3. {quar[cur'], part[cur']} = {quar[cur'], part[cur'], quar[cur'], part[cur']}
        OBVIOUS
      <4>4. Max({quar[cur'], part[cur']}) \in {quar[cur'], part[cur']}
        BY <4>2, <4>3, GreatestOf
      <4>. QED
        BY <4>1, <4>4
    <3>. QED
      BY <1>4, <2>1, <3>1, <1>0, Numbers
         DEF Set, QuarantinePartial, RebuildFails, Quarantine, Typed, TypeOK
  <2>. QED
    BY <1>4, <2>1, <2>2
       DEF QuarantinePartial, RebuildFails, Typed, TypeOK, Fault, manifestVars, writerVars, Pick
<1>5. CASE Rebuild
  <2>1. cur' \in Seqs /\ todo' \subseteq Seqs
    BY <1>5, PickedChunk DEF Rebuild
  <2>. QED
    BY <1>5, <2>1, FileSet
       DEF Rebuild, Typed, TypeOK, PassSteps, To, BuiltFrom, manifestVars, writerVars
<1>6. CASE Replace \/ CleanPartial
  BY <1>6, <1>0, Numbers
     DEF Set, Replace, CleanPartial, Typed, TypeOK, PassSteps, To, manifestVars, writerVars
<1>7. CASE RecoverAppend
  <2>1. wav[cur] # Absent /\ cur \in Seqs
    BY <1>7 DEF RecoverAppend, PassInv, Typed, TypeOK
  <2>2. /\ lines' \subseteq [no : Nat, seq : Seqs, frames : 0..F, readable : BOOLEAN]
        /\ IsFiniteSet(lines') /\ torn' \in BOOLEAN /\ begun' \in BOOLEAN
    BY <1>7, <2>1, LineAppended DEF RecoverAppend, Typed, TypeOK
  <2>. QED
    BY <1>7, <2>2 DEF RecoverAppend, Typed, TypeOK, PassSteps, To, fileVars, writerVars
<1>8. CASE RecoverEvent \/ CleanMeta \/ SweepMeta \/ CloseRecording
  BY <1>8 DEF RecoverEvent, CleanMeta, SweepMeta, CloseRecording, Typed, TypeOK, PassSteps,
              To, AppendEvent, fileVars, manifestVars, writerVars
<1>9. CASE PassCrash
  <2>1. torn' \in BOOLEAN
    BY <1>9, Zenon DEF PassCrash, Typed, TypeOK
  <2>. QED
    BY <1>9, <2>1 DEF PassCrash, Typed, TypeOK, PassSteps, To, fileVars, writerVars
<1>. QED
  BY <1>1, <1>2, <1>3, <1>4, <1>5, <1>6, <1>7, <1>8, <1>9 DEF Pass

-----------------------------------------------------------------------------
(* The files of the chunks *)

LEMMA FilesStay ==
  ASSUME IInv, Recorder \/ Pass \/ PassCrash
  PROVE  FilesInv'
<1>. USE DEF IInv
<1>1. CASE \/ RecordGap \/ EndChunk \/ Forget \/ Append \/ Mirror \/ Stop
           \/ RecorderCrash \/ Begin \/ AlreadyFinal \/ RecoverAppend \/ RecoverEvent
           \/ CleanMeta \/ SweepMeta \/ CloseRecording \/ PassCrash
  <2>1. UNCHANGED <<nextSeq, part, tmp, rec, wav, quar>>
    BY <1>1 DEF RecordGap, EndChunk, Forget, Append, Mirror, Stop, RecorderCrash, Begin,
       AlreadyFinal, RecoverAppend, RecoverEvent, CleanMeta, SweepMeta, CloseRecording,
       PassCrash, fileVars, writerVars
  <2>. QED
    BY <2>1 DEF FilesInv, Gone
<1>2. CASE OpenMeta
  BY <1>2, Numbers DEF OpenMeta, FilesInv, Gone, Typed, TypeOK
<1>3. CASE OpenPartial \/ WriteFrame \/ Sync \/ Abandon
  <2>1. UNCHANGED <<nextSeq, tmp, rec, wav, quar>>
    BY <1>3 DEF OpenPartial, WriteFrame, Sync, Abandon, writerVars
  <2>2. UNCHANGED part \/ \E n : part' = Set(part, seq, n) /\ w \in WriterSteps
    BY <1>3 DEF OpenPartial, WriteFrame, Sync, Abandon, Flush, WriterSteps
  <2>3. w \in {"opening", "open", "sync"}  \/ UNCHANGED part
    BY <1>3 DEF OpenPartial, WriteFrame, Sync, Abandon
  <2>4. w \in WriterSteps => seq < nextSeq /\ quar[seq] = Absent
    <3>1. seq \in Seqs /\ seq \in Nat
      BY Numbers DEF Typed, TypeOK
    <3>2. w \in WriterSteps => Alive
      BY DEF Alive, WriterSteps
    <3>3. w \in WriterSteps => seq + 1 = nextSeq
      BY DEF WriterInv, ChunkInv
    <3>4. w \in WriterSteps => quar[seq] = Absent
      BY <3>1, <3>2 DEF WriterInv
    <3>. QED
      BY <3>1, <3>3, <3>4
  <2>. QED
    <3>1. CASE UNCHANGED part
      BY <2>1, <3>1 DEF FilesInv, Gone
    <3>2. CASE ~UNCHANGED part
      <4>1. /\ wav[seq] = Absent /\ quar[seq] = Absent /\ seq < nextSeq /\ seq \in Seqs
        BY <2>2, <2>3, <2>4, <3>2 DEF WriterInv, ChunkInv, Typed, TypeOK, WriterSteps
      <4>2. \A s \in Seqs : s # seq => part'[s] = part[s]
        BY <2>2 DEF Set, Typed, TypeOK
      <4>. QED
        BY <2>1, <4>1, <4>2, Numbers DEF FilesInv, Gone, Typed, TypeOK
    <3>. QED
      BY <3>1, <3>2
<1>4. CASE Build \/ CheckFinal \/ Sweep
  <2>1. UNCHANGED <<nextSeq, part, wav, quar>>
    BY <1>4 DEF Build, CheckFinal, Sweep, writerVars
  <2>2. \A s \in Seqs : s >= nextSeq => tmp'[s] = Absent /\ rec'[s] = Absent
    <3>1. CASE Build \/ CheckFinal
      <4>1. seq < nextSeq /\ UNCHANGED rec
        BY <3>1, Numbers DEF Build, CheckFinal, WriterInv, ChunkInv, Typed, TypeOK, WriterSteps
      <4>2. \A s \in Seqs : s # seq => tmp'[s] = tmp[s]
        BY <3>1 DEF Build, CheckFinal, Set, Typed, TypeOK
      <4>. QED
        BY <4>1, <4>2, Numbers DEF FilesInv, Typed, TypeOK
    <3>2. CASE Sweep
      BY <3>2 DEF Sweep, Set, FilesInv, Typed, TypeOK
    <3>. QED
      BY <1>4, <3>1, <3>2
  <2>. QED
    BY <2>1, <2>2 DEF FilesInv, Gone
<1>5. CASE Rename \/ Discard
  <2>1. /\ UNCHANGED <<nextSeq, rec, quar>> /\ seq < nextSeq /\ seq \in Seqs
        /\ \A s \in Seqs : s # seq =>
              part'[s] = part[s] /\ wav'[s] = wav[s] /\ tmp'[s] = tmp[s]
    <3>1. seq < nextSeq /\ seq \in Seqs /\ UNCHANGED <<nextSeq, rec, quar>>
      BY <1>5, Numbers DEF Rename, Discard, WriterInv, ChunkInv, Typed, TypeOK, WriterSteps
    <3>2. \A s \in Seqs : s # seq =>
              part'[s] = part[s] /\ wav'[s] = wav[s] /\ tmp'[s] = tmp[s]
      BY <1>5 DEF Rename, Discard, Typed, TypeOK, Set
    <3>. QED
      BY <3>1, <3>2
  <2>2. part'[seq] = Absent \/ (part'[seq] = part[seq] /\ wav'[seq] \in {wav[seq], part[seq]})
    BY <1>5 DEF Rename, Discard, WriterInv, ChunkInv, Typed, TypeOK, Set
  <2>. QED
    BY <2>1, <2>2, Numbers DEF FilesInv, Gone, Typed, TypeOK
<1>6. CASE QuarantinePartial \/ RebuildFails
  <2>1. /\ UNCHANGED <<nextSeq, tmp, rec, wav>> /\ cur' \in Seqs /\ ~Gone(cur')
        /\ part' = Set(part, cur', Absent) /\ \E n : quar' = Set(quar, cur', n)
    BY <1>6, PickedChunk DEF QuarantinePartial, RebuildFails, Quarantine, writerVars
  <2>. QED
    BY <2>1 DEF FilesInv, Gone, Set, Typed, TypeOK
<1>7. CASE Rebuild
  <2>1. /\ UNCHANGED <<nextSeq, part, tmp, wav, quar>> /\ cur' \in Seqs /\ ~Gone(cur')
        /\ \E n : rec' = Set(rec, cur', n)
    BY <1>7, PickedChunk DEF Rebuild, writerVars
  <2>. QED
    BY <2>1 DEF FilesInv, Gone, Set, Typed, TypeOK
<1>8. CASE Replace
  <2>1. cur \in Seqs /\ ~Gone(cur) /\ rec[cur] = part[cur]
    BY <1>8 DEF Replace, PassInv, Partials, Gone, Typed, TypeOK
  <2>. QED
    BY <1>8, <2>1 DEF Replace, FilesInv, Gone, Set, Typed, TypeOK, writerVars
<1>9. CASE CleanPartial
  BY <1>9 DEF CleanPartial, FilesInv, Gone, Set, Typed, TypeOK, writerVars
<1>. QED
  BY <1>1, <1>2, <1>3, <1>4, <1>5, <1>6, <1>7, <1>8, <1>9 DEF Recorder, Pass

-----------------------------------------------------------------------------
(* The lines of the manifest *)

\* A final chunk is never replaced.
LEMMA FinalStays ==
  ASSUME IInv, Recorder \/ Pass \/ PassCrash
  PROVE  \A s \in Seqs : wav[s] # Absent => wav'[s] = wav[s]
<1>. USE DEF IInv
<1>1. CASE Rename
  BY <1>1 DEF Rename, WriterInv, ChunkInv, Set, Typed, TypeOK
<1>2. CASE Replace
  BY <1>2 DEF Replace, PassInv, Set, Typed, TypeOK
<1>3. CASE ~Rename /\ ~Replace
  BY <1>3 DEF Recorder, OpenMeta, OpenPartial, WriteFrame, RecordGap, EndChunk, Sync, Build,
     CheckFinal, Discard, Forget, Append, Mirror, Stop, Abandon, RecorderCrash, Pass,
     Begin, Sweep, AlreadyFinal, QuarantinePartial, Rebuild, RebuildFails, RecoverAppend,
     RecoverEvent, CleanPartial, CleanMeta, SweepMeta, CloseRecording, PassCrash, fileVars
<1>. QED
  BY <1>1, <1>2, <1>3

\* A line is written of a final chunk that has none.
LEMMA LinesStay ==
  ASSUME IInv, Recorder \/ Pass \/ PassCrash
  PROVE  /\ LinesInv' /\ lines \subseteq lines' /\ RecordedSeqs \subseteq RecordedSeqs'
         /\ \/ UNCHANGED lines
            \/ /\ Append
               /\ \E l \in lines' : /\ l.seq = seq /\ lines' = lines \cup {l}
                                    /\ l.readable = ~torn /\ l.frames = wav[seq]
            \/ RecoverAppend /\ \E l \in lines' : l.seq = cur /\ lines' = lines \cup {l}
<1>. USE DEF IInv
<1>0. /\ \A l \in lines : l.seq \in Seqs /\ l.frames \in 0..F
      /\ \A l \in lines : wav'[l.seq] = l.frames
  <2>1. \A l \in lines : l.seq \in Seqs /\ l.frames \in 0..F
    BY DEF Typed, TypeOK
  <2>2. \A l \in lines : wav[l.seq] # Absent
    BY <2>1, Numbers DEF LinesInv, Absent
  <2>. QED
    BY <2>1, <2>2, FinalStays DEF LinesInv
<1>1. CASE Append /\ ~UNCHANGED lines
  <2>1. AppendLine(seq, wav[seq]) /\ seq \in Seqs /\ wav[seq] # Absent /\ ~Recorded(seq)
    BY <1>1 DEF Append, manifestVars, WriterInv, ChunkInv, Typed, TypeOK, WriterSteps
  <2>2. PICK l \in lines' : /\ l.seq = seq /\ l.frames = wav[seq] /\ l.readable = ~torn
                            /\ lines' = lines \cup {l}
    BY <2>1, LineAppended
  <2>3. wav'[seq] = wav[seq] /\ UNCHANGED db
    BY <1>1 DEF Append, fileVars
  <2>4. \A k \in lines' : wav'[k.seq] = k.frames
    BY <1>0, <2>2, <2>3
  <2>5. \A k, m \in lines' : k.seq = m.seq => k = m
    BY <2>1, <2>2 DEF LinesInv, Recorded
  <2>6. RecordedSeqs \subseteq RecordedSeqs' /\ ManifestAheadOfDatabase'
    BY <2>2, <2>3 DEF LinesInv, RecordedSeqs, ManifestAheadOfDatabase, Readable
  <2>. QED
    BY <1>1, <2>2, <2>4, <2>5, <2>6 DEF LinesInv
<1>2. CASE RecoverAppend
  <2>1. AppendLine(cur, wav[cur]) /\ cur \in Seqs /\ wav[cur] # Absent /\ ~Recorded(cur)
    BY <1>2 DEF RecoverAppend, PassInv, Typed, TypeOK
  <2>2. PICK l \in lines' : /\ l.seq = cur /\ l.frames = wav[cur] /\ l.readable = ~torn
                            /\ lines' = lines \cup {l}
    BY <2>1, LineAppended
  <2>3. wav'[cur] = wav[cur] /\ UNCHANGED db
    BY <1>2 DEF RecoverAppend, fileVars
  <2>4. \A k \in lines' : wav'[k.seq] = k.frames
    BY <1>0, <2>2, <2>3
  <2>5. \A k, m \in lines' : k.seq = m.seq => k = m
    BY <2>1, <2>2 DEF LinesInv, Recorded
  <2>6. RecordedSeqs \subseteq RecordedSeqs' /\ ManifestAheadOfDatabase'
    BY <2>2, <2>3 DEF LinesInv, RecordedSeqs, ManifestAheadOfDatabase, Readable
  <2>. QED
    BY <1>2, <2>2, <2>4, <2>5, <2>6 DEF LinesInv
<1>3. CASE UNCHANGED lines
  <2>1. UNCHANGED db \/ Mirror
    BY DEF Recorder, OpenMeta, OpenPartial, WriteFrame, RecordGap, EndChunk, Sync, Build,
     CheckFinal, Rename, Discard, Forget, Append, Stop, Abandon, RecorderCrash, Pass,
     Begin, Sweep, AlreadyFinal, QuarantinePartial, Rebuild, RebuildFails, Replace,
     RecoverAppend, RecoverEvent, CleanPartial, CleanMeta, SweepMeta, CloseRecording, PassCrash
  <2>2. ASSUME Mirror PROVE db' \subseteq db \cup {seq} /\ seq \in RecordedSeqs
    <3>1. Recorded(seq) /\ \A l \in lines : l.readable
      BY <2>2 DEF Mirror, WriterInv, ChunkInv, Alive
    <3>. QED
      BY <2>2, <3>1 DEF Mirror, Recorded, RecordedSeqs, Readable
  <2>3. UNCHANGED RecordedSeqs
    BY <1>3 DEF RecordedSeqs, Readable
  <2>4. ManifestAheadOfDatabase'
    BY <2>1, <2>2, <2>3 DEF LinesInv, ManifestAheadOfDatabase, RecordedSeqs
  <2>. QED
    BY <1>0, <1>3, <2>3, <2>4 DEF LinesInv
<1>4. UNCHANGED lines \/ Append \/ RecoverAppend
  BY DEF Recorder, OpenMeta, OpenPartial, WriteFrame, RecordGap, EndChunk, Sync, Build,
     CheckFinal, Rename, Discard, Forget, Mirror, Stop, Abandon, RecorderCrash, Pass,
     Begin, Sweep, AlreadyFinal, QuarantinePartial, Rebuild, RebuildFails, Replace,
     RecoverEvent, CleanPartial, CleanMeta, SweepMeta, CloseRecording, PassCrash,
     AppendEvent, manifestVars
<1>. QED
  BY <1>1, <1>2, <1>3, <1>4

-----------------------------------------------------------------------------
(* The recorder at its chunk *)

LEMMA RecorderStays ==
  ASSUME IInv, Recorder
  PROVE  WriterInv'
<1>. USE DEF IInv
<1>0. /\ w \notin {"exited", "dead"} /\ UNCHANGED <<r, rec, quar>> /\ r = "off"
      /\ ~torn /\ summary = <<>> /\ (Stop \/ UNCHANGED summary)
  <2>1. w \notin {"exited", "dead"}
    BY DEF Recorder, OpenMeta, OpenPartial, WriteFrame, RecordGap, EndChunk, Sync, Build,
       CheckFinal, Rename, Discard, Forget, Append, Mirror, Stop, Abandon, RecorderCrash, Alive
  <2>2. UNCHANGED <<r, rec, quar>> /\ (Stop \/ UNCHANGED summary)
    BY DEF Recorder, OpenMeta, OpenPartial, WriteFrame, RecordGap, EndChunk, Sync, Build,
       CheckFinal, Rename, Discard, Forget, Append, Mirror, Stop, Abandon, RecorderCrash,
       fileVars, passVars
  <2>. QED
    BY <2>1, <2>2 DEF WriterInv, Alive
<1>1. CASE Stop \/ Abandon \/ RecorderCrash
  <2>1. w' \in {"exited", "dead"}
    BY <1>1 DEF Stop, Abandon, RecorderCrash, Goto
  <2>. QED
    BY <2>1 DEF WriterInv, ChunkInv, Alive, WriterSteps
<1>2. CASE ~(Stop \/ Abandon \/ RecorderCrash)
  <2>1. ~torn' /\ \A l \in lines' : l.readable
    <3>1. CASE Append
      <4>1. torn' = FALSE \/ UNCHANGED torn
        BY <3>1 DEF Append, AppendLine, manifestVars
      <4>2. \A l \in lines' : l.readable
        BY <1>0, <3>1, LinesStay DEF Recorder, RecoverAppend, WriterInv, Alive
      <4>. QED
        BY <1>0, <4>1, <4>2
    <3>2. CASE ~Append
      BY <1>0, <1>2, <3>2 DEF Recorder, OpenMeta, OpenPartial, WriteFrame, RecordGap, EndChunk,
         Sync, Build, CheckFinal, Rename, Discard, Forget, Mirror, AppendEvent, manifestVars,
         WriterInv, Alive
    <3>. QED
      BY <3>1, <3>2
  <2>2. /\ r' = "off" /\ summary' = <<>>
        /\ \A s \in Seqs : rec'[s] = Absent /\ quar'[s] = Absent
    BY <1>0, <1>2 DEF WriterInv, Alive
  <2>3. \A s \in Seqs : Recorded(s) => wav[s] # Absent
    BY Numbers DEF Recorded, LinesInv, Typed, TypeOK, Absent
  <2>4. ChunkInv'
    <3>0. seq \in Seqs /\ nextSeq \in 0..MaxChunks /\ frames \in 0..F /\ part[seq] \in FileSize
      BY DEF Typed, TypeOK
    <3>a. DOMAIN part = Seqs /\ DOMAIN tmp = Seqs /\ DOMAIN wav = Seqs /\ ChunkInv
      BY DEF Typed, TypeOK, WriterInv
    <3>1. CASE OpenMeta
      <4>1. seq' = nextSeq /\ nextSeq \in Seqs /\ nextSeq' = nextSeq + 1 /\ w' = "opening"
              /\ UNCHANGED <<part, wav, lines>> /\ frames' = 0
        BY <3>1 DEF OpenMeta, Goto, manifestVars
      <4>2. Gone(nextSeq) /\ wav[nextSeq] = Absent /\ ~Recorded(nextSeq)
        BY <2>3, <4>1, Numbers DEF FilesInv, Typed, TypeOK
      <4>. QED
        BY <4>1, <4>2 DEF ChunkInv, WriterSteps, Gone, Recorded
    <3>2. CASE OpenPartial
      BY <3>0, <3>a, <3>2, Numbers DEF OpenPartial, Goto, Set, ChunkInv, WriterSteps, Gone,
         Recorded, manifestVars, Absent
    <3>3. CASE WriteFrame
      BY <3>0, <3>a, <3>3, Numbers DEF WriteFrame, Goto, Set, Full, ChunkInv, WriterSteps,
         Gone, Recorded, manifestVars, Absent
    <3>4. CASE RecordGap
      BY <3>0, <3>a, <3>4, Numbers DEF RecordGap, AppendEvent, ChunkInv, WriterSteps, Gone,
         Recorded, fileVars, writerVars
    <3>5. CASE EndChunk
      BY <3>0, <3>a, <3>5, Numbers DEF EndChunk, Goto, ChunkInv, WriterSteps, Gone,
         Recorded, fileVars, manifestVars
    <3>6. CASE Sync
      BY <3>0, <3>a, <3>6, Numbers DEF Sync, Flush, Goto, Set, ChunkInv, WriterSteps, Gone,
         Recorded, manifestVars, Absent
    <3>7. CASE Build
      BY <3>0, <3>a, <3>7, Numbers DEF Build, BuiltFrom, Goto, Set, ChunkInv, WriterSteps,
         Gone, Recorded, manifestVars, Absent
    <3>8. CASE CheckFinal
      BY <3>0, <3>a, <3>8, Numbers DEF CheckFinal, Goto, ChunkInv, WriterSteps, Gone,
         Recorded, manifestVars
    <3>9. CASE Rename
      BY <3>0, <3>a, <3>9, Numbers DEF Rename, Goto, Set, ChunkInv, WriterSteps, Gone,
         Recorded, manifestVars, Absent
    <3>10. CASE Discard
      BY <3>0, <3>a, <3>10, Numbers DEF Discard, Goto, Set, ChunkInv, WriterSteps, Gone,
         Recorded, manifestVars, Absent
    <3>11. CASE Forget
      BY <3>0, <3>a, <3>11, Numbers DEF Forget, AfterDiscard, Goto, ChunkInv, WriterSteps,
         Gone, Recorded, manifestVars
    <3>12. CASE Append
      <4>1. /\ UNCHANGED <<seq, frames, nextSeq, wav, part>> /\ w = "append"
            /\ w' = "idle" \/ (w' = "mirror" /\ AppendLine(seq, wav[seq]))
        BY <3>12 DEF Append, Goto, fileVars
      <4>2. AppendLine(seq, wav[seq]) => Recorded(seq)'
        BY <3>0, <4>1, LineAppended DEF WriterInv, ChunkInv, Recorded
      <4>. QED
        BY <3>0, <4>1, <4>2 DEF WriterInv, ChunkInv, WriterSteps, Gone
    <3>13. CASE Mirror
      BY <3>0, <3>13, Numbers DEF Mirror, Goto, ChunkInv, WriterSteps
    <3>. QED
      BY <1>2, <3>1, <3>2, <3>3, <3>4, <3>5, <3>6, <3>7, <3>8, <3>9, <3>10, <3>11, <3>12, <3>13
         DEF Recorder
  <2>. QED
    BY <2>1, <2>2, <2>4 DEF WriterInv
<1>. QED
  BY <1>1, <1>2

\* A pass comes after the recorder.
LEMMA PassLeavesRecorder ==
  ASSUME IInv, Pass \/ PassCrash
  PROVE  WriterInv' /\ ~Alive /\ UNCHANGED <<w, seq, frames, nextSeq, listed, db>>
<1>1. ~Alive
  BY DEF IInv, WriterInv, PassInv, Pass, Begin, Sweep, AlreadyFinal, QuarantinePartial, Rebuild,
     RebuildFails, Replace, RecoverAppend, RecoverEvent, CleanPartial, CleanMeta, SweepMeta,
     CloseRecording, PassCrash
<1>2. UNCHANGED <<w, seq, frames, nextSeq, listed, db>>
  BY DEF Pass, Begin, Sweep, AlreadyFinal, QuarantinePartial, Rebuild, RebuildFails, Replace,
     RecoverAppend, RecoverEvent, CleanPartial, CleanMeta, SweepMeta, CloseRecording, PassCrash,
     writerVars
<1>. QED
  BY <1>1, <1>2 DEF WriterInv, ChunkInv, Alive, WriterSteps

-----------------------------------------------------------------------------
(* A pass at its chunk *)

\* It only begins when the recorder is gone.
LEMMA RecorderLeavesPass ==
  ASSUME IInv, Recorder
  PROVE  PassInv'
<1>1. Alive /\ UNCHANGED r
  BY DEF Recorder, OpenMeta, OpenPartial, WriteFrame, RecordGap, EndChunk, Sync, Build,
     CheckFinal, Rename, Discard, Forget, Append, Mirror, Stop, Abandon, RecorderCrash, passVars,
     Alive
<1>. QED
  BY <1>1 DEF IInv, WriterInv, PassInv, PassSteps, PassLeavesNothing

LEMMA PassStays ==
  ASSUME IInv, Pass \/ PassCrash
  PROVE  PassInv'
<1>. USE DEF IInv
<1>0. /\ ~Alive'
      /\ known \subseteq RecordedSeqs => known \subseteq RecordedSeqs'
      /\ \A s \in Seqs : wav[s] # Absent => wav'[s] # Absent
  BY PassLeavesRecorder, LinesStay, FinalStays DEF Alive
<1>1. CASE Begin
  <2>1. /\ r' = "sweep" /\ todo' = Partials /\ known' = RecordedSeqs
        /\ UNCHANGED <<part, lines>>
    BY <1>1 DEF Begin, To, fileVars, manifestVars, RecordedSeqs
  <2>. QED
    BY <1>0, <2>1 DEF PassInv, PassSteps, PassLeavesNothing, Partials, RecordedSeqs, Readable
<1>2. CASE Sweep
  <2>1. /\ r = "sweep" /\ r' \in {"sweep", "next"} /\ UNCHANGED <<part, todo, known>>
        /\ r' = "next" => Temporaries' = {}
    BY <1>2 DEF Sweep, To, Temporaries
  <2>. QED
    BY <1>0, <2>1 DEF PassInv, PassSteps, PassLeavesNothing, Partials
<1>3. CASE AlreadyFinal
  <2>1. /\ r = "next" /\ r' = "clean" /\ UNCHANGED <<part, tmp, rec, wav, known>>
        /\ wav[cur'] # Absent
    BY <1>3 DEF AlreadyFinal, To, FinalExists, fileVars
  <2>2. cur' \in todo /\ todo' = todo \ {cur'}
    BY <1>3, PickedChunk DEF AlreadyFinal
  <2>. QED
    BY <1>0, <2>1, <2>2
       DEF PassInv, PassSteps, PassLeavesNothing, Partials, Temporaries
<1>4. CASE QuarantinePartial \/ RebuildFails
  <2>1. /\ r = "next" /\ r' = "next" /\ UNCHANGED <<tmp, rec, known>>
        /\ part' = Set(part, cur', Absent)
    BY <1>4 DEF QuarantinePartial, RebuildFails, Quarantine
  <2>2. cur' \in todo /\ todo' = todo \ {cur'}
    BY <1>4, PickedChunk DEF QuarantinePartial, RebuildFails
  <2>3. Partials' = Partials \ {cur'}
    BY <2>1, FileSet DEF Partials, Typed, TypeOK, Set
  <2>. QED
    BY <1>0, <2>1, <2>2, <2>3 DEF PassInv, PassSteps, PassLeavesNothing, Temporaries
<1>5. CASE Rebuild
  <2>1. /\ r = "next" /\ r' = "replace" /\ UNCHANGED <<part, tmp, wav, known>>
        /\ wav[cur'] = Absent /\ rec' = Set(rec, cur', part[cur'])
    BY <1>5 DEF Rebuild, To, FinalExists, BuiltFrom
  <2>2. cur' \in todo /\ todo' = todo \ {cur'} /\ cur' \in Seqs /\ ~Gone(cur')
    BY <1>5, PickedChunk DEF Rebuild
  <2>3. Temporaries = {} /\ todo = Partials
    BY <2>1 DEF PassInv, PassSteps
  <2>4. rec'[cur'] = part[cur'] /\ Temporaries' = {cur'} /\ tmp'[cur'] = Absent
    BY <2>1, <2>2, <2>3 DEF Temporaries, Set, Typed, TypeOK, Gone
  <2>. QED
    BY <1>0, <2>1, <2>2, <2>3, <2>4 DEF PassInv, PassSteps, PassLeavesNothing, Partials
<1>6. CASE Replace
  <2>1. /\ r = "replace" /\ r' = "append" /\ UNCHANGED <<part, tmp, lines, cur, known, todo>>
        /\ cur \in Seqs /\ cur \in Partials /\ rec[cur] = part[cur] /\ wav[cur] = Absent
        /\ Temporaries = {cur} /\ tmp[cur] = Absent /\ rec' = Set(rec, cur, Absent)
        /\ wav' = Set(wav, cur, rec[cur])
    BY <1>6 DEF Replace, To, PassInv, Typed, TypeOK, manifestVars
  <2>2. Temporaries' = {}
    BY <2>1 DEF Temporaries, Set, Typed, TypeOK
  <2>3. wav'[cur] # Absent
    BY <2>1 DEF Set, Typed, TypeOK, Partials
  <2>4. ~Recorded(cur)
    BY <2>1, Numbers DEF Recorded, LinesInv, Typed, TypeOK, Absent
  <2>. QED
    BY <1>0, <2>1, <2>2, <2>3, <2>4
       DEF PassInv, PassSteps, PassLeavesNothing, Partials, Recorded
<1>7. CASE RecoverAppend \/ RecoverEvent
  <2>1. /\ r \in {"append", "event"} /\ r' \in {"event", "clean"}
        /\ UNCHANGED <<part, tmp, rec, wav, cur, known, todo>>
    BY <1>7 DEF RecoverAppend, RecoverEvent, To, fileVars
  <2>. QED
    BY <1>0, <2>1 DEF PassInv, PassSteps, PassLeavesNothing, Partials, Temporaries
<1>8. CASE CleanPartial
  <2>1. /\ r = "clean" /\ r' = "cleanMeta" /\ UNCHANGED <<tmp, rec, cur, known, todo>>
        /\ part' = Set(part, cur, Absent)
    BY <1>8 DEF CleanPartial, To
  <2>2. Partials' = Partials \ {cur}
    BY <2>1 DEF Partials, Typed, TypeOK, Set
  <2>. QED
    BY <1>0, <2>1, <2>2 DEF PassInv, PassSteps, PassLeavesNothing, Temporaries
<1>9. CASE CleanMeta
  BY <1>0, <1>9
     DEF CleanMeta, To, PassInv, PassSteps, PassLeavesNothing, Partials, Temporaries
<1>10. CASE SweepMeta
  BY <1>0, <1>10
     DEF SweepMeta, To, PassInv, PassSteps, PassLeavesNothing, Partials, Temporaries
<1>11. CASE CloseRecording
  <2>1. /\ r = "close" /\ r' = "done" /\ UNCHANGED <<part, tmp, rec, meta, lines>>
        /\ summary' # <<>> \/ Readable = {}
    BY <1>11 DEF CloseRecording, To, NeedsSummary, fileVars, manifestVars, PassInv
  <2>. QED
    BY <1>0, <2>1
       DEF PassInv, PassSteps, PassLeavesNothing, Partials, Temporaries, Readable
<1>12. CASE PassCrash
  BY <1>0, <1>12 DEF PassCrash, To, PassInv, PassSteps, PassLeavesNothing
<1>. QED
  BY <1>1, <1>2, <1>3, <1>4, <1>5, <1>6, <1>7, <1>8, <1>9, <1>10, <1>11, <1>12 DEF Pass

-----------------------------------------------------------------------------
(* Without a disk error *)

LEMMA NoFaultYet ==
  ASSUME Typed, Recorder \/ Pass \/ PassCrash, faults' = 0
  PROVE  faults = 0 /\ ~Fault
<1>1. Fault \/ UNCHANGED faults
  BY DEF Recorder, OpenMeta, OpenPartial, WriteFrame, RecordGap, EndChunk, Sync, Build,
     CheckFinal, Rename, Discard, Forget, Append, Mirror, Stop, Abandon, RecorderCrash, Pass,
     Begin, Sweep, AlreadyFinal, QuarantinePartial, Rebuild, RebuildFails, Replace,
     RecoverAppend, RecoverEvent, CleanPartial, CleanMeta, SweepMeta, CloseRecording, PassCrash
<1>. QED
  BY <1>1 DEF Fault, Typed

\* Each chunk goes all the way before the next one is begun.
LEMMA RecorderKeepsClean ==
  ASSUME IInv, Recorder, faults' = 0
  PROVE  CleanInv'
<1>. USE DEF IInv
<1>0. /\ faults = 0 /\ ~Fault /\ Alive /\ summary = <<>> /\ CleanInv /\ ChunkInv
      /\ \A l \in lines : l.readable
  <2>1. Alive
    BY DEF Recorder, OpenMeta, OpenPartial, WriteFrame, RecordGap, EndChunk, Sync, Build,
       CheckFinal, Rename, Discard, Forget, Append, Mirror, Stop, Abandon, RecorderCrash, Alive
  <2>. QED
    BY <2>1, NoFaultYet DEF WriterInv
<1>1. /\ seq \in Seqs /\ nextSeq \in Nat /\ frames \in 0..F
      /\ \A s \in Seqs : Recorded(s) => Recorded(s)'
  BY LinesStay, Numbers DEF Typed, TypeOK, Recorded
<1>2. CASE OpenMeta
  <2>1. /\ w = "idle" /\ w' = "opening" /\ nextSeq' = nextSeq + 1
        /\ UNCHANGED <<part, lines, summary, listed>>
    BY <1>2 DEF OpenMeta, Goto, manifestVars
  <2>2. \A s \in Seqs : s + 1 < nextSeq' => Recorded(s)'
    BY <1>0, <1>1, <2>1, Numbers DEF CleanInv
  <2>3. \A s \in Seqs : Gone(s)'
    BY <1>0, <2>1 DEF CleanInv, WriterSteps, Gone
  <2>. QED
    BY <1>0, <2>1, <2>2, <2>3 DEF CleanInv, Alive
<1>3. CASE OpenPartial \/ WriteFrame \/ RecordGap \/ EndChunk \/ Sync \/ Build \/ CheckFinal
        \/ Rename \/ Discard \/ Forget
  <2>1. UNCHANGED <<seq, nextSeq, lines, summary, listed>> /\ w # "mirror" /\ w' # "mirror"
    BY <1>3 DEF OpenPartial, WriteFrame, RecordGap, EndChunk, Sync, Build, CheckFinal, Rename,
       Discard, Forget, AfterDiscard, Goto, AppendEvent, manifestVars, writerVars
  <2>2. \/ w = "idle" /\ w' = "idle" /\ UNCHANGED part
        \/ w \in WriterSteps /\ w' \in WriterSteps
    BY <1>0, <1>3 DEF OpenPartial, WriteFrame, RecordGap, EndChunk, Sync, Build, CheckFinal,
       Rename, Discard, Forget, AfterDiscard, Goto, CleanInv, ChunkInv, fileVars, writerVars,
       WriterSteps
  <2>3. \A s \in Seqs : s # seq => part'[s] = part[s]
    BY <1>3 DEF OpenPartial, WriteFrame, RecordGap, EndChunk, Sync, Flush, Build, CheckFinal,
       Rename, Discard, Forget, Set, fileVars, Typed, TypeOK
  <2>4. w' \in {"forget", "append"} => Gone(seq)'
    BY <1>0, <1>3 DEF OpenPartial, WriteFrame, RecordGap, EndChunk, Sync, Build, CheckFinal,
       Rename, Discard, Forget, Set, Goto, Full, Gone, CleanInv, fileVars, writerVars, Typed,
       TypeOK
  <2>5. w' \in {"sync", "discard", "forget"} => frames' > 0
    BY <1>0, <1>1, <1>3, Numbers DEF OpenPartial, WriteFrame, RecordGap, EndChunk, Sync, Build,
       CheckFinal, Rename, Discard, Forget, AfterDiscard, Goto, Full, CleanInv, ChunkInv,
       writerVars
  <2>. QED
    BY <1>0, <1>1, <2>1, <2>2, <2>3, <2>4, <2>5 DEF CleanInv, Alive, Gone, WriterSteps
<1>4. CASE Append
  <2>1. /\ w = "append" /\ w' = "mirror" /\ AppendLine(seq, wav[seq]) /\ wav[seq] # Absent
        /\ UNCHANGED <<seq, frames, nextSeq, part, summary, listed>> /\ ~Recorded(seq)
        /\ seq + 1 = nextSeq /\ Gone(seq)
    BY <1>0, <1>4 DEF Append, Goto, fileVars, ChunkInv, CleanInv, WriterSteps
  <2>2. PICK l \in lines' : l.seq = seq /\ lines' = lines \cup {l}
    BY <1>1, <2>1, LineAppended
  <2>3. {k \in lines' : w' = "mirror" => k.seq # seq'} = {k \in lines : w = "mirror" => k.seq # seq}
    BY <2>1, <2>2 DEF Recorded
  <2>4. \A s \in Seqs : s < nextSeq => Recorded(s)'
    <3>1. Recorded(seq)'
      BY <2>1, <2>2 DEF Recorded
    <3>2. \A s \in Seqs : s < nextSeq => s = seq \/ s + 1 < nextSeq
      BY <1>1, <2>1, Numbers
    <3>. QED
      BY <1>0, <1>1, <2>1, <3>1, <3>2 DEF CleanInv, Recorded
  <2>5. listed' = Chain({k \in lines : w = "mirror" => k.seq # seq})'
    BY <1>0, <2>1, <2>3 DEF CleanInv, Chain
  <2>. QED
    BY <1>0, <1>1, <2>1, <2>4, <2>5, Numbers DEF CleanInv, Alive, Gone, WriterSteps
<1>5. CASE Mirror
  <2>1. /\ w = "mirror" /\ w' = "idle" /\ Recorded(seq) /\ Gone(seq)
        /\ UNCHANGED <<seq, frames, nextSeq, part, lines, summary>>
        /\ listed' = listed \cup {[seq |-> seq, frames |-> wav[seq]]}
    BY <1>0, <1>5 DEF Mirror, Goto, fileVars, manifestVars, ChunkInv, CleanInv
  <2>2. PICK l \in lines : l.seq = seq
    BY <2>1 DEF Recorded
  <2>3. l.frames = wav[seq] /\ \A k \in lines : k.seq = seq => k = l
    BY <2>2 DEF LinesInv
  <2>4. lines = {k \in lines : k.seq # seq} \cup {l}
    BY <2>2, <2>3
  <2>5. listed = Chain({k \in lines : k.seq # seq})
    BY <1>0, <2>1 DEF CleanInv
  <2>6. listed' = Chain(lines)
    <3>. DEFINE K == {k \in lines : k.seq # seq}
    <3>. HIDE DEF K
    <3>1. Chain(K \cup {l}) = Chain(K) \cup {[seq |-> l.seq, frames |-> l.frames]}
      BY DEF Chain
    <3>2. lines = K \cup {l} /\ listed = Chain(K)
      BY <2>4, <2>5 DEF K
    <3>. QED
      BY <2>1, <2>2, <2>3, <3>1, <3>2
  <2>7. listed' = Chain({k \in lines : w = "mirror" => k.seq # seq})'
    BY <2>1, <2>6 DEF Chain
  <2>8. \A s \in Seqs : Gone(s)'
    BY <1>0, <2>1 DEF CleanInv, Gone
  <2>9. \A s \in Seqs : s < nextSeq => Recorded(s)'
    BY <1>0, <1>1, <2>1 DEF CleanInv
  <2>10. \A s \in Seqs : s + 1 < nextSeq => Recorded(s)'
    BY <1>0, <1>1, <2>1 DEF CleanInv
  <2>. QED
    BY <1>0, <2>1, <2>7, <2>8, <2>9, <2>10 DEF CleanInv
<1>6. CASE Stop
  <2>1. /\ w = "idle" /\ w' = "exited" /\ summary' = <<listed>>
        /\ UNCHANGED <<seq, nextSeq, part, lines>>
    BY <1>6 DEF Stop, Goto, fileVars, manifestVars
  <2>2. Partials' = {}
    BY <1>0, <2>1 DEF CleanInv, Partials, Gone, WriterSteps
  <2>3. listed = Chain(lines)
    <3>1. {l \in lines : w = "mirror" => l.seq # seq} = lines
      BY <2>1
    <3>. QED
      BY <1>0, <3>1 DEF CleanInv
  <2>4. Readable' = lines
    BY <1>0, <2>1 DEF Readable
  <2>5. Chain(Readable)' = Chain(lines)
    BY <2>4 DEF Chain
  <2>. QED
    BY <1>0, <1>1, <2>1, <2>2, <2>3, <2>5 DEF CleanInv, Alive
<1>7. CASE Abandon \/ RecorderCrash
  <2>1. w' \in {"exited", "dead"} /\ UNCHANGED <<seq, nextSeq, summary>>
    BY <1>7 DEF Abandon, RecorderCrash, Goto
  <2>. QED
    BY <1>0, <1>1, <2>1 DEF CleanInv, Alive
<1>. QED
  BY <1>2, <1>3, <1>4, <1>5, <1>6, <1>7 DEF Recorder

\* A summary is written when nothing is left to record.
LEMMA PassKeepsClean ==
  ASSUME IInv, Pass \/ PassCrash, faults' = 0
  PROVE  CleanInv'
<1>. USE DEF IInv
<1>0. /\ faults = 0 /\ CleanInv /\ ~Alive /\ UNCHANGED <<w, seq, frames, nextSeq, listed>>
      /\ \A s \in Seqs : Recorded(s) => Recorded(s)'
  BY NoFaultYet, PassLeavesRecorder, LinesStay DEF Recorded
<1>1. summary' # <<>> => Partials' = {} /\ summary' = <<Chain(Readable)>>'
  <2>1. CASE RecoverAppend
    BY <1>0, <2>1 DEF RecoverAppend, PassInv, CleanInv
  <2>2. CASE CloseRecording
    <3>1. UNCHANGED <<part, lines>> /\ Partials = {}
      BY <2>2 DEF CloseRecording, PassInv, fileVars, manifestVars
    <3>2. Partials' = {} /\ Chain(Readable)' = Chain(Readable)
      BY <3>1 DEF Partials, Readable, Chain
    <3>3. summary' = summary \/ summary' = <<Chain(Readable)>>
      BY <2>2 DEF CloseRecording
    <3>. QED
      BY <1>0, <3>2, <3>3 DEF CleanInv
  <2>3. CASE ~RecoverAppend /\ ~CloseRecording
    <3>1. UNCHANGED <<lines, summary>>
      BY <2>3 DEF Pass, Begin, Sweep, AlreadyFinal, QuarantinePartial, Rebuild, RebuildFails,
         Replace, RecoverEvent, CleanPartial, CleanMeta, SweepMeta, PassCrash, manifestVars,
         AppendEvent
    <3>2. Partials' \subseteq Partials
      <4>1. UNCHANGED part \/ \E s : part' = Set(part, s, Absent)
        BY <2>3 DEF Pass, Begin, Sweep, AlreadyFinal, QuarantinePartial, Rebuild, RebuildFails,
           Replace, RecoverEvent, CleanPartial, CleanMeta, SweepMeta, PassCrash, fileVars,
           Quarantine
      <4>. QED
        BY <4>1 DEF Partials, Set, Typed, TypeOK
    <3>3. Chain(Readable)' = Chain(Readable)
      BY <3>1 DEF Chain, Readable
    <3>. QED
      BY <1>0, <3>1, <3>2, <3>3 DEF CleanInv
  <2>. QED
    BY <2>1, <2>2, <2>3
<1>2. ~Alive' /\ w' \notin WriterSteps \cup {"idle"}
  BY <1>0 DEF Alive, WriterSteps
<1>. QED
  BY <1>0, <1>1, <1>2 DEF CleanInv, WriterSteps

-----------------------------------------------------------------------------
LEMMA Begins == Init => IInv
<1> SUFFICES ASSUME Init PROVE IInv
  OBVIOUS
<1>. USE DEF Init
<1>1. \A s \in Seqs : NoFile[s] = Absent
  BY DEF NoFile
<1>2. Typed
  <2>1. NoFile \in [Seqs -> FileSize] /\ 0 \in Seqs
    BY Numbers, ConstantsAssumption DEF NoFile, Seqs
  <2>a. 0 \in 0..F /\ 0 \in 0..MaxChunks
    BY Numbers
  <2>b. begun \in BOOLEAN /\ torn \in BOOLEAN
    BY Zenon
  <2>2. TypeOK
    BY <2>1, <2>a, <2>b DEF TypeOK
  <2>3. IsFiniteSet(lines)
    BY FS_EmptySet
  <2>. QED
    BY <2>2, <2>3 DEF Typed
<1>3. FilesInv /\ LinesInv
  BY <1>1 DEF FilesInv, LinesInv, Gone, ManifestAheadOfDatabase
<1>4. WriterInv
  BY <1>1 DEF WriterInv, ChunkInv, Alive, WriterSteps
<1>5. PassInv
  BY DEF PassInv, PassSteps, PassLeavesNothing
<1>6. CleanInv
  <2>1. Chain({l \in lines : w = "mirror" => l.seq # seq}) = {}
    BY DEF Chain
  <2>2. \A s \in Seqs : ~(s + 1 < nextSeq) /\ ~(s < nextSeq) /\ Gone(s)
    BY <1>1, Numbers DEF Gone
  <2>. QED
    BY <2>1, <2>2 DEF CleanInv
<1>. QED
  BY <1>2, <1>3, <1>4, <1>5, <1>6 DEF IInv

LEMMA Stutters ==
  ASSUME IInv, UNCHANGED vars
  PROVE  IInv'
<1>. USE DEF IInv, vars, fileVars, manifestVars, writerVars, passVars
<1>1. Typed'
  BY DEF Typed, TypeOK
<1>2. FilesInv' /\ LinesInv'
  BY DEF FilesInv, Gone, LinesInv, ManifestAheadOfDatabase, Readable
<1>3. WriterInv'
  BY DEF WriterInv, ChunkInv, Alive, Gone, Recorded
<1>4. PassInv'
  BY DEF PassInv, Alive, RecordedSeqs, Readable, Partials, Temporaries, Recorded,
         PassLeavesNothing
<1>5. CleanInv'
  BY DEF CleanInv, Recorded, Alive, Gone, Chain, Partials, Readable
<1>. QED
  BY <1>1, <1>2, <1>3, <1>4, <1>5

LEMMA StepKeeps ==
  ASSUME IInv, [Next]_vars
  PROVE  IInv'
<1>1. CASE Recorder
  <2>1. CleanInv'
    BY <1>1, RecorderKeepsClean DEF CleanInv
  <2>. QED
    BY <1>1, <2>1, RecorderTyped, FilesStay, LinesStay, RecorderStays, RecorderLeavesPass
       DEF IInv
<1>2. CASE Pass \/ PassCrash
  <2>1. CleanInv'
    BY <1>2, PassKeepsClean DEF CleanInv
  <2>. QED
    BY <1>2, <2>1, PassTyped, FilesStay, LinesStay, PassLeavesRecorder, PassStays DEF IInv
<1>. QED
  BY <1>1, <1>2, Stutters DEF Next

LEMMA Inductive == Spec => []IInv
BY Begins, StepKeeps, PTL DEF Spec

(* Every variable stays in its range, and no chunk exceeds its frames.        *)
THEOREM DirectoryTyped == Spec => []TypeOK
<1>1. IInv => TypeOK
  BY DEF IInv, Typed
<1>. QED
  BY <1>1, Inductive, PTL

(* manifest.py: "a crash can leave the manifest ahead of the database but     *)
(* never behind it", whichever step of the writer or of a pass it hits.       *)
THEOREM ManifestLeads == Spec => []ManifestAheadOfDatabase
<1>1. IInv => ManifestAheadOfDatabase
  BY DEF IInv, LinesInv
<1>. QED
  BY <1>1, Inductive, PTL

\* Without a disk error the recorded chunks are those before some first one.
LEMMA NothingMissing ==
  ASSUME IInv, faults = 0, \A l \in lines : l.readable
  PROVE  Contiguous({l.seq : l \in Readable})
<1>1. \A s \in Seqs : /\ s + 1 < nextSeq => Recorded(s)
                      /\ Recorded(s) => s < nextSeq
  <2>1. \A s \in Seqs : Recorded(s) => wav[s] # Absent
    BY Numbers DEF IInv, LinesInv, Recorded, Typed, TypeOK, Absent
  <2>2. \A s \in Seqs : wav[s] # Absent => ~(s >= nextSeq)
    BY DEF IInv, FilesInv
  <2>3. \A s \in Seqs : s + 1 < nextSeq => Recorded(s)
    BY DEF IInv, CleanInv
  <2>4. nextSeq \in Nat
    BY Numbers DEF IInv, Typed, TypeOK
  <2>. QED
    BY <2>1, <2>2, <2>3, <2>4, Numbers
<1>2. {l.seq : l \in Readable} = {s \in Seqs : Recorded(s)}
  BY DEF Readable, Recorded, IInv, Typed, TypeOK
<1>. SUFFICES ASSUME NEW s \in Seqs, NEW t \in Seqs, Recorded(s), Recorded(t), NEW u \in s..t
             PROVE  u \in Seqs /\ Recorded(u)
  BY <1>2 DEF Contiguous
<1>3. nextSeq \in Nat /\ s \in Nat /\ t \in Nat /\ u \in Nat /\ u <= t /\ t < nextSeq
  BY <1>1, Numbers DEF IInv, Typed, TypeOK
<1>4. u \in Seqs
  BY <1>3, ConstantsAssumption DEF Seqs
<1>5. CASE u = t
  BY <1>4, <1>5
<1>6. CASE u # t
  BY <1>1, <1>3, <1>4, <1>6
<1>. QED
  BY <1>5, <1>6

(* verify_manifest after recover_all: the manifest agrees with the audio at   *)
(* each step, a pass that ends leaves nothing behind, and a recording that no *)
(* disk error hit and no crash tore a line of can be verified afterwards.     *)
THEOREM RecordsStayTrue == Spec => []RecordsAgree
<1>1. ASSUME IInv PROVE RecordsAgree
  <2>. USE <1>1 DEF IInv
  <2>1. RecordsMatchAudio
    BY DEF RecordsMatchAudio, LinesInv, Readable
  <2>2. PassLeavesNothing
    BY DEF PassInv
  <2>3. CrashesLeaveItVerifiable
    <3> SUFFICES ASSUME r = "done", faults = 0, Readable # {}, "torn" \notin Problems
                 PROVE  Problems = {}
      BY DEF CrashesLeaveItVerifiable
    <3>1. lines \ Readable = {} /\ torn = FALSE
      BY DEF Problems, Typed, TypeOK
    <3>2. \A l \in lines : l.readable
      BY <3>1 DEF Readable
    <3>3. {m \in Readable : ~Intact(m)} = {} /\ ~(\E l, m \in Readable : l # m /\ l.seq = m.seq)
      BY <2>1 DEF RecordsMatchAudio, Intact
    <3>4. Contiguous({l.seq : l \in Readable})
      BY <3>2, NothingMissing
    <3>5. Partials = {} /\ Temporaries = {} /\ meta = {}
      BY <2>2 DEF PassLeavesNothing
    <3>6. summary \in {<<>>, <<Chain(Readable)>>}
      BY DEF CleanInv
    <3>. QED
      BY <3>1, <3>3, <3>4, <3>5, <3>6 DEF Problems
  <2>. QED
    BY <2>1, <2>2, <2>3 DEF RecordsAgree
<1>2. IInv => RecordsAgree
  BY <1>1
<1>. QED
  BY <1>2, Inductive, PTL

-----------------------------------------------------------------------------
(* What the directory promises *)

\* The most of a chunk that is in one of its files.
Highest(a, b, c) == Max({0, a, b, c})

LEMMA HighestIs ==
  ASSUME NEW a \in FileSize, NEW b \in FileSize, NEW c \in FileSize
  PROVE  /\ Highest(a, b, c) \in 0..F /\ Highest(a, b, c) \in {0, a, b, c}
         /\ a <= Highest(a, b, c) /\ b <= Highest(a, b, c) /\ c <= Highest(a, b, c)
<1>1. 0 \in Int /\ a \in Int /\ b \in Int /\ c \in Int
  BY Numbers
<1>2. /\ Highest(a, b, c) \in {0, a, b, c}
      /\ \A x \in {0, a, b, c} : x <= Highest(a, b, c)
  BY <1>1, GreatestOf DEF Highest
<1>. QED
  BY <1>1, <1>2, Numbers DEF Absent

LEMMA HeldIs ==
  /\ Held = [s \in Seqs |-> Highest(part[s], wav[s], quar[s])]
  /\ Held' = [s \in Seqs |-> Highest(part'[s], wav'[s], quar'[s])]
BY DEF Held, Highest

\* What a step may do to the files of a chunk.
Unmoved(s) == UNCHANGED <<part[s], wav[s], quar[s]>>
Kept(s) ==
    /\ wav'[s] = wav[s]
    /\ Highest(part'[s], wav'[s], quar'[s]) = Highest(part[s], wav[s], quar[s])

LEMMA NothingHappens ==
  ASSUME Typed, Typed', \A s \in Seqs : Kept(s)
  PROVE  UNCHANGED <<Held, wav>>
<1>1. wav \in [Seqs -> FileSize] /\ wav' \in [Seqs -> FileSize]
  BY DEF Typed, TypeOK
<1>2. wav' = wav
  BY <1>1 DEF Kept
<1>3. Held' = Held
  BY HeldIs DEF Kept
<1>. QED
  BY <1>2, <1>3

LEMMA ChunkGrows ==
  ASSUME Typed, Typed', NEW s \in Seqs, wav[s] = Absent, wav' = wav, quar[s] = Absent,
         quar' = quar, part[s] <= part'[s], \A t \in Seqs \ {s} : part'[t] = part[t]
  PROVE  [Archive!Next]_<<Held, wav>>
<1>0. /\ part[s] \in FileSize /\ part'[s] \in FileSize /\ wav[s] \in FileSize
      /\ quar[s] \in FileSize
  BY DEF Typed, TypeOK
<1>. DEFINE n == Highest(part'[s], wav[s], quar[s])
<1>1. n \in 0..F /\ Held[s] \in 0..F /\ Held[s] <= n
  <2>1. Held[s] = Highest(part[s], wav[s], quar[s])
    BY HeldIs
  <2>2. /\ n \in 0..F /\ n \in {0, part'[s], Absent} /\ part'[s] <= n
    BY <1>0, HighestIs
  <2>3. Held[s] \in 0..F /\ Held[s] \in {0, part[s], Absent}
    BY <1>0, <2>1, HighestIs
  <2>4. part[s] \in Int /\ part'[s] \in Int /\ part[s] <= part'[s]
    BY <1>0, Numbers
  <2>. HIDE DEF n
  <2>. QED
    BY <2>2, <2>3, <2>4 DEF Absent
<1>2. Held' = [Held EXCEPT ![s] = n]
  BY HeldIs
<1>. HIDE DEF n
<1>3. CASE n = Held[s]
  BY <1>2, <1>3, HeldIs
<1>4. CASE n # Held[s]
  <2>1. n > Held[s]
    BY <1>1, <1>4
  <2>2. Archive!Grow(s)
    BY <1>1, <1>2, <2>1 DEF Archive!Grow, Absent
  <2>. QED
    BY <2>2 DEF Archive!Next
<1>. QED
  BY <1>3, <1>4

LEMMA ChunkFinal ==
  ASSUME Typed, Typed', NEW s \in Seqs, wav[s] = Absent, quar[s] = Absent, ~Gone(s),
         wav' = Set(wav, s, part[s]), UNCHANGED <<part, quar>>
  PROVE  [Archive!Next]_<<Held, wav>>
<1>0. part[s] \in 0..F /\ part[s] \in FileSize /\ Absent \in FileSize
  BY Numbers DEF Typed, TypeOK, Gone
<1>1. Highest(part[s], Absent, Absent) = part[s] /\ Highest(part[s], part[s], Absent) = part[s]
  <2>1. /\ Highest(part[s], Absent, Absent) \in {0, part[s], Absent}
        /\ part[s] <= Highest(part[s], Absent, Absent)
        /\ Highest(part[s], Absent, Absent) \in 0..F
    BY <1>0, HighestIs
  <2>2. /\ Highest(part[s], part[s], Absent) \in {0, part[s], Absent}
        /\ part[s] <= Highest(part[s], part[s], Absent)
        /\ Highest(part[s], part[s], Absent) \in 0..F
    BY <1>0, HighestIs
  <2>. QED
    BY <1>0, <2>1, <2>2 DEF Absent
<1>2. wav'[s] = part[s] /\ \A t \in Seqs \ {s} : wav'[t] = wav[t]
  BY DEF Set, Typed, TypeOK
<1>3. Held[s] = part[s] /\ Held' = Held
  BY <1>1, <1>2, HeldIs
<1>4. Archive!Finalise(s)
  BY <1>3 DEF Archive!Finalise, Set, Absent
<1>. QED
  BY <1>4 DEF Archive!Next

LEMMA RecorderArchives ==
  ASSUME IInv, IInv', Recorder
  PROVE  [Archive!Next]_<<Held, wav>>
<1>. USE DEF IInv
<1>0. /\ Alive /\ \A s \in Seqs : quar[s] = Absent
      /\ seq \in Seqs
  <2>1. Alive
    BY DEF Recorder, OpenMeta, OpenPartial, WriteFrame, RecordGap, EndChunk, Sync, Build,
       CheckFinal, Rename, Discard, Forget, Append, Mirror, Stop, Abandon, RecorderCrash, Alive
  <2>. QED
    BY <2>1 DEF WriterInv, Typed, TypeOK
<1>1. CASE OpenPartial \/ WriteFrame \/ Sync \/ Abandon
  <2>1. UNCHANGED <<wav, quar>> /\ \A t \in Seqs \ {seq} : part'[t] = part[t]
    BY <1>1 DEF OpenPartial, WriteFrame, Sync, Abandon, Flush, Set, Typed, TypeOK
  <2>2. CASE UNCHANGED part
    BY <2>1, <2>2, NothingHappens DEF Kept
  <2>3. CASE ~UNCHANGED part
    <3>1. wav[seq] = Absent
      BY <1>1, <2>3 DEF OpenPartial, WriteFrame, Sync, Abandon, WriterInv, ChunkInv
    <3>2. part[seq] <= part'[seq]
      <4>1. part[seq] \in FileSize /\ frames \in Nat
        BY Numbers DEF Typed, TypeOK
      <4>2. \/ part'[seq] = 0 /\ Gone(seq)
            \/ w \in {"open", "sync"} /\ part'[seq] \in part[seq]..(frames + 1)
            \/ w \in {"open", "sync"} /\ part'[seq] = frames
        BY <1>0, <1>1, <2>3 DEF OpenPartial, WriteFrame, Sync, Abandon, Flush, Set, WriterInv,
           ChunkInv, Typed, TypeOK
      <4>3. w \in {"open", "sync"} => part[seq] \in 0..frames
        BY DEF WriterInv, ChunkInv
      <4>. QED
        BY <4>1, <4>2, <4>3 DEF Gone, Absent
    <3>. QED
      BY <1>0, <2>1, <3>1, <3>2, ChunkGrows
  <2>. QED
    BY <2>2, <2>3
<1>2. CASE Rename
  BY <1>0, <1>2, ChunkFinal DEF Rename, WriterInv, ChunkInv, Gone
<1>3. CASE Discard
  <2>1. UNCHANGED <<wav, quar>> /\ \A t \in Seqs \ {seq} : part'[t] = part[t]
    BY <1>3 DEF Discard, Set, Typed, TypeOK
  <2>2. Kept(seq)
    <3>1. part'[seq] \in {Absent, part[seq]}
      BY <1>3 DEF Discard, Set, Typed, TypeOK
    <3>2. part[seq] = wav[seq] \/ (part[seq] = 0 /\ wav[seq] = Absent)
      BY <1>3 DEF Discard, WriterInv, ChunkInv
    <3>3. part[seq] \in FileSize /\ wav[seq] \in FileSize /\ quar[seq] \in FileSize
      BY <1>0 DEF Typed, TypeOK
    <3>. DEFINE a == part[seq]
                b == part'[seq]
                v == wav[seq]
    <3>4. a \in FileSize /\ b \in FileSize /\ v \in FileSize /\ Absent \in FileSize
      BY <3>1, <3>3, Numbers
    <3>5. b \in {Absent, a} /\ (a = v \/ (a = 0 /\ v = Absent))
      BY <3>1, <3>2
    <3>. HIDE DEF a, b, v
    <3>6. Highest(b, v, Absent) = Highest(a, v, Absent)
      <4>1. /\ Highest(b, v, Absent) \in {0, b, v, Absent} /\ Highest(b, v, Absent) \in 0..F
            /\ v <= Highest(b, v, Absent) /\ b <= Highest(b, v, Absent)
        BY <3>4, HighestIs
      <4>2. /\ Highest(a, v, Absent) \in {0, a, v, Absent} /\ Highest(a, v, Absent) \in 0..F
            /\ v <= Highest(a, v, Absent) /\ a <= Highest(a, v, Absent)
        BY <3>4, HighestIs
      <4>3. a \in Int /\ b \in Int /\ v \in Int
        BY <3>4, Numbers
      <4>. QED
        BY <3>5, <4>1, <4>2, <4>3 DEF Absent
    <3>. QED
      BY <1>0, <2>1, <3>6 DEF Kept, a, b, v
  <2>. QED
    BY <2>1, <2>2, NothingHappens DEF Kept
<1>4. CASE \/ OpenMeta \/ RecordGap \/ EndChunk \/ Build \/ CheckFinal \/ Forget \/ Append
           \/ Mirror \/ Stop \/ RecorderCrash
  <2>1. UNCHANGED <<part, wav, quar>>
    BY <1>4 DEF OpenMeta, RecordGap, EndChunk, Build, CheckFinal, Forget, Append, Mirror, Stop,
       RecorderCrash, fileVars
  <2>. QED
    BY <2>1, NothingHappens DEF Kept
<1>. QED
  BY <1>1, <1>2, <1>3, <1>4 DEF Recorder

LEMMA PassArchives ==
  ASSUME IInv, IInv', Pass \/ PassCrash
  PROVE  [Archive!Next]_<<Held, wav>>
<1>. USE DEF IInv
<1>1. CASE Replace
  <2>1. /\ cur \in Seqs /\ ~Gone(cur) /\ wav[cur] = Absent /\ quar[cur] = Absent
        /\ rec[cur] = part[cur]
    BY <1>1 DEF Replace, PassInv, FilesInv, Partials, Gone, Typed, TypeOK
  <2>. QED
    BY <1>1, <2>1, ChunkFinal DEF Replace
<1>2. CASE QuarantinePartial \/ RebuildFails
  <2>1. /\ UNCHANGED wav /\ cur' \in Seqs /\ ~Gone(cur') /\ part' = Set(part, cur', Absent)
        /\ quar' = Set(quar, cur', Max({quar[cur'], part[cur']}))
    BY <1>2, PickedChunk DEF QuarantinePartial, RebuildFails, Quarantine
  <2>2. \A t \in Seqs \ {cur'} : part'[t] = part[t] /\ quar'[t] = quar[t]
    BY <2>1 DEF Set, Typed, TypeOK
  <2>3. quar[cur'] = Absent /\ part[cur'] \in 0..F /\ wav[cur'] \in FileSize
    BY <2>1, Numbers DEF FilesInv, Gone, Typed, TypeOK
  <2>4. Max({quar[cur'], part[cur']}) = part[cur']
    <3>. DEFINE a == quar[cur']
                b == part[cur']
    <3>1. {a, b} = {a, b, a, b} /\ a \in Int /\ b \in Int /\ a < b
      BY <2>3, Numbers DEF Absent
    <3>2. Max({a, b, a, b}) \in {a, b, a, b} /\ \A x \in {a, b, a, b} : x <= Max({a, b, a, b})
      BY <3>1, GreatestOf
    <3>. QED
      BY <3>1, <3>2
  <2>5. part'[cur'] = Absent /\ quar'[cur'] = part[cur']
    BY <2>1, <2>4 DEF Set, Typed, TypeOK
  <2>6. \A n \in FileSize, v \in FileSize : Highest(Absent, v, n) = Highest(n, v, Absent)
    <3> TAKE n \in FileSize, v \in FileSize
    <3>1. {0, Absent, v, n} = {0, n, v, Absent}
      OBVIOUS
    <3>. QED
      BY <3>1 DEF Highest
  <2>7. Kept(cur')
    BY <2>1, <2>3, <2>5, <2>6, Numbers DEF Kept
  <2>. QED
    BY <2>1, <2>2, <2>7, NothingHappens DEF Kept
<1>3. CASE CleanPartial
  <2>1. /\ UNCHANGED <<wav, quar>> /\ cur \in Seqs /\ part[cur] = wav[cur]
        /\ part' = Set(part, cur, Absent) /\ part[cur] # Absent
    BY <1>3 DEF CleanPartial, PassInv, FilesInv, Partials, Gone, Typed, TypeOK
  <2>2. part'[cur] = Absent /\ \A t \in Seqs \ {cur} : part'[t] = part[t]
    BY <2>1 DEF Set, Typed, TypeOK
  <2>3. Kept(cur)
    <3>. DEFINE v == wav[cur]
                q == quar[cur]
    <3>1. v \in 0..F /\ v \in FileSize /\ q \in FileSize /\ Absent \in FileSize
      BY <2>1, Numbers DEF Typed, TypeOK
    <3>. HIDE DEF v, q
    <3>2. Highest(Absent, v, q) = Highest(v, v, q)
      <4>1. Highest(Absent, v, q) \in {0, v, q} /\ Highest(v, v, q) \in {0, v, q}
        BY <3>1, HighestIs, Numbers DEF Absent
      <4>2. /\ v <= Highest(Absent, v, q) /\ q <= Highest(Absent, v, q)
            /\ v <= Highest(v, v, q) /\ q <= Highest(v, v, q)
        BY <3>1, HighestIs
      <4>. QED
        BY <3>1, <4>1, <4>2, Numbers
    <3>. QED
      BY <2>1, <2>2, <3>2 DEF Kept, v, q
  <2>. QED
    BY <2>1, <2>2, <2>3, NothingHappens DEF Kept
<1>4. CASE ~Replace /\ ~QuarantinePartial /\ ~RebuildFails /\ ~CleanPartial
  <2>1. UNCHANGED <<part, wav, quar>>
    BY <1>4 DEF Pass, Begin, Sweep, AlreadyFinal, Rebuild, RecoverAppend, RecoverEvent,
       CleanMeta, SweepMeta, CloseRecording, PassCrash, fileVars
  <2>. QED
    BY <2>1, NothingHappens DEF Kept
<1>. QED
  BY <1>1, <1>2, <1>3, <1>4

(* writer.py and recovery.py never lose audio that reached the disk and never *)
(* touch a final chunk: each step is one of the archive, or none.             *)
THEOREM DirectoryIsArchive == Spec => ImplementsArchive
<1>1. Init => Archive!Init
  <2> SUFFICES ASSUME Init PROVE Archive!Init
    OBVIOUS
  <2>1. Absent \in FileSize /\ Absent = -1
    BY Numbers DEF Absent
  <2>2. Highest(Absent, Absent, Absent) = 0
    BY <2>1, HighestIs, Numbers
  <2>3. Held = [s \in Seqs |-> 0]
    BY <2>2, HeldIs DEF Init, NoFile
  <2>. QED
    BY <2>1, <2>3 DEF Init, NoFile, Archive!Init
<1>2. IInv /\ [Next]_vars => [Archive!Next]_<<Held, wav>>
  <2> SUFFICES ASSUME IInv, [Next]_vars PROVE [Archive!Next]_<<Held, wav>>
    OBVIOUS
  <2>0. IInv'
    BY StepKeeps
  <2>1. CASE UNCHANGED vars
    BY <2>1 DEF vars, fileVars, Held
  <2>. QED
    BY <2>0, <2>1, RecorderArchives, PassArchives DEF Next
<1>. QED
  BY <1>1, <1>2, Inductive, PTL DEF Spec, ImplementsArchive, Archive!Spec
=============================================================================
