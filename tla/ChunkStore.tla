----------------------------- MODULE ChunkStore -----------------------------
(***************************************************************************)
(* One recording directory: the chunk writer that fills it                 *)
(* (src/mom_igd/audio/writer.py), the JSON Lines manifest beside it        *)
(* (src/mom_igd/audio/manifest.py), the database rows that mirror it       *)
(* (src/mom_igd/audio/service.py) and the recovery pass that salvages it   *)
(* (src/mom_igd/audio/recovery.py), with a crash between any two file      *)
(* operations of either.                                                   *)
(*                                                                         *)
(* Audio is counted in frames; a file is the number of whole frames it     *)
(* holds, -1 when it does not exist.                                       *)
(***************************************************************************)
EXTENDS Integers, FiniteSets, FiniteSetsExt

CONSTANTS
    MaxChunks,      \* bound: chunks of the recording
    F,              \* CaptureProfile.frames_per_chunk
    MaxCrashes,     \* bound: crashes of the recorder or of recovery passes
    MaxFaults       \* bound: disk errors that do not end the process

ASSUME ConstantsAssumption ==
    /\ MaxChunks \in Nat \ {0} /\ F \in Nat \ {0}
    /\ MaxCrashes \in Nat /\ MaxFaults \in Nat

Seqs == 0..(MaxChunks - 1)
Absent == -1

VARIABLES
    part, meta,     \* chunk_N.pcm.part: frames on the disk; chunk_N.meta.json: the seqs that have one
    tmp, rec,       \* chunk_N.wav.tmp of the writer, chunk_N.wav.recovering of recovery
    wav,            \* chunk_N.wav
    quar,           \* most frames of a chunk found in quarantine/
    lines,          \* chunk lines of manifest.jsonl: [no, seq, frames, readable]
    torn,           \* does manifest.jsonl end in an incomplete line?
    begun,          \* does manifest.jsonl exist?
    summary,        \* manifest.json: <<>> or <<the chunk lines it lists>>
    db,             \* rows of recording_chunks, by seq
    w, seq, frames, \* recorder: next step, open chunk, its frame count in memory
    nextSeq,        \* ChunkWriter._next_seq
    listed,         \* _Active.chunks: the lines the recorder knows it wrote
    r, cur,         \* recovery pass: next step, the chunk it is at
    known, todo,    \* its snapshot of the manifest, the partials it has yet to do
    crashes, faults \* bound counters

fileVars     == <<part, meta, tmp, rec, wav, quar>>
manifestVars == <<lines, torn, begun>>
writerVars   == <<w, seq, frames, nextSeq, listed>>
passVars     == <<r, cur, known, todo>>
vars == <<fileVars, manifestVars, summary, db, writerVars, passVars, crashes, faults>>

NoFile == [s \in Seqs |-> Absent]

Init ==
    /\ part = NoFile /\ meta = {} /\ tmp = NoFile /\ rec = NoFile
    /\ wav = NoFile /\ quar = NoFile
    /\ lines = {} /\ torn = FALSE /\ begun = FALSE /\ summary = <<>> /\ db = {}
    /\ w = "idle" /\ seq = 0 /\ frames = 0 /\ nextSeq = 0 /\ listed = {}
    /\ r = "off" /\ cur = 0 /\ known = {} /\ todo = {}
    /\ crashes = 0 /\ faults = 0

-----------------------------------------------------------------------------
(* The files *)

Fault == faults < MaxFaults /\ faults' = faults + 1

Set(f, s, n) == [f EXCEPT ![s] = n]
Readable == {l \in lines : l.readable}
Partials == {s \in Seqs : part[s] # Absent}
Temporaries == {s \in Seqs : tmp[s] # Absent \/ rec[s] # Absent}

\* ManifestWriter.append: the line lands after whatever the file ends with, so
\* behind a torn tail it becomes part of that unreadable line.
AppendLine(s, n) ==
    /\ lines' = lines \cup {[no |-> Cardinality(lines) + 1, seq |-> s, frames |-> n,
                             readable |-> ~torn]}
    /\ torn' = FALSE /\ begun' = TRUE

AppendEvent == torn' = FALSE /\ begun' = TRUE /\ UNCHANGED lines

\* MUTANT: quarantine deletes the file.
QuarantineDeletes(s) == part' = Set(part, s, Absent) /\ UNCHANGED quar

\* quarantine_file: the partial moves into quarantine/.
Quarantine(s) ==
    /\ quar' = Set(quar, s, Max({quar[s], part[s]}))
    /\ part' = Set(part, s, Absent)

FinalExists(s) == wav[s] # Absent

\* write_partial_meta and read_partial_meta: the capture format beside the partial.
WriteMeta(s) == meta' = meta \cup {s}
HasMeta(s) == s \in meta

\* build_wav_from_pcm: the whole frames that are on the disk, and no others.
BuiltFrom(s) == part[s]

-----------------------------------------------------------------------------
(* The recorder *)

Alive == w \notin {"exited", "dead"}
Goto(pc) == w' = pc

Full(n) == n >= F

\* _open_next: the metadata sidecar first, then the partial.
OpenMeta ==
    /\ w = "idle" /\ nextSeq \in Seqs
    /\ seq' = nextSeq /\ nextSeq' = nextSeq + 1 /\ frames' = 0
    /\ WriteMeta(nextSeq) /\ Goto("opening")
    /\ UNCHANGED <<part, tmp, rec, wav, quar, manifestVars, summary, db, listed,
                   passVars, crashes, faults>>

OpenPartial ==
    /\ w = "opening"
    /\ \/ part' = Set(part, seq, 0) /\ Goto("open") /\ UNCHANGED faults
       \/ Fault /\ Goto("idle") /\ UNCHANGED part
    /\ UNCHANGED <<meta, tmp, rec, wav, quar, manifestVars, summary, db, seq, frames,
                   nextSeq, listed, passVars, crashes>>

\* write: one frame goes to the handle, and any prefix of what the handle holds
\* to the disk; a full chunk is rotated.
WriteFrame ==
    /\ w = "open"
    /\ frames' = frames + 1
    /\ \E n \in part[seq]..(frames + 1) : part' = Set(part, seq, n)
    /\ IF Full(frames + 1) THEN Goto("sync") ELSE UNCHANGED w
    /\ UNCHANGED <<meta, tmp, rec, wav, quar, manifestVars, summary, db, seq, nextSeq,
                   listed, passVars, crashes, faults>>

\* A gap or a pause is recorded in the manifest.
RecordGap ==
    /\ w \in {"idle", "open"} /\ ~begun /\ AppendEvent
    /\ UNCHANGED <<fileVars, summary, db, writerVars, passVars, crashes, faults>>

\* finalise_current before the chunk is full: pause, stop.  A chunk is empty
\* only when its first write failed.
EndChunk ==
    /\ w = "open" /\ Goto("sync")
    /\ IF frames = 0 THEN Fault ELSE UNCHANGED faults
    /\ UNCHANGED <<fileVars, manifestVars, summary, db, seq, frames, nextSeq, listed,
                   passVars, crashes>>

Flush == part' = Set(part, seq, frames)

\* Flush and fsync; an error is logged and the chunk is built from what is there.
Sync ==
    /\ w = "sync"
    /\ \/ UNCHANGED faults /\ Flush
       \/ Fault /\ UNCHANGED part
    /\ Goto(IF frames = 0 THEN "discard" ELSE "build")
    /\ UNCHANGED <<meta, tmp, rec, wav, quar, manifestVars, summary, db, seq, frames,
                   nextSeq, listed, passVars, crashes>>

\* build_wav_from_pcm into the temporary WAV; a failure leaves the partial and
\* perhaps the temporary.
Build ==
    /\ w = "build"
    /\ \/ tmp' = Set(tmp, seq, BuiltFrom(seq)) /\ Goto("check") /\ UNCHANGED faults
       \/ Fault /\ tmp' \in {tmp, Set(tmp, seq, 0)} /\ Goto("idle")
    /\ UNCHANGED <<part, meta, rec, wav, quar, manifestVars, summary, db, seq, frames,
                   nextSeq, listed, passVars, crashes>>

\* "Refusing to overwrite an existing final chunk".
CheckFinal ==
    /\ w = "check"
    /\ IF wav[seq] # Absent
         THEN tmp' = Set(tmp, seq, Absent) /\ Goto("idle")
         ELSE Goto("rename") /\ UNCHANGED tmp
    /\ UNCHANGED <<part, meta, rec, wav, quar, manifestVars, summary, db, seq, frames,
                   nextSeq, listed, passVars, crashes, faults>>

\* os.replace.
Rename ==
    /\ w = "rename"
    /\ wav' = Set(wav, seq, tmp[seq]) /\ tmp' = Set(tmp, seq, Absent)
    /\ Goto("discard")
    /\ UNCHANGED <<part, meta, rec, quar, manifestVars, summary, db, seq, frames,
                   nextSeq, listed, passVars, crashes, faults>>

\* _discard_partial, before on_finalised; a locked file stays behind.
Discard ==
    /\ w = "discard"
    /\ \/ part' = Set(part, seq, Absent) /\ UNCHANGED faults
       \/ Fault /\ UNCHANGED part
    /\ Goto("forget")
    /\ UNCHANGED <<meta, tmp, rec, wav, quar, manifestVars, summary, db, seq, frames,
                   nextSeq, listed, passVars, crashes>>

\* MUTANT: the database row comes before the manifest line.
AfterDiscardMirror == "mirror"

AfterDiscard == "append"

Forget ==
    /\ w = "forget"
    /\ meta' = meta \ {seq}
    /\ Goto(IF frames = 0 THEN "idle" ELSE AfterDiscard)
    /\ UNCHANGED <<part, tmp, rec, wav, quar, manifestVars, summary, db, seq, frames,
                   nextSeq, listed, passVars, crashes, faults>>

\* on_finalised: the manifest line, forced to disk.  An OSError here leaves the
\* line written or not, and the database is not told.
Append ==
    /\ w = "append"
    /\ \/ AppendLine(seq, wav[seq]) /\ Goto("mirror") /\ UNCHANGED faults
       \/ Fault /\ Goto("idle") /\ AppendLine(seq, wav[seq])
       \/ Fault /\ Goto("idle") /\ UNCHANGED manifestVars
    /\ UNCHANGED <<fileVars, summary, db, seq, frames, nextSeq, listed, passVars,
                   crashes>>

\* _on_chunk_finalised: an error of the database is logged and forgotten.
Mirror ==
    /\ w = "mirror"
    /\ db' \in {db, db \cup {seq}}
    /\ listed' = listed \cup {[seq |-> seq, frames |-> wav[seq]]}
    /\ Goto("idle")
    /\ UNCHANGED <<fileVars, manifestVars, summary, seq, frames, nextSeq, passVars,
                   crashes, faults>>

\* RecordingService.stop once the writer is closed: the summary manifest.
Stop ==
    /\ w = "idle" /\ Goto("exited")
    /\ summary' = <<listed>>
    /\ UNCHANGED <<fileVars, manifestVars, db, seq, frames, nextSeq, listed, passVars,
                   crashes, faults>>

\* abandon: the handle is flushed and closed, the partial stays.
Abandon ==
    /\ w \in {"idle", "open"} /\ Goto("exited")
    /\ IF w = "open" THEN Flush ELSE UNCHANGED part
    /\ UNCHANGED <<meta, tmp, rec, wav, quar, manifestVars, summary, db, seq, frames,
                   nextSeq, listed, passVars, crashes, faults>>

\* The process is killed; a manifest line it was appending may be torn.
RecorderCrash ==
    /\ Alive /\ crashes < MaxCrashes /\ crashes' = crashes + 1
    /\ Goto("dead")
    /\ \/ UNCHANGED <<torn, begun>>
       \/ w \in {"idle", "open", "append"} /\ torn' = TRUE /\ begun' = TRUE
    /\ UNCHANGED <<fileVars, lines, summary, db, seq, frames, nextSeq, listed,
                   passVars, faults>>

Recorder ==
    \/ OpenMeta \/ OpenPartial \/ WriteFrame \/ RecordGap \/ EndChunk \/ Sync
    \/ Build \/ CheckFinal \/ Rename \/ Discard \/ Forget \/ Append \/ Mirror
    \/ Stop \/ Abandon \/ RecorderCrash

-----------------------------------------------------------------------------
(* A recovery pass *)

To(pc) == r' = pc

\* MUTANT: a directory that has a summary is never looked at.
CandidateUnclosed == begun /\ summary = <<>>

\* scan_recoverable.
Candidate ==
    \/ begun /\ (Partials # {} \/ Temporaries # {} \/ summary = <<>>)
    \/ Partials # {}

\* recover_all picks the directory; recover_recording reads the manifest and
\* lists the partials once.  That the recorder is gone by then is assumed: the
\* code leaves it to the operator.
Begin ==
    /\ r \in {"off", "done"} /\ Candidate /\ ~Alive
    /\ known' = {l.seq : l \in Readable} /\ todo' = Partials
    /\ To("sweep")
    /\ UNCHANGED <<fileVars, manifestVars, summary, db, writerVars, cur, crashes,
                   faults>>

\* Abandoned temporaries go to quarantine one by one.
Sweep ==
    /\ r = "sweep"
    /\ \/ \E s \in Seqs :
            \/ tmp[s] # Absent /\ tmp' = Set(tmp, s, Absent) /\ UNCHANGED rec
            \/ rec[s] # Absent /\ rec' = Set(rec, s, Absent) /\ UNCHANGED tmp
          /\ UNCHANGED r
       \/ Temporaries = {} /\ To("next") /\ UNCHANGED <<tmp, rec>>
    /\ UNCHANGED <<part, meta, wav, quar, manifestVars, summary, db, writerVars, cur,
                   known, todo, crashes, faults>>

Pick == todo # {} /\ cur' = Min(todo) /\ todo' = todo \ {Min(todo)}

\* The chunk is final and recorded: only its partial outlived it.
AlreadyFinal ==
    /\ r = "next" /\ Pick /\ FinalExists(cur') /\ cur' \in known
    /\ To("clean")
    /\ UNCHANGED <<fileVars, manifestVars, summary, db, writerVars, known, crashes,
                   faults>>

\* Final but unrecorded, without metadata, or without one whole frame.
Hopeless(s) ==
    IF FinalExists(s) THEN s \notin known ELSE ~HasMeta(s) \/ BuiltFrom(s) < 1

QuarantinePartial ==
    /\ r = "next" /\ Pick /\ Hopeless(cur') /\ Quarantine(cur')
    /\ UNCHANGED <<meta, tmp, rec, wav, manifestVars, summary, db, writerVars, r,
                   known, crashes, faults>>

Rebuild ==
    /\ r = "next" /\ Pick /\ ~FinalExists(cur') /\ ~Hopeless(cur')
    /\ rec' = Set(rec, cur', BuiltFrom(cur')) /\ To("replace")
    /\ UNCHANGED <<part, meta, tmp, wav, quar, manifestVars, summary, db, writerVars,
                   known, crashes, faults>>

\* The rebuild fails: what it wrote is unlinked and the partial quarantined.
RebuildFails ==
    /\ r = "next" /\ Pick /\ ~FinalExists(cur') /\ ~Hopeless(cur') /\ Fault
    /\ Quarantine(cur')
    /\ UNCHANGED <<meta, tmp, rec, wav, manifestVars, summary, db, writerVars, r,
                   known, crashes>>

Replace ==
    /\ r = "replace"
    /\ wav' = Set(wav, cur, rec[cur]) /\ rec' = Set(rec, cur, Absent) /\ To("append")
    /\ UNCHANGED <<part, meta, tmp, quar, manifestVars, summary, db, writerVars, cur,
                   known, todo, crashes, faults>>

RecoverAppend ==
    /\ r = "append" /\ AppendLine(cur, wav[cur]) /\ To("event")
    /\ UNCHANGED <<fileVars, summary, db, writerVars, cur, known, todo, crashes,
                   faults>>

RecoverEvent ==
    /\ r = "event" /\ AppendEvent /\ To("clean")
    /\ UNCHANGED <<fileVars, summary, db, writerVars, cur, known, todo, crashes,
                   faults>>

\* _cleanup_partial: the partial, then its metadata.
CleanPartial ==
    /\ r = "clean"
    /\ part' = Set(part, cur, Absent) /\ To("cleanMeta")
    /\ UNCHANGED <<meta, tmp, rec, wav, quar, manifestVars, summary, db, writerVars,
                   cur, known, todo, crashes, faults>>

CleanMeta ==
    /\ r = "cleanMeta" /\ meta' = meta \ {cur} /\ To("next")
    /\ UNCHANGED <<part, tmp, rec, wav, quar, manifestVars, summary, db, writerVars,
                   cur, known, todo, crashes, faults>>

\* Sidecars whose partial is gone.
SweepMeta ==
    /\ r = "next" /\ todo = {}
    /\ meta' = meta \cap Partials /\ To("close")
    /\ UNCHANGED <<part, tmp, rec, wav, quar, manifestVars, summary, db, writerVars,
                   cur, known, todo, crashes, faults>>

NeedsSummary == summary = <<>> /\ Partials = {} /\ Readable # {}

\* The chunks that chain_sha256 is computed over.
Chain(records) == {[seq |-> l.seq, frames |-> l.frames] : l \in records}

\* MUTANT: the summary lists what the manifest held when the pass began.
CloseFromSnapshot ==
    /\ r = "close" /\ To("done")
    /\ summary' = IF NeedsSummary THEN <<Chain({l \in Readable : l.seq \in known})>>
                                   ELSE summary
    /\ UNCHANGED <<fileVars, manifestVars, db, writerVars, cur, known, todo, crashes,
                   faults>>

\* _finish_interrupted_finalisation.
CloseRecording ==
    /\ r = "close" /\ To("done")
    /\ summary' = IF NeedsSummary THEN <<Chain(Readable)>> ELSE summary
    /\ UNCHANGED <<fileVars, manifestVars, db, writerVars, cur, known, todo, crashes,
                   faults>>

\* The pass is killed, or an error it does not catch ends it.
PassCrash ==
    /\ r \notin {"off", "done"} /\ crashes < MaxCrashes /\ crashes' = crashes + 1
    /\ To("off")
    /\ torn' \in {torn, torn \/ r \in {"append", "event"}}
    /\ UNCHANGED <<fileVars, lines, begun, summary, db, writerVars, cur, known, todo,
                   faults>>

Pass == \/ Begin \/ Sweep \/ AlreadyFinal \/ QuarantinePartial \/ Rebuild
        \/ RebuildFails \/ Replace \/ RecoverAppend \/ RecoverEvent \/ CleanPartial
        \/ CleanMeta \/ SweepMeta \/ CloseRecording

-----------------------------------------------------------------------------
Next == Recorder \/ Pass \/ PassCrash

\* An operator told of an interrupted recording runs recovery, and again after a
\* pass that died; nobody has to record, stop or abandon.
Fairness == WF_vars(Pass)

Spec == Init /\ [][Next]_vars /\ Fairness

-----------------------------------------------------------------------------
(* Verification, which changes nothing *)

\* _verify_wav_header and the checksum: the file is the one the line records.
Intact(l) == wav[l.seq] = l.frames

Contiguous(S) == \A s, t \in S : \A u \in s..t : u \in S

\* verify_manifest, of a manifest with at least one chunk.
Problems ==
    {"torn" : l \in lines \ Readable} \cup (IF torn THEN {"torn"} ELSE {})
        \cup {"chunk" : l \in {m \in Readable : ~Intact(m)}}
        \cup (IF \E l, m \in Readable : l # m /\ l.seq = m.seq THEN {"duplicate"} ELSE {})
        \cup (IF Contiguous({l.seq : l \in Readable}) THEN {} ELSE {"sequence"})
        \cup {"unfinalised" : s \in Partials \cup Temporaries \cup meta}
        \cup (IF summary \in {<<>>, <<Chain(Readable)>>} THEN {} ELSE {"altered"})

\* RecordingService.verify: the rows of the database are compared too.
DatabaseMismatches == {s \in Seqs : (s \in db) # (\E l \in Readable : l.seq = s)}
Verified == Problems = {} /\ DatabaseMismatches = {}

-----------------------------------------------------------------------------
(* What must hold *)

FileSize == {Absent} \cup 0..F

\* Every variable stays in its range; a chunk never exceeds frames_per_chunk.
TypeOK ==
    /\ part \in [Seqs -> FileSize] /\ meta \subseteq Seqs
    /\ tmp \in [Seqs -> FileSize] /\ rec \in [Seqs -> FileSize]
    /\ wav \in [Seqs -> FileSize] /\ quar \in [Seqs -> FileSize]
    /\ lines \subseteq [no : Nat, seq : Seqs, frames : 0..F, readable : BOOLEAN]
    /\ torn \in BOOLEAN /\ begun \in BOOLEAN
    /\ db \subseteq Seqs
    /\ seq \in Seqs /\ frames \in 0..F /\ nextSeq \in 0..MaxChunks
    /\ cur \in Seqs /\ known \subseteq Seqs /\ todo \subseteq Seqs

\* Every readable manifest line names a final chunk with exactly the frames it
\* records, and no sequence number is recorded twice, whatever crashed when.
RecordsMatchAudio ==
    /\ \A l \in Readable : wav[l.seq] = l.frames
    /\ \A l, m \in Readable : l.seq = m.seq => l = m

\* "a crash can leave the manifest ahead of the database but never behind it"
\* (manifest.py:203).
ManifestAheadOfDatabase == db \subseteq {l.seq : l \in Readable}

\* "Running recovery twice is a no-op the second time" (recovery.py:17): a pass
\* that ends leaves nothing for another one to do.
PassLeavesNothing ==
    r = "done" => /\ Partials = {} /\ Temporaries = {} /\ meta = {}
                  /\ (summary # <<>> \/ Readable = {})

\* Whatever crashed when, a recording that recovery has been through can be verified:
\* nothing is missing or left over, and the summary is the one of the chunks in the
\* manifest - if no disk error was survived and no manifest line torn.
CrashesLeaveItVerifiable ==
    r = "done" /\ faults = 0 /\ Readable # {} /\ "torn" \notin Problems => Problems = {}

\* What a crash leaves behind and recovery has been through agrees: the manifest with the
\* audio at each step, the directory and the summary with the manifest when a pass ends.
RecordsAgree == RecordsMatchAudio /\ PassLeavesNothing /\ CrashesLeaveItVerifiable

\* The message of verify_manifest says of a summary that does not match the chunk records
\* that they were "altered after the recording was finalised" (manifest.py:415).
NeverSaidToBeAltered == r = "done" => "altered" \notin Problems

\* A recording that verifies, and that nobody is at work on, lists every final chunk.
VerifiedIsWhole ==
    ~Alive /\ r \in {"off", "done"} /\ Verified =>
        \A s \in Seqs : FinalExists(s) => \E l \in Readable : l.seq = s

\* "the caller commits the database row and the manifest line; only then are the
\* partial and its metadata removed" (writer.py:14-15): once recovery is through,
\* a final chunk whose partial was removed, not quarantined, is in the manifest.
FinalChunksAreRecorded ==
    r = "done" =>
        \A s \in Seqs : FinalExists(s) /\ quar[s] = Absent =>
            \E l \in lines : l.seq = s

\* "a crash can only ever damage the final line [...] without losing anything
\* earlier" (manifest.py:12-13): a line whose append returned can be read.
AppendedLinesAreReadable == \A l \in lines : l.readable

\* A partial left behind by a recorder that is gone is dealt with.
PartialsAreSalvaged ==
    \A s \in Seqs : (~Alive /\ part[s] # Absent) ~> part[s] = Absent

\* Nothing that reached the disk is lost and no final chunk changes.
Held == [s \in Seqs |-> Max({0, part[s], wav[s], quar[s]})]
Archive == INSTANCE ChunkArchive WITH
    Seq0 <- Seqs, Frames <- 0..F, held <- Held, final <- wav
ImplementsArchive == Archive!Spec
=============================================================================
