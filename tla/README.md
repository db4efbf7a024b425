# A model of MoM-App: from the microphone to the minutes

MoM-App (`src/mom_igd`) records a meeting on one machine, keeps the audio as verified
chunks, transcribes it offline, drafts minutes from the transcript and files them as
documents; it also enrolls voices under a consent that can be withdrawn. This directory
holds TLA+ modules for these parts, the TLC runs that check them, and TLAPS proofs of the
properties that matter most of the capture, its files and its service, the heavy runs, the
transcripts and minutes, and the database with what is kept in it.

`tlc -config <cfg> <module>` runs a check and `tlapm <module>` checks the proofs.

## Inventory

| component | state it keeps | operations | what is hard |
|---|---|---|---|
| capture session, frame queue (`audio/session.py`, `frame_queue.py`) | session state, stream, bounded queue, pending loss, idle and stop flags, the writer thread | callback; start, pause, resume, stop, abandon; the writer loop | three threads; a full queue; drain and join timeouts; a writer that dies |
| chunk writer, manifest, recovery (`audio/writer.py`, `manifest.py`, `recovery.py`) | `.part`, `.meta.json`, `.wav.tmp`, `.wav` files, `manifest.jsonl`, `manifest.json`, the rows of `recording_chunks` | write, rotate, finalise, abandon; append; scan, recover, close; verify | a crash between any two file operations, also in recovery; torn lines; a final file that exists already; a stale summary |
| recording service (`audio/service.py`) | the lock file, rows of `recordings`, the active recording in memory, the meeting's job | preflight, start, pause, resume, stop, abandon; verify, recover | several processes on one data directory; kills; database updates that fail halfway |
| microphone use (`audio/devices.py`, `preflight.py`, `calibration.py`, `asr/live.py`, `api/app.py`, `shell/launcher.py`) | the device list, the selection, the level, the preview with its queue and model, the server's life | select, start, stop, calibrate, test, voice check; close, shut down, launch | request threads that share one microphone; stale indexes; a model that hangs; time limits at the end |
| job state machine (`jobs/state_machine.py`) | `jobs`, `job_stages` | transition, set a stage, next stage | routes that do not exist; joined transactions |
| enrollment (`enrollment/service.py`, `capture.py`, `quality.py`) | the session in memory and its row, the same lock file, the stream | start, capture sample, finalise, cancel, withdraw | consent withdrawn while samples are taken or the template is saved; a sample that ends after its session |
| voiceprint store, consent, keys (`enrollment/store.py`, `consent.py`, `keys.py`, `cipher.py`) | envelopes, rows of `voiceprints`, the consent history, the key file | save, verify, delete, retry cleanup, recover; grant, revoke; make a key | a crash between file and row; deletion that fails; supersession; a lost key |
| enrollment diagnostics (`diagnostics/enrollment_checks.py`) | none | checks | passing a state that is not sound |
| transcription (`asr/pipeline.py`, `store.py`) | working copies, VAD runs, transcripts | run, activate, fail, cancel | reuse of stale intermediates; one active transcript |
| its algorithms (`asr/normalize.py`, `vad.py`, `tasks.py`, `selection.py`, `merge.py`) | intervals and segments | normalise, detect, window, select, merge | holes and overlaps; boundaries; audio transcribed twice or not at all |
| workers and guards (`asr/worker.py`, `asr/service.py`, `mom/service.py`) | child process, cancel flag, result queue; slot and running flags | run in worker, cancel; transcribe, generate | cancel or timeout racing an answer; guards checked before they are taken |
| model store (`asr/provision.py`, `installed.py`, `manifest.py`) | directories, the index, manifests | provision, promote, probe, record, quarantine, check, resolve | kills between renames; decaying files; a worker that resolves meanwhile |
| minutes (`mom/pipeline.py`, `store.py`) | minutes, numbers, exports | generate, number, activate, fail, export | two runs; the turn of a month; one current minute |
| their algorithms (`mom/chunking.py`, `generator.py`, `verify.py`, `dedupe.py`, `document.py`, `docx.py`) | windows, items, blocks | split, extract, verify, merge, lay out | truncated answers; invented quotes; items folded or left out |
| audit, database (`audit.py`, `db/connection.py`, `db/migrator.py`) | events, rows, the schema version | record, verify; connect, migrate | two writers; a crash while migrating |
| participants and meetings (`enrollment/participants.py`) | rosters and capacity | add, remove, set capacity, deactivate | races on a limit; limits configured differently |
| API handlers, command line, configuration, policy, other diagnostics, benchmark, prompts, inference, signal statistics | settings, tokens | handlers | processes next to each other |

How they interact: the API and the command line call the services, each in its own
process over the same data directory. `RecordingService` owns one `CaptureSession` and
gives it a `ChunkWriter`, a `ManifestStore` and a callback that mirrors each chunk into
SQLite; it advances the meeting's job. Recovery reads the same directory later. Enrollment
takes the same lock file as a recording. Transcription reads finished recordings and minutes
read the active transcript; both ask for a live capture before they load a model, which
they do in a child process, from the model store. Every change of state goes through one
transaction of the database together with its audit event.

What makes each correct: the session accounts for every block and keeps its order; a
`.wav` never changes and every readable manifest line describes one; one capture at a
time, visible in its row, on the device that was chosen where that can be read; a verdict follows the audio; a
voiceprint exists only under a consent; what is current of transcripts and minutes is whole and
is not lost by a run that fails; a text is at the time it was said, once; an item cites what
was read, and the document hides nothing; a model is only loaded after it was seen to work;
the trail tells the rows.

## Modules

| module | models | role |
|---|---|---|
| `Recorder` | a session seen from outside: captured, buffered, committed, sealed | abstract specification |
| `CaptureSession` | `audio/session.py`, `audio/frame_queue.py`, and the writer as the tape it appends to | detailed; implements `Recorder` |
| `ChunkArchive` | frames of a chunk grow, then the chunk is final | abstract specification |
| `ChunkStore` | `audio/writer.py`, `manifest.py`, `recovery.py`, and `_on_chunk_finalised` | detailed; implements `ChunkArchive` |
| `JobGraph` | the workflow graph, the graph of stages, the states on a shortest route | operators of `RecordingService` and `Workflow` |
| `RecordingService` | `audio/service.py`, with the recording lock and the unique index on active rows | detailed |
| `Devices` | `audio/devices.py`, `preflight.py`: which microphone is meant | operators of `Microphone` |
| `Preview` | `asr/live.py`: one live preview | steps of `Microphone` |
| `Microphone` | the request threads, the level meter, the voice check, window, server and process | composes `Devices` and `Preview` |
| `VoiceprintStore` | `enrollment/store.py`: what each file operation or transaction does | operators of `Enrollment` |
| `KeyStore` | `enrollment/keys.py`, `cipher.py`: which key there is and what it opens | operators of `Enrollment` |
| `Enrollment` | `enrollment/service.py`, `capture.py`, `consent.py`, `set_active` of `participants.py` | composes the store and the keys |
| `EnrollmentDoctor` | `diagnostics/enrollment_checks.py`, readiness, eligibility | predicates over `Enrollment` |
| `ModelWorker` | `asr/worker.py`: one call of a model in a child process | steps of `HeavyRuns` |
| `HeavyRuns` | `asr/service.py`, `mom/service.py`: slot and flags over `ModelWorker` | composed |
| `Transcripts` | `asr/pipeline.py`, `asr/store.py`: rows and files between transactions | steps of `Minutes` |
| `Minutes` | `mom/pipeline.py`, `mom/store.py` over several transcripts | composed with `Transcripts` |
| `Speech` | `asr/normalize.py`, `vad.py`, `tasks.py`, windows of `faster_whisper_provider.py`, `selection.py`, `merge.py` | pure stages |
| `Drafting` | `mom/chunking.py`, `generator.py`, `verify.py`, `dedupe.py` | pure stages |
| `Document` | `mom/document.py`, `docx.py` | pure stage over `Drafting` |
| `Pipeline` | the active segments handed from `Speech` to `Drafting` | composes the three |
| `ModelStore` | `asr/provision.py`, `installed.py`, `manifest.py`, the resolver | detailed |
| `Database` | `db/connection.py`, `db/migrator.py`, `audit.py` | steps of `Workflow` |
| `Workflow` | `jobs/state_machine.py`, rosters of `enrollment/participants.py` | composed with `Database` |
| `MC...` | instances for TLC | |
| `CaptureSessionProofs`, `RecordingProofs`, `ChunkStoreProofs`, `WorkflowProofs`, `EnrollmentProofs`, `ModelStoreProofs` | theorems of the module they extend | |
| `ServerProofs` | theorems of `Microphone` and of `HeavyRuns`, the two halves of the server process | |
| `MinutesProofs` | theorems of `Minutes` and of `Pipeline` | |

### CaptureSession

Three processes share the session's variables, and a step is the code between two points
at which another thread can be seen: `cb` is the PortAudio callback (`Deliver`,
`PutAccepted` or `PutRefused` under the queue's condition, `Tally` for the
`_pending_dropped +=` that follows), `wpc` the writer thread (`get`, the clearing of
`_writer_idle`, the swap of `_pending_dropped`, the write, the `finally`), and `cpc` the
thread in `start`, `pause`, `resume`, `stop` or `abandon`. Only one such call runs at a
time: every caller in `RecordingService` holds `_state_lock`. `RecordingService` is the
only caller of the session, so calls that the session refuses are not enumerated.

A block is a number in delivery order; `tape` is what `ChunkWriter.write` appended,
`chunks` the files it closed, as ranges of the tape, with `final` FALSE for one left as
a partial. A block counts as one frame, so blocks do not straddle a chunk boundary. `gaps`
are the loss and pause records. `broken` holds blocks given up by a write that raised;
it is history, read by no guard. A failing call is enabled by `Fault`, at most
`MaxFaults` times: a write, a rotation, a manifest line, a finalisation, a stream that does
not open. `MayTimeOut` lets the ten-second drain and the join give up on a writer that is alive.

### ChunkStore

One variable per kind of file: `part`, `meta`, `tmp`, `wav`, `quar` map a sequence number to
`Absent` or to the number of whole frames in the file, `rec` is the temporary that recovery
builds, `lines` and `torn` are the manifest, `db` the mirrored rows, `summary` the
chunks that `manifest.json` was made from. The recorder (`w`) takes the steps of `_open_next`,
`write`, `finalise_current` and `_handle_finalised` one file operation at a time; recovery
(`r`) those of `recover_recording`. `RecorderCrash` and `PassCrash` end either at any point; a
crash in an append may tear the line. A call that raises is treated where the code catches
it, and ends the recorder or the pass where it does not. `Problems` is what `verify_manifest`
would report of a state.

### RecordingService

`lock` is the lock file as a set of at most one record: who created it, in which life, and
whether the pid is in it yet. `status` are the rows of `recordings`, `job` the meeting's
job; the rest is the memory of each process: the call it is in (`pc`), `active`, its
in-memory `lifecycle`, the state of its session and the lock's `held` flag. `acquire` is
four steps (read and judge, unlink, create, write the pid), because other processes run in
between. Each database transaction is one step and may fail (`Fault`). An update of a row can
also be skipped in silence, for `_set_lifecycle_db` returns when `_database_ready` says no, and the call
goes on; `_advance_job` asks again and may succeed (`Enter`, `AdvanceJob`). A start may fail before its
stream is open or after (`OpenFails`): in the second case stream and writer run on with no service that
knows of them, which is what `stray` records. `Captures` counts both kinds. `Kill` clears a
process's memory and leaves file and rows; `Restart` gives it another life.

### Devices, Preview and Microphone

The other half of the same service: what the threads of one process do to the microphone.
`at` is the step of the request a thread serves, `dev` and `own` its local variables (the
device it resolved, the preview it made), `active`, `live`, `level`, `selection` the
service's attributes. Start, stop and shutdown hold `_state_lock`; calibration, open test and
voice check do not, as in the code. `list` is the device list PortAudio reads once for a
process, `endpoints` the registry, read anew each time; `ready` is what `_database_ready` answers, and
while it is no the stored selection reads as none and is not stored. `active.stuck` is a recording of
which a stop has failed: it stays in the service in a state that no stop accepts. A `Preview` is a record: its queue,
its counters, and where its worker thread is (loading, waiting, in a window, closing, ended); nothing
makes the model return. The last pass of a voice check (`DecodeOnce`) has a model of its own, and nothing
makes that one return either. `CloseWindow`, `ShutDown`, `Exit` and `Launch` are the window, the
lifespan handler (it waits for the requests, looks once, calls stop once, and ends whatever that
did), the end of the process by its time limit, and the next start.

### VoiceprintStore, KeyStore and Enrollment

`voiceprints` are the rows (status, participant, consent event, and whether the path is set),
`tempFile`, `envelope` and `quarantine` the files, `key` the key file, and for each envelope the
key it was sealed under. An operator of `VoiceprintStore` is one file operation or one
committed transaction; `RolledBack` is a transaction that unlinked files and did not commit.

`Enrollment` says who takes these steps. The server has one call at a time in
`_state_lock` (`pc`), one session (`active`, with the rows in `sessions`) and one recording
of a sample (`capture`), which takes no lock until it hands the sample over. `caller` are the
withdrawals, deletions and verifications in flight, of threads of the server (`Api`) and of
commands in other processes (`Cli`); a withdrawal takes `_state_lock` only to cancel the
participant's own enrollment, then appends its event and deletes in two transactions.
`consent[p]` numbers the participant's events, odd for GRANTED. `owed` and `raced` are
history: who has withdrawn and not been deleted yet, and whose save overlapped a withdrawal.
An error that the code catches ends the session (`Fail`), one that it does not leaves the
session as it is (`Escape`). `_finish` swallows a release that fails: the session is over and the
lock file stays ("unreleased", operator `Released`). `EnrollmentDoctor` adds no step: the checks of `doctor`, `readiness`
and `eligibility` are predicates of a state, compared with what is true of it.

### ModelWorker and HeavyRuns

`call` is where `run_in_worker` is, `child` the process, `pipe` the queue of one message,
`asked`, `late` and `grace` what the polling loop reads. A thread of the request pool runs a
transcription (`_current`, `cancel_requested`) or a minutes run (`_running`, `_cancel`),
which makes one to `MaxCalls` model calls. The check for a live capture is made before any
lock and binds nobody, so it only decides whether a request is made.

### Transcripts and Minutes

`at[p]` is the transaction the run of process `p` has before it. `master` counts the versions of
the recorded chunks; `file` and `copyRow` are the version a working copy was made of, `vad` that
of the regions on record. A transcript or minute is a row with its status, its active flag
and what was saved of it; `number` is a filing number (month and sequence). `scripts` and
`minutes` are in the order of their ids, several transcripts of one recording may have minutes.

### Speech, Drafting, Document and Pipeline

Time is counted in ticks, and a sample of the working copy is the tick of the master it was taken
from: a copy is right when it is the identity, with silence in the recorded gaps. Each action
is one stage; the detector's intervals, what the decoder hears, the cost of a segment and the
answers of the model are chosen freely within the types of the code. A text is a set of
statements, a quote is the segment it was copied from. `LoadTranscript` is the only link: minutes
see the active segments that have a text.

### ModelStore, Database and Workflow

`installed`, `staging` and `aside` are the directories by revision, `files` and `manifest` what is in
them and what was recorded of it, `index` the registry of models that passed their probe. The
provisioning command is one process (`at`), killed anywhere; a worker resolves in between.

`stored` is the committed database (schema version, executed statements, rows, events), `view`
what a connection's transaction sees, `writer` who holds the write lock. `Workflow` takes
each change in the steps of the code: begin, read and check, write the row, read the last hash,
insert the event, commit.

## Runs

| run | configuration | result |
|---|---|---|
| `capture` | queue of 2, chunks of 2 frames, 4 blocks, 2 pauses, 1 fault, no timeouts | passes, 52 thousand states |
| `capture_slow` | 3 blocks, 1 pause, 1 fault, timeouts | passes, 28 thousand |
| `chunks` | 2 chunks of 2 frames, 2 crashes, 1 fault | passes, 33 thousand |
| `recording` | 2 processes, 2 recordings of one meeting, 1 kill, 2 faults | passes, 57 thousand |
| `crashed_recording` | 1 process, 1 kill | `CrashedRecordingIsGivenUp` is violated |
| `microphone_use` | 2 request threads and the lifespan, 2 device lists, 2 registries, 1 preview, 2 requests, 1 change (of the registry, of what the database answers, or a launch) | passes, 195 thousand |
| `enrollment` | 1 participant, 2 saves, 3 consent events, 1 server thread and 1 command, 1 fault, kill, lost key or damage | passes, 2.4 million |
| `heavy` | 2 threads, runs of 1 model call | passes, 331 thousand |
| `documents` | 2 processes, 2 transcripts, 2 minutes, 2 months, 1 change of the master, 1 kill or lost copy | passes, 1.5 million |
| `pipeline` | 8 layouts of up to 8 ticks, gaps of 1 joined, speech of 2 or more, 2 utterances, 3 segments of 1 or 2 tokens, windows of 3 tokens, 2 items of 4 kinds | passes, 2.3 million |
| `models` | 2 revisions, 3 downloads, 2 kills or damages | passes, 232 thousand |
| `workflow` | 2 processes, 2 migrations of 2 statements, 1 stage, 2 persons, 4 events, 1 kill or failure | passes, 841 thousand |

### What they show

`capture`: every delivered block is in one place (`EveryBlockAccountedFor`) and in order
(`ArrivalOrder`); STOPPED means complete, losses recorded and pending add up to the drops and
closing the queue refuses nothing (`NothingLostSilently`); calls return and queued audio is
written unless the session fails (`Progress`); the whole implements `Recorder`
(`ImplementsRecorder`). A queue of two reaches full, empty and the state between; with four
blocks it overflows while an older block is being written and goes on afterwards; two pauses
make a pause begin in every state that a resume leaves.

`capture_slow`: with the timeouts the controller writes next to a live writer. The order
is then lost, as the comment of `_drain_into_writer` warns ("Only safe once the writer
thread has exited"), and nothing else is: accounting, losses, chunk ranges and the seal
hold (`LateWriterIsHarmless`).

`chunks`: a readable line names a final chunk with the frames it records, a pass that ends
leaves nothing to do, and what crashes alone have left verifies after recovery
(`RecordsAgree`); the database is never ahead (`ManifestAheadOfDatabase`); partials are in the end
dealt with (`PartialsAreSalvaged`); no frame that reached the disk is lost nor a final chunk
changed (`ImplementsArchive`). Two chunks give a finalised one before the one that is cut;
two crashes let recovery be cut as well.

`recording`: one capture that a service can pause, stop and show (`SingleCapture`), seen in its row
(`RowShowsCapture`), no lock file
left behind by a living process (`NoLeakedLock`), a job that becomes RECORDING only with an open
session and RECORDED only after a verdict of that name (`JobNeverAheadOfAudio`, of the step that moves
it; with a skipped update the job may be RECORDING over a row that is still ARMED) and verdicts that
stay (`VerdictIsFinal`). Stray captures are there, and are excepted from the first two: with them there may be two at a time
(`OneRecordingPerRoot` below). Two processes and one
kill suffice for a stale lock that two may clear; two recordings for a second one on a job
that is finished; two faults for a failure within the handling of a failure.

`microphone_use`: while the choice can be read a stream is opened on the chosen device or on none, in
whatever order the next process finds the devices, and on the default one when it cannot
(`ChosenIfRead`; it may then be another microphone, see `ChosenOrNothing` below); the level
moves only while something is measured
and a preview's queue is what its counter says (`LiveIsBounded`); a recording that is still there when
the server's thread has ended is one whose stop has failed (`LeftAfterFailedStop`), before the window was closed
or as the handler tried; and no request waits for ever for a preview, the lock or another request
(`CallsReturn`). A voice check that has come to its last pass waits for its own model as long as that
takes, and nothing is claimed of it. Two
threads are what a race needs, and the lists differ in the place of the two real devices.

`enrollment`: rows and envelopes agree (`RowsAndEnvelopesAgree`: an envelope has a row, a usable
row its envelope, a row without a path none, a participant one usable template); eligible is
who has a template of the consent now in force (`EligibleUnderCurrentConsent`); what was deleted
stays so (`DeletedStaysDeleted`); when `doctor`'s storage checks pass, recovery would change nothing
(`AllClear`); the lock belongs to a session or call unless its release failed, and a meeting keeps its
own (`LockIsRespected`). Several carry an exception, and the exceptions are what the run is worth
reading for. `raced`: a save that a withdrawal overtakes may leave its envelope behind, and, if
the unlink failed, may make a row usable that was to be deleted. `owed`: a withdrawal cut
between its two transactions leaves the old template usable, and a new grant makes its
participant eligible by it. `lostFile`: old envelopes are unlinked inside a transaction that may
still roll back. Two saves are needed for supersession, three events for granted,
withdrawn and granted again.

`heavy`: a caller reports a lost worker only if no answer was left (`NoAnswerLost`), no child
outlives its call and two minutes runs never meet (`WorkersAreOwned`), every run ends
(`RunsEnd`). Runs of more calls repeat the same steps.

`documents`: what is current is whole (`CurrentIsWhole`), is not lost by a run that fails
(`NothingCurrentIsLost`) and keeps its number, which no other current minute has
(`NumbersAreFinal`). Two revisions of both kinds are an old one and the one that replaces it, two
months a number counted before and filed after the turn.

`pipeline`: sound is at the time it was recorded unless a warning says so and gaps are exactly
the silence (`TimeIsKept`); regions hold the speech and nothing else, and the merge leaves no
audio transcribed twice (`SpeechIsTakenOnce`; that all of it is transcribed is not claimed, see
`RetiredIsCovered` below); an item not marked as unverified quotes a segment
it cites and that was read, its text, quote, verdict and citations were each written by the model for an
item of its kind, and whatever was written has an item with its citations, a verdict no weaker, and all
it said unless two items of the kind have one quote (`ItemsAreFaithful`). That a quote supports the text
next to it is not claimed (`SummaryIsGrounded` below), and the exception is real: of two items
with one quote only the longer text stays, and a decision that was taken back may lose the words that
say so (`MergeLosesNothing` below). The document
tells each item with its marks (`ItemsAreTold`), and no segment is missing from the windows read
unless it is reported, nor from a document that claims to be of the whole transcript
(`MeetingIsAccountedFor`). The layouts have a hole, an overlap and a missing chunk at each
place, and with eight ticks there is room for a silence short enough to be bridged, a longer one, and a
sound too short to count; three segments make a window with an overlap, a truncated one and its halves.

`models`: a worker is given what passed a probe, and the load path holds only what was whole
when its manifest was made (`LoadedIsProven`); no command costs a model that was ready except a
forced one of the same revision (`ReadyIsKept`). Three downloads are a first, a forced one and a
new revision.

`workflow`: the schema is that of whole migrations, each once and in order (`SchemaIsWhole`); the
chain verifies and the events tell the rows (`TrailTellsTheState`); a roster fits its capacity and
holds nobody deactivated (`RosterFits`). Two processes with different ceilings are enough for a
capacity one of them could not set; four events fill a roster and change its capacity.

The violated run is quoted under `findings` in `PROJECT.json`.

`CHECK_DEADLOCK FALSE` is given where the system may stop: when the bounds are used up, or
a recovered recording has nothing left to do.

### Disagreements met without a run of their own

Each is a property stated in its module, violated by TLC under the configuration named (or under
the module's main one with the property put in its place), and left out of the list of runs.

Capture and files:
* `PausedGapIsAChunkBoundary`: a pause can find the queue empty while
  the writer holds a block it has not yet marked as work in progress, and seals the chunk
  before that block (`session.py:459`; lines 17-19 say "Pause is a real boundary").
* `AnsweredReleasesMicrophone`: after a writer failure, stop and abandon
  return early and leave the stream open (`session.py:374`, `427`).
* `FinalChunksAreRecorded`: the partial is removed before the manifest line
  is appended (`writer.py:500`), against `writer.py:14-15`. The audio itself is intact.
* `AppendedLinesAreReadable`: a line appended behind a torn one is glued to it
  (`manifest.py:220`, against lines 12-13).
* `NeverSaidToBeAltered`: recovery keeps an existing summary (`recovery.py:430`); with a disk error
  survived, verification then says "altered after the recording was finalised".
* `VerifiedIsWhole`: a recording can verify and have a final chunk that no record lists.

Service and microphone:
* Two processes can hold the recording lock together (`service.py:227`): one takes the other's
  freshly created, still empty file for a stale one and unlinks it. For two recordings the
  unique index then refuses one row, which is why `SingleCapture` holds; between
  a recording and an enrollment there is no such index.
* `OneRecordingPerRoot`: `session.start` appends to the manifest outside its `try` with the stream open and the
  writer running (`session.py:295`); when that raises, `service.py:822-830` frees the lock and the row and
  forgets the session. It goes on capturing, and another recording can start beside it
  (`docs/phase-2-audio-capture.md:281` says "One recording per data root, guarded twice").
* `ChosenOrNothing`: when the database does not answer, or the stored choice cannot be parsed, the choice reads
  as none and the default microphone is opened (`service.py:359-361`, `429-430`, `476-481`; the docstring at
  474 says "fall back to nothing (never to another microphone)").
* `PreviewsAreReleased`: when start fails after the preview was started it is not stopped
  (`service.py:1418` says "on every exit path"); `abandon` would not stop it either, and has no caller.
* A stop that fails leaves the recording in a state that stop refuses (`service.py:912`), and so does every
  later one: nothing but the end of the process ends it. If the update of the row failed, its session
  still captures (`service.py:914`).
* `GateHolds`: preflight's refusal of a radio link is about the device it resolved; start resolves
  again, and without a selection uses the default input, which may have changed. The instance of
  `MCMicrophone` does not show it, for there the headset is the default and preflight refuses it;
  with the conference microphone as the default and pulled out between the two, TLC finds it.
* `ClosedIsFinalised`: the server is given ten seconds to shut down; its thread is a daemon and
  dies with the process, and the recording with it (`api/app.py:117`).
* Calibration, open test and voice check take no lock; the end of a voice check clears the
  preview and the level, whoever's they are. Two identical microphones share a fingerprint.

Enrollment:
* `WithdrawnEnvelopeGoes` (`EnrollmentWithdrawal.cfg`): a withdrawal from another process deletes
  while a save is between its insert and its rename; the envelope appears afterwards and
  stays (`store.py:372`; lines 48-49 say "the envelope must actually go").
* `SamplesAreOfTheParticipant` (`EnrollmentSample.cfg`): a sample recorded for one participant is
  handed to the session of another that was started meanwhile (`capture.py:237`).
* `TemplatesStayReadable` (`KeyReplaced.cfg`): when the key file is lost, the next enrollment makes a
  new key; `doctor` passes and the older templates cannot be read (`keys.py:287-295` calls this
  "permanent, invisible data loss").
* `ReadyMeansAdmitted`: an enrollment killed with its row in a live state blocks every later start,
  through `ux_enrollment_single_active`; nothing closes such a row and readiness does not look.
* Withdrawal through the API cancels the session and releases the lock without `abort()`, and
  a cancel can come between the claim of a sample and the opening of its stream: the
  microphone is then open with no lock held.
* `recover_incomplete_operations` has no caller in the program, only in tests, though `doctor` says
  that recovery will resolve what it found. A REVOKED row with an envelope is not seen by it.
* If `_fail` cannot write the row, it raises before the lock is released; the lock stays with a
  session that memory calls finished, until the server restarts. A release that fails leaves it, too
  (`enrollment/service.py:1215`).

Transcripts, minutes and models:
* `OneTranscription`: a run sets its handle finished outside the lock and then
  empties the slot whoever holds it (`asr/service.py:437-441`), so another request may be let in next
  to the one in progress ("exactly one heavy model may be resident at a time").
* `RegionsFitTheAudio`: a rebuilt working copy keeps its id and with it the speech regions of other
  audio (`asr/pipeline.py:322`).
* `NumberIsFree`: a filing number is counted over current minutes, and two
  minutes that are not yet current may be given the same; the unique index of migration 0007
  then bars the second from becoming current (`mom/store.py:330`).
* `ExportKeepsItsRow`: two minutes of one revision number share an export path, and the row of one
  is replaced by that of the other (`mom/store.py:469-526`; "what makes ... answerable after the file has been forwarded").
* Minutes of an earlier transcript cannot be reached by `get_minute` or exported after the
  recording was transcribed again.
* `RetiredIsCovered`: a pass-1 segment is retired by regions, not by what pass 2 made of them
  (`merge.py:76`).
* `MergeLosesNothing`: items are merged for the same quote too, and then the shorter text goes although the
  longer one need not hold it (`dedupe.py:134`, `195-200`; line 12 says "A merge never loses information").
* `SummaryIsGrounded`: merging takes the longer text with the stronger verdict, which the
  quote need not support (`dedupe.py:134`, `generator.py:384`).
* `TextIsWhole`: a cell of a plain text table is cut at its width (`document.py:569`).
* `FailureKeepsAModel`: a forced provision whose probe fails has replaced the model that worked
  (`provision.py:364`).
* `next_pending_stage` passes over a RUNNING stage, though it is called "the resume point after an
  interrupted run". Of two concurrent `db init` the loser is told of a migration error.

## Fairness

The writer, the controller and a callback that has begun are weakly fair: they are
threads in loops that wait with timeouts. Delivery and calls are not fair; nobody has to
speak or to press a button. In `ChunkStore` the pass is weakly fair: the start-up scan
reports an interrupted recording until it has been recovered. In `RecordingService` a call that
has begun goes on and a killed process is restarted. In `HeavyRuns` threads are scheduled and
clocks move on (the polling loop wakes four times a second), and nothing makes a child answer. In
`Microphone` a request that has begun goes on, takes the lock when it is free for good, and
ends its measurement; a preview's worker is not fair at all, nor is the last pass of a voice check. Failures, kills, crashes and timeouts
of the capture are never fair. The other modules assume no fairness: their properties are all
of safety.

## Proofs

All theorems hold for every value of the constants that the named assumptions admit.

* `Typed`, `ServiceTyped`: `TypeOK` is inductive by itself, one lemma per group of actions.
* `InOrderOfArrival`: the tape, the block in the writer's hand, the controller's, the queue and
  the callback's block form one sequence. `OrderInv` adds what the code relies on without
  saying it: the controller drains only after the writer thread is gone (`WriterGone`), so the two
  pieces in hand are never there together. Each action moves a block from the head of one piece
  to the end of the one before it, and the lemmas on concatenation show that ascending order
  survives. With timeouts `WriterGone` is false and so is `ArrivalOrder`, hence the hypothesis
  `~MayTimeOut`.
* `NothingUnaccountedFor`, `LossesAddUp`, `ChunksTile`, `LateWritersAreHarmless` need no such
  hypothesis: they hold when the ten-second drain and the join have both given up and two threads
  write. Every move between the pieces keeps the set of blocks (`BlocksInv`). A block that was dropped is
  in the sum over the gap records (`BlocksIn`, a recursive function), in the pending count, or
  waits for the callback's tally; what such a sum is after one more gap is shown with the least
  number at which two of them would differ (`Sums`). `Tiled` is about frames and chunks.
* `NoSilentLoss`, `ThreadsAreOneRecorder` (with `~MayTimeOut`): `SafeInv` joins `OrderInv` with what each
  thread knows of the others at each of its steps. `StreamInv`: when the microphone is off, so that no
  callback begins; `ThreadInv`: when there is a writer thread, and that one which ended while it was
  wanted has left an error; `QueueInv`: when the queue is empty; `RestInv`: what a session that has not
  begun or has stopped leaves behind; `FaultInv`: a block given up has left an error, or
  the thread that gave it up is about to. A session is then reported `STOPPED` only with every block
  it took on the tape. The refinement goes action by action: each step of the callback, the writer
  or the controller is one step of `Recorder` or leaves its variables alone.
* `LiveStaysBounded`, `ShutDownTriesOnce`, `OnlyTheChosenDevice`: `PreviewInv` says that the blocks in
  each preview's queue are as many as its counter has, and within the budget (`Counted`; `CountAppend`
  and `CountTail` are the lemmas on counting the blocks of a queue). `ThreadsInv` says that the level is shown
  only while a request measures; `ShutInv` that once the lifespan handler has begun its stop no request is under
  way, so that what it finds when it takes the lock is what it looked at: that recording is gone or stuck
  when it returns. `StepGoesOn` is what a step of one thread may do to all that. `ResolvedIsChosen` shows of `Devices`
  that whatever the list, what is resolved is the device that was chosen, or none, while the choice is read,
  and the default otherwise.
* `OneCaptureAtATime`, `CapturesAreVisible`: `SingleCapture` is not inductive, since the lock
  file does not exclude. `IInv` says instead that at most one row is active
  (the unique index), that a row has at most one owner in memory, and for every process which
  row its call and its capture hold (`Owns`). Two captures held by services would own two active rows. A skipped
  update changes no row, so it leaves an active one active; a stray capture owns none, and the theorems say
  nothing of it.
* `VerdictsAreFinal` follows from the same `IInv`: a row that is written is owned by its writer
  and still active. `JobFollowsAudio` rests on `JobInv`: for each process, what
  its session and the row it holds are at the step that will move the job (`AudioFits`); `JobMoves` shows that no
  other step moves it. It rests on
  `RouteAssumption`, a closed fact about the fixed workflow graph: no shortest route to RECORDING
  passes through RECORDED. TLC evaluates it; it is no assumption about a constant.
* `LocksAreReleased`: `LockInv` adds that no file is of a life its process has not had yet, and that
  the process about to write its pid has just made the file that is there: nobody else can
  have unlinked a file that was open.
* `ManifestLeads`, `RecordsStayTrue`, `DirectoryIsArchive`: the `IInv` of `ChunkStore` has a part for
  each keeper of state: which files of a chunk may be there together (`FilesInv`), that a
  line is of the final chunk it names and a row has its line (`LinesInv`), what the recorder
  has done at each step (`WriterInv`), what a pass has still to do (`PassInv`), and what
  is true as long as there was no disk error (`CleanInv`: every chunk before the last is
  recorded, and a summary is complete). Without that last part a recording that was never
  damaged could hide an unrecorded chunk, and would not verify. The refinement follows action by
  action: each changes one chunk's best copy by growing it, makes it final, or leaves the archive
  as it is.
* `HeavyTyped`, `AnswersAreNotLost`, `ModelsHaveARun`: `CallFits` says that what a caller gives up as
  lost was not sent and can no longer be, because its child is dead and the queue
  empty; `FlagInv` that the flag is up for as long as a run may still put it down.
* `CurrentStaysWhole`, `CurrentIsKept`, `NumbersStay`: `IInv` of `Minutes` says for each process what
  the revision it works on looks like at its step, that no two work on the same one, and
  (`Counted`) that no number exceeds how many transcripts have one: the next number is a
  count, so this is what makes it new. Where the code picks the first or the last of
  something, its existence comes from the well-foundedness of the naturals (`WFMin`).
* `MinutesAreFaithful`: `ItemsInv` says that what has been written and what is in the
  minute is `Evident` in the windows read, that an item of the minute is `MadeOf` those that were written, and that
  once the minute is reduced, every item that was
  written has one in it that `StandsFor` it and `Says` what it said. A merged item stands for both of those it is
  made from, standing-for is
  transitive, and so folding one more item into a list loses none (`FoldedIn`). If the two were merged because one
  text holds the other, the longer one says both. If not, they were merged for their quote, and as the list is made of
  earlier items, an earlier one had that quote: two were written with it (`Quoted`), which is the exception. For a whole answer the recursion
  of `FoldLeft` over sets of indexes is unfolded (`Iterates`), and the function that satisfies it is
  shown to exist by the least length at which there could be none. Sorting keeps every item because a
  permutation in order exists: an item's rank is how many come before it, ranks differ, and as many
  ranks as places fill them all (`OrderExists`).
* `TranscriptIsAccountedFor`: `GapsInv` says that each segment has been read, is reported, or is in a
  window still to come (`InReach`). `CutTo` is what the loop over the segments keeps of the windows cut so
  far: they begin one after the other, and none of the segments is out of them. Without the order of their
  beginnings the last window, which a short tail is folded into, might not reach back far enough
  (`TailCovers`). Halving a window leaves nothing between its halves (`HalvesHold`). A
  document claims the whole only if as many segments were read as there are, and as they are among
  those there are, they are all of them; this needs that the transcript is finite (`FiniteInv`).
* `CopyKeepsTime`: `TimeInv` says that before each chunk every sound of the copy is ahead of its time by the same
  amount, that by which the copy is shorter than the frame expected next (`InStep`), and that the recording ends where its last chunk does
  (`EndAhead`). So if at the end their lengths agree there was no shift, and if they do not, that is a
  warning: nothing else tells of a first chunk that does not start at zero.
* `SchemaStaysWhole`: `Ran(v, k)` is what has run when `k` statements of the migration after version `v`
  have; a migrator that has read the version before another's commit either has nothing
  pending and fails, or is at `Ran(v, k)` for its own `v`. `RanOneMore` and `RanOf` are the arithmetic
  of counting statements through the migrations (`Quotient`).
* `RostersFit`, `TrailIsTrue`: between the update of a row and its event the trail tells an earlier
  state, so the invariant speaks of the transaction's view: at rest it is `Good`, and between the two
  it is `Unrecorded`, one legal change away from rows that the trail tells (`Applied`).
  `AppliedIsGood` and `TrailGrows` are the two facts that close it. That the lock is held by one
  process (`LockInv`) lets a commit replace what is stored. That a stage has no event before its
  job has one is part of it: a stage starts at PENDING only from then on.

* `RowsAgree`, `ConsentInForce`, `DeletedStays`, `LockHeldForSomeone`, `DoctorIsRight`: the `IInv` of
  `Enrollment` has a part for each actor. `SessionInv` says what the session in memory, its row and
  the lock are at each step of the call that holds `_state_lock`; `SaveInv` that before the insert
  there is no row, and that after it the row is as the save left it and the consent as it was,
  or a withdrawal is known to have overtaken it (`raced`); `CallerInv` that a template once read as
  usable never again lacks its row. `RowInv` sharpens the consent property: a usable template
  is of a grant that is in force now, or its deletion is owed. What the others may do to a row
  behind a save is one relation, `Aged`, that each of them is shown to respect; the save's own
  steps respect `Written`, and only the activation goes beyond it. `DoctorIsRight` follows from
  `RowInv` and what the three storage checks look at.

* `LoadedModelsAreProven`, `ReadyModelsAreKept`, `RecordsAreUnique`: the `IInv` of `ModelStore` says what the
  download in hand is at each step of the command. `StagedInv`: it has not been described before
  its sizes were compared, and has been described whole once it was (`Undescribed` says why: a file
  cannot have rotted before its manifest). `PlacedInv`: what is in the way of a promotion is there
  only if the command was forced, and what has been promoted is in no record until it is probed.
  From the latter follows that a quarantine and the removal of a record cost nothing
  that was ready. `RecordsAreUnique` is why `Without`, which takes the first record of a revision
  from the registry, is the filter of the code; `WithoutIs` states it.

Model-checked only: liveness (`Progress`, `PartialsAreSalvaged`, `RunsEnd`, `CallsReturn`), since
fairness and `ENABLED` are out of the prover's reach; and `SpeechIsTakenOnce` and
`ItemsAreTold`, which rest on what `Speech` and `Document` fold, flatten and sort in one step. The lemmas
on the folds (`Stepwise`) are a beginning for them; flattening is a recursion over data of its own, and
a sorted sequence of regions one more order to show there. The type invariants of the modules
without proofs are for the reader, and hold in their instances.

## Assumptions

* CPython 3.12 changes threads at calls and loop edges; a swap such as
  `dropped, self._pending_dropped = self._pending_dropped, 0` is one step.
* Recovery runs when no recorder is alive. Nothing in the code enforces it (see the hazard at
  `service.py:1156`).
* A manifest append that raises wrote nothing or the whole line. Only a crash tears a line.
* A crash is a kill: what was written stays. The reordering of unsynced writes at a power loss
  is not modelled, nor is a partial frame at the end of a partial.
* An unlink of the lock file while another process has it open fails, as on Windows, the
  platform the program ships for.
* `RecordingService`: preflight is one step; pids are not reused.
* `Microphone`: what pause and resume do is in `CaptureSession`, what a failing step of start or stop leaves
  in rows, lock file and stream in `RecordingService`. The preferred device and sample rate are not set. The
  database is looked at once for a call of `resolve_device`; a stored choice that cannot be parsed is treated as one
  that cannot be read.
* `Transcripts`: the progress callback does not raise. One that did between the activation of a transcript and the
  end of the run, as printing to a console that is gone does, would have the run's handler take back the transcript
  that has just become current (`asr/pipeline.py:520-527`, `787-791`).
* `Document`: evidence is included, as every caller asks; the other branch of `build_document` is not modelled.
* One server runs the enrollments of a data root. The `enrollment-cancel` command acts on its own
  process, where there is no session. `Enrollment` takes the lock file in one step and knows of a
  meeting recording only that it takes and releases the lock.
* ACTIVE stands for DEVELOPMENT_ONLY, and FAILED for REJECTED and CANCELLED. The unique index on
  live voiceprints is left out, to show that it is never needed.
* The embedding provider is there. In the version at hand the registry resolves none, so an
  enrollment runs only with the provider that the tests inject.
* Voiceprint recovery runs while nobody is at work on the store. When it is killed, it has done with
  some rows and files and not begun with others.
* A fault in the store and one in the cleanup of the session that follows are two, and the
  run allows one.
* `ModelWorker`: a message is in the queue whole or not at all; terminate ends a child; the child's
  own poll of the cancel flag is one of its free choices.
* `Transcripts`, `Minutes`: a transaction is one step, as `BEGIN IMMEDIATE` makes it (`Database`
  models that). A run that fails records it unless it is killed.
* `Speech`: a tick is a sample, a frame and a millisecond at once; rounding between the three
  clocks is left out. There is a chunk to begin with: `normalize_recording` refuses a recording that
  has none (`normalize.py:320`). `Drafting`: a segment lasts one unit of time, and what an item says is a finite set.
* `Microphone`: a list of devices is a sequence; `MicrophoneAssumption` says so for the provers.
* `ModelStore`: one provisioning command at a time; the resolver is atomic next to the command's
  renames. Files decay only after their manifest was made.
* `Database`: SQLite's transactions are as documented; a hash is injective.

## Not modelled, and the plan

Modelled in part: of `audio/service.py` and of the API's handlers what reads and reports; of the
job machine checkpoints and counts of attempts; of participants their names, and the import of a
list of them; of the device code measured levels.

Next, in order:

1. Recovery next to a live recorder, composed from `CaptureSession`'s and `ChunkStore`'s steps,
   and a recording next to an enrollment over `RecordingService`'s lock file.
2. Abstract specifications of a voiceprint's life (made, usable, to be deleted, gone), which
   `Enrollment` implements outside the overlaps, and of a filing cabinet (one current minute for each
   transcript, numbers that stay), which `Minutes` implements.
3. Theorems: `SpeechIsTakenOnce` and `ItemsAreTold`, with the regions, windows
   and sections written as steps of a loop, one invariant each.

Left out for good: inference, prompt text, glossary, benchmarks, signal statistics and quality
thresholds, document layout, HTTP status codes, the parsing and printing of the command line,
settings and policy read at start, and reports on the environment. They are I/O, numerics or
presentation and hold no protocol state; where they act on what is modelled (a stream that
fails, an answer that is cut off, a second process) they appear as nondeterministic steps.
