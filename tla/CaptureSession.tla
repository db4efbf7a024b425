--------------------------- MODULE CaptureSession ---------------------------
(***************************************************************************)
(* One capture of mom_igd.audio: the PortAudio callback, the bounded frame *)
(* queue, the single writer thread, and the thread that calls start,       *)
(* pause, resume, stop and abandon (src/mom_igd/audio/session.py and       *)
(* src/mom_igd/audio/frame_queue.py).                                      *)
(*                                                                         *)
(* A block of PCM is one unit of audio, named by its delivery number, so   *)
(* "frames" are counted in blocks.  CPython 3.12 switches threads only at  *)
(* calls and backward jumps, hence a statement without a call is one step  *)
(* and every call that another thread can observe ends a step.             *)
(***************************************************************************)
EXTENDS Integers, Sequences, FiniteSets, SequencesExt

CONSTANTS
    QueueCap,       \* BoundedFrameQueue._capacity_frames, in blocks
    ChunkFrames,    \* CaptureProfile.frames_per_chunk, in blocks
    MaxBlocks,      \* bound: blocks the device delivers
    MaxPauses,      \* bound: pauses of one session
    MaxFaults,      \* bound: disk and device errors
    MayTimeOut      \* may the 10 s drain wait and the 15 s join expire?

ASSUME ConstantsAssumption ==
    /\ QueueCap \in Nat \ {0} /\ ChunkFrames \in Nat \ {0}
    /\ MaxBlocks \in Nat /\ MaxPauses \in Nat /\ MaxFaults \in Nat
    /\ MayTimeOut \in BOOLEAN

VARIABLES
    state,          \* CaptureSession._state
    stream,         \* is _stream open, i.e. the microphone engaged?
    answered,       \* has a stop() or abandon() returned its SessionResult?
    error,          \* is _error set?
    queue,          \* BoundedFrameQueue._buffer
    closed,         \* BoundedFrameQueue._closed
    pending,        \* CaptureSession._pending_dropped
    delivered,      \* StreamStats.frames_delivered
    dropped,        \* blocks counted by BoundedFrameQueue._dropped_frames
    cb,             \* callback thread: [pc, block]
    wpc, witem,     \* writer thread: its next step, the block it popped (0: none)
    idle,           \* _writer_idle
    stopEvent,      \* _stop_event
    thread,         \* is _thread set?
    op, cpc,        \* controlling thread: the call it is in, its next step
    citems,         \* blocks it drained from the queue and has yet to write
    tape,           \* blocks in the order the ChunkWriter appended them
    chunkStart,     \* start frame of the open chunk
    chunks,         \* closed chunks: [start, end, final]
    gaps,           \* _gaps: [reason, at, lost]
    broken,         \* blocks whose write raised, or that were discarded after it
    faults, pauses  \* bound counters

queueVars  == <<queue, closed, pending, dropped>>
writerVars == <<wpc, witem, idle>>
callVars   == <<op, cpc, citems, thread, stopEvent, answered>>
discVars   == <<tape, chunkStart, chunks, gaps, broken>>
vars == <<state, stream, error, delivered, cb, queueVars, writerVars, callVars,
          discVars, faults, pauses>>

States == {"IDLE", "RUNNING", "PAUSED", "STOPPING", "STOPPED", "FAILED"}
Finished == {"STOPPED", "FAILED"}

Init ==
    /\ state = "IDLE" /\ stream = FALSE /\ error = FALSE /\ answered = FALSE
    /\ queue = <<>> /\ closed = FALSE /\ pending = 0 /\ dropped = {}
    /\ delivered = 0 /\ cb = [pc |-> "idle", block |-> 0]
    /\ wpc = "none" /\ witem = 0 /\ idle = TRUE
    /\ thread = FALSE /\ stopEvent = FALSE
    /\ op = "none" /\ cpc = "ready" /\ citems = <<>>
    /\ tape = <<>> /\ chunkStart = 0 /\ chunks = {} /\ gaps = <<>> /\ broken = {}
    /\ faults = 0 /\ pauses = 0

-----------------------------------------------------------------------------
(* What the threads share *)

\* MUTANT: the writer counts as alive only while it waits for audio.
WriterAliveWhenWaiting == thread /\ wpc = "get"

WriterAlive == thread /\ wpc \notin {"none", "exited"}

\* _fail: the error is kept; a session that is already stopping stays so.
Failed(s) == IF s \in {"STOPPED", "STOPPING"} THEN s ELSE "FAILED"

Chunk(s, e, f) == [start |-> s, end |-> e, final |-> f]

\* put_nowait refuses a block that would exceed the capacity.
QueueFull == Len(queue) >= QueueCap

\* BoundedFrameQueue.drain into the controlling thread.
\* MUTANT: the queue is copied and not cleared.
CopyQueue == citems' = queue /\ UNCHANGED queue

TakeQueue == citems' = queue /\ queue' = <<>>

\* MUTANT: the loss is recorded and kept for the next block as well.
TakePendingTwice ==
    /\ UNCHANGED pending
    /\ gaps' = IF pending = 0 THEN gaps
               ELSE Append(gaps, [reason |-> "queue_overflow",
                                  at |-> Len(tape), lost |-> pending])

\* The swap of _pending_dropped and the gap recorded for what it held.
TakePending ==
    /\ pending' = 0
    /\ gaps' = IF pending = 0 THEN gaps
               ELSE Append(gaps, [reason |-> "queue_overflow",
                                  at |-> Len(tape), lost |-> pending])

\* ChunkWriter.write of one block, rotating when the chunk is full.
WriteBlock(b) ==
    /\ tape' = Append(tape, b)
    /\ IF Len(tape) + 1 - chunkStart = ChunkFrames
         THEN /\ chunks' = chunks \cup {Chunk(chunkStart, Len(tape) + 1, TRUE)}
              /\ chunkStart' = Len(tape) + 1
         ELSE UNCHANGED <<chunks, chunkStart>>

\* A write that raises: the append itself failed and the block is gone, or the
\* rotation it triggered failed and left that chunk as a partial.  The blocks
\* of rest were taken from the queue with b and are given up.
WriteFails(b, rest) ==
    \/ /\ broken' = broken \cup {b} \cup rest
       /\ UNCHANGED <<tape, chunkStart, chunks>>
    \/ /\ Len(tape) + 1 - chunkStart = ChunkFrames
       /\ tape' = Append(tape, b)
       /\ chunks' = chunks \cup {Chunk(chunkStart, Len(tape) + 1, FALSE)}
       /\ chunkStart' = Len(tape) + 1
       /\ broken' = broken \cup rest

\* MUTANT: the next chunk starts where this one did.
EndChunkInPlace(final) ==
    /\ chunks' = IF Len(tape) = chunkStart THEN chunks
                 ELSE chunks \cup {Chunk(chunkStart, Len(tape), final)}
    /\ UNCHANGED <<tape, chunkStart>>

\* finalise_current / close / abandon of the open chunk; an empty one leaves nothing.
EndChunk(final) ==
    /\ chunks' = IF Len(tape) = chunkStart THEN chunks
                 ELSE chunks \cup {Chunk(chunkStart, Len(tape), final)}
    /\ chunkStart' = Len(tape)
    /\ UNCHANGED tape

Fault == faults < MaxFaults /\ faults' = faults + 1

-----------------------------------------------------------------------------
(* The audio callback *)

\* _on_audio, first statement: the driver delivers a block and it is counted.
Deliver ==
    /\ stream /\ cb.pc = "idle" /\ delivered < MaxBlocks
    /\ delivered' = delivered + 1
    /\ cb' = [pc |-> "put", block |-> delivered + 1]
    /\ UNCHANGED <<state, stream, error, queueVars, writerVars, callVars,
                   discVars, faults, pauses>>

PutAccepted ==
    /\ cb.pc = "put" /\ ~closed /\ ~QueueFull
    /\ queue' = Append(queue, cb.block)
    /\ cb' = [pc |-> "idle", block |-> 0]
    /\ UNCHANGED <<state, stream, error, delivered, closed, pending, dropped,
                   writerVars, callVars, discVars, faults, pauses>>

PutRefused ==
    /\ cb.pc = "put" /\ (closed \/ QueueFull)
    /\ dropped' = dropped \cup {cb.block}
    /\ cb' = [pc |-> "tally", block |-> 0]
    /\ UNCHANGED <<state, stream, error, delivered, queue, closed, pending,
                   writerVars, callVars, discVars, faults, pauses>>

\* _on_audio, last statement: the loss is left for the next block written.
Tally ==
    /\ cb.pc = "tally"
    /\ pending' = pending + 1
    /\ cb' = [pc |-> "idle", block |-> 0]
    /\ UNCHANGED <<state, stream, error, delivered, queue, closed, dropped,
                   writerVars, callVars, discVars, faults, pauses>>

Callback == Deliver \/ PutAccepted \/ PutRefused \/ Tally

-----------------------------------------------------------------------------
(* The writer thread *)

WriterPops ==
    /\ wpc = "get" /\ queue # <<>>
    /\ witem' = Head(queue) /\ queue' = Tail(queue)
    /\ wpc' = "popped"
    /\ UNCHANGED <<state, stream, error, delivered, cb, closed, pending, dropped,
                   idle, callVars, discVars, faults, pauses>>

WriterFindsNothing ==
    /\ wpc = "get" /\ queue = <<>>
    /\ wpc' = "empty"
    /\ UNCHANGED <<state, stream, error, delivered, cb, queueVars, witem, idle,
                   callVars, discVars, faults, pauses>>

\* MUTANT: the writer never looks at _stop_event.
WriterNeverExits ==
    /\ wpc = "empty"
    /\ idle' = TRUE /\ wpc' = "get"
    /\ UNCHANGED <<state, stream, error, delivered, cb, queueVars, witem,
                   callVars, discVars, faults, pauses>>

WriterRests ==
    /\ wpc = "empty"
    /\ idle' = TRUE
    /\ wpc' = IF stopEvent THEN "exited" ELSE "get"
    /\ UNCHANGED <<state, stream, error, delivered, cb, queueVars, witem,
                   callVars, discVars, faults, pauses>>

\* Only here is the writer marked busy, after the block has left the queue.
WriterBusy ==
    /\ wpc = "popped"
    /\ idle' = FALSE /\ wpc' = "taken"
    /\ UNCHANGED <<state, stream, error, delivered, cb, queueVars, witem,
                   callVars, discVars, faults, pauses>>

WriterTakesLoss ==
    /\ wpc = "taken" /\ TakePending
    /\ wpc' = "write"
    /\ UNCHANGED <<state, stream, error, delivered, cb, queue, closed, dropped,
                   witem, idle, callVars, tape, chunkStart, chunks, broken,
                   faults, pauses>>

WriterWrites ==
    /\ wpc = "write" /\ WriteBlock(witem)
    /\ witem' = 0 /\ wpc' = "written"
    /\ UNCHANGED <<state, stream, error, delivered, cb, queueVars, idle,
                   callVars, gaps, broken, faults, pauses>>

\* The finally of _writer_loop: idle again only if nothing else is queued.
WriterSettles ==
    /\ wpc = "written"
    /\ idle' = (idle \/ queue = <<>>)
    /\ wpc' = "get"
    /\ UNCHANGED <<state, stream, error, delivered, cb, queueVars, witem,
                   callVars, discVars, faults, pauses>>

\* Disk full, device removed, manifest not appendable: the exception passes
\* through the same finally and then kills the thread.
WriterRaises ==
    /\ wpc = "write" /\ Fault /\ WriteFails(witem, {})
    /\ witem' = 0 /\ wpc' = "failing"
    /\ idle' = (idle \/ queue = <<>>)
    /\ UNCHANGED <<state, stream, error, delivered, cb, queueVars, callVars,
                   gaps, pauses>>

WriterDies ==
    /\ wpc = "failing"
    /\ error' = TRUE /\ state' = Failed(state) /\ wpc' = "exited"
    /\ UNCHANGED <<stream, delivered, cb, queueVars, witem, idle, callVars,
                   discVars, faults, pauses>>

Writer == \/ WriterPops \/ WriterFindsNothing \/ WriterRests \/ WriterBusy
          \/ WriterTakesLoss \/ WriterWrites \/ WriterSettles
          \/ WriterRaises \/ WriterDies

-----------------------------------------------------------------------------
(* The controlling thread; RecordingService serialises the calls *)

Start ==
    /\ op = "none" /\ state = "IDLE"
    /\ state' = "RUNNING" /\ op' = "start" /\ cpc' = "open"
    /\ wpc' = "get" /\ thread' = TRUE /\ stopEvent' = FALSE
    /\ UNCHANGED <<stream, error, delivered, cb, queueVars, witem, idle, citems,
                   answered, discVars, faults, pauses>>

Pause ==
    /\ op = "none" /\ state = "RUNNING" /\ pauses < MaxPauses
    /\ state' = "PAUSED" /\ op' = "pause" /\ cpc' = "stopStream"
    /\ pauses' = pauses + 1
    /\ UNCHANGED <<stream, error, delivered, cb, queueVars, writerVars, citems,
                   thread, stopEvent, answered, discVars, faults>>

Resume ==
    /\ op = "none" /\ state = "PAUSED"
    /\ state' = "RUNNING" /\ op' = "resume" /\ cpc' = "open"
    /\ gaps' = Append(gaps, [reason |-> "paused", at |-> Len(tape), lost |-> 0])
    /\ UNCHANGED <<stream, error, delivered, cb, queueVars, writerVars, citems,
                   thread, stopEvent, answered, tape, chunkStart, chunks, broken,
                   faults, pauses>>

\* stop of a live session, or of one that an earlier stop left STOPPING.
Stop ==
    /\ op = "none" /\ state \in {"RUNNING", "PAUSED", "STOPPING"}
    /\ state' = "STOPPING" /\ op' = "stop" /\ cpc' = "stopStream"
    /\ UNCHANGED <<stream, error, delivered, cb, queueVars, writerVars, citems,
                   thread, stopEvent, answered, discVars, faults, pauses>>

Abandon ==
    /\ op = "none" /\ state \in {"IDLE", "RUNNING", "PAUSED", "STOPPING"}
    /\ state' = "STOPPING" /\ op' = "abandon" /\ cpc' = "stopStream"
    /\ UNCHANGED <<stream, error, delivered, cb, queueVars, writerVars, citems,
                   thread, stopEvent, answered, discVars, faults, pauses>>

\* stop before any start, and stop or abandon of a finished session: both
\* return the result at once.
ReturnAtOnce ==
    /\ op = "none" /\ state \in {"IDLE"} \cup Finished
    /\ state' = IF state = "IDLE" THEN "STOPPED" ELSE state
    /\ answered' = TRUE
    /\ UNCHANGED <<stream, error, delivered, cb, queueVars, writerVars, op, cpc,
                   citems, thread, stopEvent, discVars, faults, pauses>>

Call == Start \/ Pause \/ Resume \/ Stop \/ Abandon \/ ReturnAtOnce

Return == op' = "none" /\ cpc' = "ready"

StreamOpens ==
    /\ cpc = "open"
    /\ stream' = TRUE /\ Return
    /\ UNCHANGED <<state, error, delivered, cb, queueVars, writerVars, citems,
                   thread, stopEvent, answered, discVars, faults, pauses>>

\* The device refuses: start shuts its writer thread down, resume just raises.
StreamRefused ==
    /\ cpc = "open" /\ Fault
    /\ error' = TRUE /\ state' = Failed(state)
    /\ IF op = "start" THEN cpc' = "shutdown" /\ UNCHANGED op ELSE Return
    /\ UNCHANGED <<stream, delivered, cb, queueVars, writerVars, citems, thread,
                   stopEvent, answered, discVars, pauses>>

\* _stop_stream: stopping the device stream waits for a running callback.
StopStream ==
    /\ cpc = "stopStream" /\ (stream => cb.pc = "idle")
    /\ stream' = FALSE /\ cpc' = "await"
    /\ UNCHANGED <<state, error, delivered, cb, queueVars, writerVars, op, citems,
                   thread, stopEvent, answered, discVars, faults, pauses>>

Drained == queue = <<>> /\ idle

AfterDrain == IF op = "pause" THEN "finish" ELSE "shutdown"

\* _await_queue_drain returns True.
AwaitDrained ==
    /\ cpc = "await" /\ Drained
    /\ cpc' = AfterDrain
    /\ UNCHANGED <<state, stream, error, delivered, cb, queueVars, writerVars, op,
                   citems, thread, stopEvent, answered, discVars, faults, pauses>>

\* _await_queue_drain gives up on a dead writer, or on a slow one after 10 s,
\* and takes everything queued into this thread.
AwaitTakesOver ==
    /\ cpc = "await" /\ ~Drained
    /\ WriterAlive => MayTimeOut
    /\ TakeQueue
    /\ cpc' = IF op = "pause" THEN "drainLast" ELSE "drain"
    /\ UNCHANGED <<state, stream, error, delivered, cb, closed, pending, dropped,
                   writerVars, op, thread, stopEvent, answered, discVars, faults,
                   pauses>>

\* _shutdown_writer up to the join.
Shutdown ==
    /\ cpc = "shutdown"
    /\ stopEvent' = TRUE /\ closed' = TRUE /\ thread' = FALSE
    /\ cpc' = IF thread THEN "join" ELSE "finish"
    /\ UNCHANGED <<state, stream, error, delivered, cb, queue, pending, dropped,
                   writerVars, op, citems, answered, discVars, faults, pauses>>

\* The join ends with the thread, or after 15 s with an error; whatever it
\* left behind is drained.
Join ==
    /\ cpc = "join"
    /\ \/ wpc = "exited" /\ UNCHANGED error
       \/ MayTimeOut /\ wpc # "exited" /\ error' = TRUE
    /\ TakeQueue
    /\ cpc' = "drainLast"
    /\ UNCHANGED <<state, stream, delivered, cb, closed, pending, dropped,
                   writerVars, op, thread, stopEvent, answered, discVars, faults,
                   pauses>>

DrainSteps == {"drain", "drainLast"}
WriteSteps == {"drainWrite", "drainLastWrite"}
WriteStep(pc) == IF pc = "drain" THEN "drainWrite" ELSE "drainLastWrite"
DrainStep(pc) == IF pc = "drainWrite" THEN "drain" ELSE "drainLast"
DrainOver(pc) == IF pc \in {"drain", "drainWrite"} THEN "shutdown" ELSE "finish"

\* _drain_into_writer, one block at a time, through the same _consume.
DrainTakesLoss ==
    /\ cpc \in DrainSteps /\ citems # <<>> /\ TakePending
    /\ cpc' = WriteStep(cpc)
    /\ UNCHANGED <<state, stream, error, delivered, cb, queue, closed, dropped,
                   writerVars, op, citems, thread, stopEvent, answered, tape,
                   chunkStart, chunks, broken, faults, pauses>>

DrainWrites ==
    /\ cpc \in WriteSteps /\ WriteBlock(Head(citems))
    /\ citems' = Tail(citems) /\ cpc' = DrainStep(cpc)
    /\ UNCHANGED <<state, stream, error, delivered, cb, queueVars, writerVars, op,
                   thread, stopEvent, answered, gaps, broken, faults, pauses>>

\* A WriterError ends the drain, and the blocks behind the failed one with it.
DrainRaises ==
    /\ cpc \in WriteSteps /\ Fault
    /\ WriteFails(Head(citems), Range(Tail(citems)))
    /\ citems' = <<>> /\ cpc' = DrainOver(cpc)
    /\ error' = TRUE /\ state' = Failed(state)
    /\ UNCHANGED <<stream, delivered, cb, queueVars, writerVars, op, thread,
                   stopEvent, answered, gaps, pauses>>

\* The manifest line for the loss cannot be written: an OSError, which the
\* drain does not catch, leaves the call; what was taken with it is given up.
DrainEscapes ==
    /\ cpc \in DrainSteps /\ citems # <<>> /\ pending # 0 /\ Fault
    /\ TakePending
    /\ broken' = broken \cup Range(citems) /\ citems' = <<>>
    /\ Return
    /\ UNCHANGED <<state, stream, error, delivered, cb, queue, closed, dropped,
                   writerVars, thread, stopEvent, answered, tape, chunkStart,
                   chunks, pauses>>

DrainEnds ==
    /\ cpc \in DrainSteps /\ citems = <<>>
    /\ cpc' = DrainOver(cpc)
    /\ UNCHANGED <<state, stream, error, delivered, cb, queueVars, writerVars, op,
                   citems, thread, stopEvent, answered, discVars, faults, pauses>>

\* pause: finalise_current; if that raises, pause raises and the chunk stays a partial.
PauseFinishes ==
    /\ cpc = "finish" /\ op = "pause"
    /\ \/ EndChunk(TRUE) /\ UNCHANGED faults
       \/ Len(tape) # chunkStart /\ Fault /\ EndChunk(FALSE)
    /\ Return
    /\ UNCHANGED <<state, stream, error, delivered, cb, queueVars, writerVars,
                   citems, thread, stopEvent, answered, gaps, broken, pauses>>

\* stop: close the writer and settle on STOPPED or FAILED.
StopFinishes ==
    /\ cpc = "finish" /\ op = "stop"
    /\ \/ EndChunk(TRUE) /\ UNCHANGED <<faults, error>>
       \/ Len(tape) # chunkStart /\ Fault /\ EndChunk(FALSE) /\ error' = TRUE
    /\ state' = IF error' THEN "FAILED" ELSE "STOPPED"
    /\ answered' = TRUE /\ Return
    /\ UNCHANGED <<stream, delivered, cb, queueVars, writerVars, citems, thread,
                   stopEvent, gaps, broken, pauses>>

\* A rename, hash or manifest line that fails raises OSError, which stop does not
\* catch: the chunk stays behind and the session stays STOPPING.
StopEscapes ==
    /\ cpc = "finish" /\ op = "stop"
    /\ Len(tape) # chunkStart /\ Fault /\ EndChunk(FALSE)
    /\ Return
    /\ UNCHANGED <<state, stream, error, delivered, cb, queueVars, writerVars,
                   citems, thread, stopEvent, answered, gaps, broken, pauses>>

\* abandon leaves the open chunk as a partial; a refused start only raises.
AbandonFinishes ==
    /\ cpc = "finish" /\ op = "abandon"
    /\ EndChunk(FALSE)
    /\ state' = "FAILED" /\ answered' = TRUE /\ Return
    /\ UNCHANGED <<stream, error, delivered, cb, queueVars, writerVars, citems,
                   thread, stopEvent, gaps, broken, faults, pauses>>

StartFinishes ==
    /\ cpc = "finish" /\ op = "start" /\ Return
    /\ UNCHANGED <<state, stream, error, delivered, cb, queueVars, writerVars,
                   citems, thread, stopEvent, answered, discVars, faults, pauses>>

Controller ==
    \/ StreamOpens \/ StreamRefused \/ StopStream \/ AwaitDrained
    \/ AwaitTakesOver \/ Shutdown \/ Join \/ DrainTakesLoss \/ DrainWrites
    \/ DrainRaises \/ DrainEscapes \/ DrainEnds \/ PauseFinishes
    \/ StopFinishes \/ StopEscapes \/ AbandonFinishes \/ StartFinishes

-----------------------------------------------------------------------------
Next == Callback \/ Writer \/ Call \/ Controller

\* The threads are scheduled: a callback that has begun ends, the writer thread
\* loops, a call that has begun goes on.  Nobody has to deliver audio or to call.
Fairness ==
    /\ WF_vars(PutAccepted \/ PutRefused \/ Tally)
    /\ WF_vars(Writer)
    /\ WF_vars(Controller)

Spec == Init /\ [][Next]_vars /\ Fairness

-----------------------------------------------------------------------------
(* What must hold *)

Blocks == 1..MaxBlocks
Holding == {"popped", "taken", "write"}   \* the writer has a block in hand

\* The types, one component at a time; the queue never exceeds its capacity.
SessionType == /\ state \in States /\ stream \in BOOLEAN /\ error \in BOOLEAN
               /\ answered \in BOOLEAN

QueueType == /\ queue \in Seq(Blocks) /\ Len(queue) <= QueueCap
             /\ closed \in BOOLEAN /\ pending \in Nat /\ dropped \subseteq Blocks

CallbackType == /\ delivered \in 0..MaxBlocks
                /\ cb \in [pc : {"idle", "tally"}, block : {0}]
                         \cup [pc : {"put"}, block : Blocks]

WriterType == /\ wpc \in {"none", "get", "empty", "written", "failing", "exited"}
                         \cup Holding
              /\ witem \in IF wpc \in Holding THEN Blocks ELSE {0}
              /\ idle \in BOOLEAN /\ (state = "IDLE" => wpc = "none")

CallType == /\ op \in {"none", "start", "pause", "resume", "stop", "abandon"}
            /\ cpc \in {"ready", "open", "stopStream", "await", "shutdown", "join",
                        "finish"} \cup DrainSteps \cup WriteSteps
            /\ citems \in Seq(Blocks) /\ (cpc \in WriteSteps => citems # <<>>)
            /\ thread \in BOOLEAN /\ stopEvent \in BOOLEAN

Gap == [reason : {"queue_overflow", "paused"}, at : Nat, lost : Nat]

DiscType == /\ tape \in Seq(Blocks) /\ broken \subseteq Blocks
            /\ chunkStart \in Nat
            /\ chunks \subseteq [start : Nat, end : Nat, final : BOOLEAN]
            /\ gaps \in Seq(Gap)

BoundType == faults \in 0..MaxFaults /\ pauses \in 0..MaxPauses

\* Every variable stays in its range: in particular the queue is bounded, and a
\* thread has a block in hand exactly between taking it and writing it.
TypeOK == /\ SessionType /\ QueueType /\ CallbackType /\ WriterType /\ CallType
          /\ DiscType /\ BoundType

Item == IF witem = 0 THEN <<>> ELSE <<witem>>
InHand == IF cb.pc = "put" THEN <<cb.block>> ELSE <<>>
Pipeline == tape \o Item \o citems \o queue \o InHand

\* Whatever the threads do, every block the device delivered is in exactly one
\* place: on the tape, on its way there, counted as dropped, or lost to a write
\* that raised.  Relates the queue's counters to what the writer appended.
EveryBlockAccountedFor ==
    /\ Range(Pipeline) \cup dropped \cup broken = 1..delivered
    /\ Range(Pipeline) \cap (dropped \cup broken) = {} /\ dropped \cap broken = {}
    /\ \A i, j \in DOMAIN Pipeline : Pipeline[i] = Pipeline[j] => i = j

\* "frames are written in exactly the order they arrived" (session.py:11-12):
\* the tape, then everything on its way to it, is in delivery order.
ArrivalOrder ==
    \A i, j \in DOMAIN Pipeline : i < j => Pipeline[i] < Pipeline[j]

\* A session that reports STOPPED has the microphone closed, nothing in flight,
\* no chunk open, and every delivered block on the tape except those the queue
\* counted as dropped.
StoppedIsComplete ==
    state = "STOPPED" =>
        /\ ~stream /\ Len(tape) = chunkStart
        /\ Range(tape) \cup dropped = 1..delivered

\* The blocks that a list of gaps stands for.
BlocksIn(g) ==
    LET sum[i \in 0..Len(g)] == IF i = 0 THEN 0 ELSE sum[i - 1] + g[i].lost
    IN  sum[Len(g)]

\* The gaps recorded so far and the loss still waiting for the next block add
\* up to the dropped counter: no loss is recorded twice or forgotten by a swap.
LossAccounted ==
    BlocksIn(gaps) + pending + (IF cb.pc = "tally" THEN 1 ELSE 0) = Cardinality(dropped)

\* Chunks neither overlap nor leave a frame out, whichever of the two threads
\* closed them, and none exceeds frames_per_chunk.
ChunksTileTheTape ==
    /\ \A f \in 1..Len(tape) :
          IF f <= chunkStart
            THEN Cardinality({c \in chunks : c.start < f /\ f <= c.end}) = 1
            ELSE \A c \in chunks : c.end < f
    /\ \A c \in chunks : c.end - c.start \in 1..ChunkFrames
    /\ Len(tape) - chunkStart < ChunkFrames

\* "Pause is a real boundary [...] Resume opens a fresh chunk" (session.py:17-19):
\* the frame a paused gap names is where one chunk ended and the next begins.
PausedGapIsAChunkBoundary ==
    \A i \in DOMAIN gaps : gaps[i].reason = "paused" =>
        gaps[i].at \in {0} \cup {c.end : c \in chunks}

\* When stop or abandon has returned its result the microphone is released.
AnsweredReleasesMicrophone == answered => ~stream

\* No block is lost without a record of it: while it runs, when it is shut down, and in
\* what a session that has stopped leaves behind.  Closing the queue never costs audio: a
\* block is refused because the queue is full, never because the session was shutting
\* down around a live stream.
NothingLostSilently ==
    [][/\ StoppedIsComplete' /\ LossAccounted'
       /\ closed => dropped' = dropped]_vars

\* However slow the writer was when the waits for it ran out, the two threads that then
\* write lose no block, record each loss once, give each frame to one chunk, and leave
\* alone what has been reported STOPPED.
LateWriterIsHarmless ==
    [][/\ EveryBlockAccountedFor' /\ LossAccounted' /\ ChunksTileTheTape'
       /\ state = "STOPPED" => UNCHANGED <<state, discVars>>]_vars

\* Every call returns: no wait of the controlling thread is for ever.
CallsReturn == (cpc # "ready") ~> (cpc = "ready")

\* Queued audio reaches the tape, unless the session failed.
QueuedReachesTape ==
    \A b \in 1..MaxBlocks :
        (b \in Range(queue)) ~> (b \in Range(tape) \/ error)

\* The session is never stuck: neither the caller nor audio that is queued.
Progress == CallsReturn /\ QueuedReachesTape

\* The threads together implement one recorder that commits audio in order.
Tape == INSTANCE Recorder WITH
    Block <- 1..MaxBlocks,
    captured <- delivered - Len(InHand),
    buffered <- Item \o citems \o queue,
    lost <- dropped \cup broken,
    faulty <- error \/ wpc = "failing",
    sealed <- state = "STOPPED"
ImplementsRecorder == Tape!Spec
=============================================================================
