---------------------------- MODULE ServerProofs ----------------------------
(***************************************************************************)
(* What TLAPS proves of what the threads of the server process share: the  *)
(* microphone and its live preview (Microphone), for every set of threads, *)
(* device lists and registries and every budget of a preview; the models   *)
(* (HeavyRuns, and the ModelWorker it is built on), for every set of       *)
(* threads and every number of model calls in a run.  The two systems have *)
(* no variable in common.                                                  *)
(***************************************************************************)
EXTENDS Microphone, HeavyRuns, FiniteSetTheorems, WellFoundedInduction, TLAPS

-----------------------------------------------------------------------------
(* The microphone: what is counted in the queue of a preview *)

Entries == {Block, Sentinel}
BlocksOf(q) == {i \in DOMAIN q : q[i] = Block}

LEMMA BlocksAreFinite ==
  ASSUME NEW q \in Seq(Entries) PROVE IsFiniteSet(BlocksOf(q))
<1>1. DOMAIN q = 1..Len(q) /\ Len(q) \in Nat
  OBVIOUS
<1>2. IsFiniteSet(1..Len(q))
  BY <1>1, FS_Interval
<1>3. BlocksOf(q) \in SUBSET (1..Len(q))
  BY <1>1 DEF BlocksOf
<1>. QED
  BY <1>2, <1>3, FS_Subset

LEMMA CountEmpty == Cardinality(BlocksOf(<<>>)) = 0
<1>1. BlocksOf(<<>>) = {}
  BY DEF BlocksOf
<1>. QED
  BY <1>1, FS_EmptySet

LEMMA CountAppend ==
  ASSUME NEW q \in Seq(Entries), NEW e \in Entries
  PROVE  Cardinality(BlocksOf(Append(q, e))) = Cardinality(BlocksOf(q)) + e
<1>. DEFINE r == Append(q, e)
            n == Len(q) + 1
<1>1. /\ DOMAIN r = (DOMAIN q) \cup {n} /\ n \notin DOMAIN q /\ r[n] = e
      /\ \A i \in DOMAIN q : r[i] = q[i]
  OBVIOUS
<1>. HIDE DEF r, n
<1>2. n \notin BlocksOf(q)
  BY <1>1 DEF BlocksOf
<1>3. CASE e = Block
  <2>1. BlocksOf(r) = BlocksOf(q) \cup {n}
    BY <1>1, <1>3 DEF BlocksOf
  <2>2. Cardinality(BlocksOf(r)) = Cardinality(BlocksOf(q)) + 1
    BY <1>2, <2>1, BlocksAreFinite, FS_AddElement
  <2>. QED
    BY <1>3, <2>2 DEF r, Block
<1>4. CASE e = Sentinel
  <2>1. BlocksOf(r) = BlocksOf(q)
    BY <1>1, <1>4 DEF BlocksOf, Block, Sentinel
  <2>2. Cardinality(BlocksOf(q)) \in Nat
    BY BlocksAreFinite, FS_CardinalityType
  <2>. QED
    BY <1>4, <2>1, <2>2 DEF r, Sentinel
<1>. QED
  BY <1>3, <1>4 DEF Entries

LEMMA CountTail ==
  ASSUME NEW q \in Seq(Entries), q # <<>>
  PROVE  Cardinality(BlocksOf(q)) = Cardinality(BlocksOf(Tail(q))) + Head(q)
<1>. DEFINE S == BlocksOf(q) \ {1}
            T == BlocksOf(Tail(q))
            f == [i \in S |-> i - 1]
<1>0. /\ DOMAIN q = 1..Len(q) /\ Len(q) \in Nat /\ Len(q) >= 1
      /\ DOMAIN Tail(q) = 1..(Len(q) - 1) /\ \A i \in 1..(Len(q) - 1) : Tail(q)[i] = q[i + 1]
      /\ Head(q) = q[1] /\ Head(q) \in Entries /\ Tail(q) \in Seq(Entries)
  OBVIOUS
<1>1. \A i \in S : i \in 2..Len(q) /\ q[i] = Block /\ i - 1 \in T
  BY <1>0 DEF BlocksOf
<1>2. \A j \in T : j \in 1..(Len(q) - 1) /\ j + 1 \in S /\ (j + 1) - 1 = j
  BY <1>0 DEF BlocksOf
<1>3. IsFiniteSet(BlocksOf(q)) /\ IsFiniteSet(S) /\ IsFiniteSet(T)
  BY <1>0, BlocksAreFinite, FS_RemoveElement
<1>. HIDE DEF S, T
<1>4. f \in Bijection(S, T)
  <2>1. f \in [S -> T]
    BY <1>1
  <2>2. \A a, b \in S : f[a] = f[b] => a = b
    BY <1>1
  <2>3. \A j \in T : \E a \in S : f[a] = j
    BY <1>2
  <2>. HIDE DEF f
  <2>4. f \in Injection(S, T)
    BY <2>1, <2>2 DEF Injection, IsInjective
  <2>5. f \in Surjection(S, T)
    BY <2>1, <2>3 DEF Surjection
  <2>. QED
    BY <2>4, <2>5 DEF Bijection
<1>5. Cardinality(T) = Cardinality(S)
  BY <1>3, <1>4, FS_Bijection DEF ExistsBijection
<1>6. CASE Head(q) = Block
  <2>1. 1 \in BlocksOf(q)
    BY <1>0, <1>6 DEF BlocksOf
  <2>2. Cardinality(S) = Cardinality(BlocksOf(q)) - 1
    BY <1>3, <2>1, FS_RemoveElement DEF S
  <2>3. Cardinality(BlocksOf(q)) \in Nat
    BY <1>3, FS_CardinalityType
  <2>. QED
    BY <1>5, <1>6, <2>2, <2>3 DEF T, Block
<1>7. CASE Head(q) = Sentinel
  <2>1. BlocksOf(q) = S
    BY <1>0, <1>7 DEF BlocksOf, S, Block, Sentinel
  <2>2. Cardinality(BlocksOf(q)) \in Nat
    BY <1>3, FS_CardinalityType
  <2>. QED
    BY <1>5, <1>7, <2>1, <2>2 DEF T, Sentinel
<1>. QED
  BY <1>0, <1>6, <1>7 DEF Entries

-----------------------------------------------------------------------------
(* The microphone: one preview *)

PreviewRecord ==
    [at : {"none", "load", "wait", "decode", "close", "ended"},
     thread : BOOLEAN, stop : BOOLEAN, running : BOOLEAN, model : BOOLEAN,
     queue : Seq(Entries), queued : Nat, pending : Int, fed : Nat]

Counted(v) ==
    /\ v \in PreviewRecord
    /\ Cardinality(BlocksOf(v.queue)) = v.queued /\ v.queued <= QueueBudget

LEMMA NewPreviewCounts == Counted(Unused)
<1>1. Unused \in PreviewRecord
  BY DEF Unused, PreviewRecord
<1>2. Unused.queue = <<>> /\ Unused.queued = 0
  BY DEF Unused
<1>. QED
  BY <1>1, <1>2, CountEmpty, PreviewAssumption DEF Counted

\* The queue of a preview is left alone by everything but fed, stopped and taken.
LEMMA QueueAlone ==
  ASSUME NEW v, Counted(v), NEW w \in PreviewRecord, w.queue = v.queue, w.queued = v.queued
  PROVE  Counted(w)
BY DEF Counted

LEMMA StartedCounts == ASSUME NEW v, Counted(v) PROVE Counted(Started(v))
<1>1. v \in PreviewRecord
  BY DEF Counted
<1>2. Started(v) \in PreviewRecord
  BY <1>1 DEF Started, PreviewRecord
<1>3. Started(v).queue = v.queue /\ Started(v).queued = v.queued
  BY <1>1 DEF Started, PreviewRecord
<1>. QED
  BY <1>2, <1>3, QueueAlone

LEMMA JoinedCounts == ASSUME NEW v, Counted(v) PROVE Counted(Joined(v))
<1>1. v \in PreviewRecord
  BY DEF Counted
<1>2. Joined(v) \in PreviewRecord
  BY <1>1 DEF Joined, PreviewRecord
<1>3. Joined(v).queue = v.queue /\ Joined(v).queued = v.queued
  BY <1>1 DEF Joined, PreviewRecord
<1>. QED
  BY <1>2, <1>3, QueueAlone

\* A block is queued and counted, or neither, and never beyond the budget.
LEMMA FedCounts == ASSUME NEW v, Counted(v) PROVE Counted(Fed(v))
<1>1. v \in PreviewRecord /\ v.queue \in Seq(Entries) /\ v.queued \in Nat /\ v.fed \in Nat
  BY DEF Counted, PreviewRecord
<1>2. CASE ~v.thread \/ v.queued + Block > QueueBudget
  <2>1. Fed(v) = [v EXCEPT !.fed = @ + 1]
    BY <1>2 DEF Fed
  <2>2. Fed(v) \in PreviewRecord /\ Fed(v).queue = v.queue /\ Fed(v).queued = v.queued
    BY <1>1, <2>1 DEF PreviewRecord
  <2>. QED
    BY <2>2, QueueAlone
<1>3. CASE ~(~v.thread \/ v.queued + Block > QueueBudget)
  <2>1. Fed(v) = [v EXCEPT !.fed = @ + 1, !.queued = @ + Block, !.queue = Append(@, Block)]
    BY <1>3 DEF Fed
  <2>2. Append(v.queue, Block) \in Seq(Entries) /\ v.queued + Block \in Nat /\ v.fed + 1 \in Nat
    BY <1>1 DEF Entries, Block
  <2>3. /\ Fed(v) \in PreviewRecord
        /\ Fed(v).queue = Append(v.queue, Block) /\ Fed(v).queued = v.queued + Block
    BY <1>1, <2>1, <2>2 DEF PreviewRecord
  <2>4. Cardinality(BlocksOf(Append(v.queue, Block))) = v.queued + Block
    BY <1>1, CountAppend DEF Counted, Entries
  <2>5. v.queued + Block <= QueueBudget
    BY <1>1, <1>3, PreviewAssumption DEF Block
  <2>. QED
    BY <2>3, <2>4, <2>5 DEF Counted
<1>. QED
  BY <1>2, <1>3

\* The sentinel that wakes the worker is no audio.
LEMMA AskedCounts == ASSUME NEW v, Counted(v) PROVE Counted(Asked(v))
<1>1. v \in PreviewRecord /\ v.queue \in Seq(Entries) /\ v.queued \in Nat
  BY DEF Counted, PreviewRecord
<1>2. CASE ~v.thread
  <2>1. Asked(v) = [v EXCEPT !.stop = TRUE]
    BY <1>2 DEF Asked
  <2>2. Asked(v) \in PreviewRecord /\ Asked(v).queue = v.queue /\ Asked(v).queued = v.queued
    BY <1>1, <2>1 DEF PreviewRecord
  <2>. QED
    BY <2>2, QueueAlone
<1>3. CASE v.thread
  <2>1. Asked(v) = [v EXCEPT !.stop = TRUE, !.queue = Append(@, Sentinel), !.thread = FALSE]
    BY <1>3 DEF Asked
  <2>2. Append(v.queue, Sentinel) \in Seq(Entries)
    BY <1>1 DEF Entries
  <2>3. /\ Asked(v) \in PreviewRecord
        /\ Asked(v).queue = Append(v.queue, Sentinel) /\ Asked(v).queued = v.queued
    BY <1>1, <2>1, <2>2 DEF PreviewRecord
  <2>4. Cardinality(BlocksOf(Append(v.queue, Sentinel))) = v.queued + Sentinel
    BY <1>1, CountAppend DEF Counted, Entries
  <2>. QED
    BY <1>1, <2>3, <2>4 DEF Counted, Sentinel
<1>. QED
  BY <1>2, <1>3

PreviewInv == preview \in [Preview -> PreviewRecord] /\ \A p \in Preview : Counted(preview[p])

LEMMA ChangedPreview ==
  ASSUME PreviewInv, NEW q, NEW w, preview' = [preview EXCEPT ![q] = w],
         q \in Preview => Counted(w)
  PROVE  PreviewInv'
BY DEF PreviewInv, Counted

LEMMA TakeCounts == ASSUME PreviewInv, NEW p \in Preview, Take(p) PROVE PreviewInv'
<1>. DEFINE v == preview[p]
<1>1. Counted(v)
  BY DEF PreviewInv
<1>2. /\ v \in PreviewRecord /\ v.queue \in Seq(Entries) /\ v.queued \in Nat
      /\ v.pending \in Int
  BY <1>1 DEF Counted, PreviewRecord
<1>3. v.queue # <<>>
  BY DEF Take
<1>4. CASE Head(v.queue) = Sentinel
  <2>. DEFINE w == [v EXCEPT !.at = "close"]
  <2>1. preview' = [preview EXCEPT ![p] = w]
    BY <1>4 DEF Take, Become
  <2>2. w \in PreviewRecord /\ w.queue = v.queue /\ w.queued = v.queued
    BY <1>2 DEF PreviewRecord
  <2>3. Counted(w)
    BY <1>1, <2>2, QueueAlone
  <2>. HIDE DEF w
  <2>. QED
    BY <2>1, <2>3, ChangedPreview
<1>5. CASE Head(v.queue) # Sentinel
  <2>. DEFINE step == IF v.pending + Block >= Window THEN "decode" ELSE "wait"
              w == [v EXCEPT !.queue = Tail(@), !.queued = @ - Block,
                             !.pending = @ + Block, !.at = step]
  <2>1. preview' = [preview EXCEPT ![p] = w]
    BY <1>5 DEF Take, Become
  <2>2. /\ Head(v.queue) = Block /\ Tail(v.queue) \in Seq(Entries)
        /\ Cardinality(BlocksOf(v.queue)) = Cardinality(BlocksOf(Tail(v.queue))) + Block
    BY <1>2, <1>3, <1>5, CountTail DEF Entries
  <2>3. Cardinality(BlocksOf(Tail(v.queue))) \in Nat
    BY <2>2, BlocksAreFinite, FS_CardinalityType
  <2>4. /\ Cardinality(BlocksOf(Tail(v.queue))) = v.queued - Block
        /\ v.queued - Block \in Nat /\ v.queued - Block <= QueueBudget
    BY <1>1, <1>2, <2>2, <2>3, PreviewAssumption DEF Counted, Block
  <2>5. v.pending + Block \in Int /\ step \in {"decode", "wait"}
    BY <1>2 DEF Block
  <2>. HIDE DEF step
  <2>6. w \in PreviewRecord /\ w.queue = Tail(v.queue) /\ w.queued = v.queued - Block
    BY <1>2, <2>2, <2>4, <2>5 DEF PreviewRecord
  <2>7. Counted(w)
    BY <2>4, <2>6 DEF Counted
  <2>. HIDE DEF w
  <2>. QED
    BY <2>1, <2>7, ChangedPreview
<1>. QED
  BY <1>4, <1>5

\* A step of the worker that leaves the queue alone.
LEMMA BecomeCounts ==
  ASSUME PreviewInv, NEW p \in Preview, NEW w \in PreviewRecord, Become(p, w),
         w.queue = preview[p].queue, w.queued = preview[p].queued
  PROVE  PreviewInv'
<1>1. Counted(w)
  BY QueueAlone DEF PreviewInv
<1>. QED
  BY <1>1, ChangedPreview DEF Become

LEMMA WorkerCounts == ASSUME PreviewInv, NEW p \in Preview, WorkerStep(p) PROVE PreviewInv'
<1>. DEFINE v == preview[p]
<1>1. v \in PreviewRecord
  BY DEF PreviewInv
<1>2. CASE Take(p)
  BY <1>2, TakeCounts
<1>3. CASE LoadModel(p)
  <2>1. CASE Become(p, [v EXCEPT !.at = "wait", !.model = TRUE])
    <3>1. [v EXCEPT !.at = "wait", !.model = TRUE] \in PreviewRecord
      BY <1>1 DEF PreviewRecord
    <3>. QED
      BY <1>1, <2>1, <3>1, BecomeCounts DEF PreviewRecord
  <2>2. CASE Become(p, [v EXCEPT !.at = "ended", !.running = FALSE])
    <3>1. [v EXCEPT !.at = "ended", !.running = FALSE] \in PreviewRecord
      BY <1>1 DEF PreviewRecord
    <3>. QED
      BY <1>1, <2>2, <3>1, BecomeCounts DEF PreviewRecord
  <2>. QED
    BY <1>3, <2>1, <2>2 DEF LoadModel
<1>4. CASE SeeStop(p)
  <2>1. [v EXCEPT !.at = "close"] \in PreviewRecord
    BY <1>1 DEF PreviewRecord
  <2>. QED
    BY <1>1, <1>4, <2>1, BecomeCounts DEF SeeStop, PreviewRecord
<1>5. CASE CloseProvider(p)
  <2>1. [v EXCEPT !.at = "ended", !.model = FALSE] \in PreviewRecord
    BY <1>1 DEF PreviewRecord
  <2>. QED
    BY <1>1, <1>5, <2>1, BecomeCounts DEF CloseProvider, PreviewRecord
<1>6. CASE DecodeWindow(p)
  <2>. DEFINE rest == v.pending - (Window - Overlap)
              step == IF rest >= Window THEN "decode" ELSE "wait"
              w == [v EXCEPT !.pending = rest, !.at = step]
  <2>1. rest \in Int /\ step \in {"decode", "wait"}
    BY <1>1, PreviewAssumption DEF PreviewRecord
  <2>2. Become(p, w)
    BY <1>6 DEF DecodeWindow
  <2>. HIDE DEF rest, step
  <2>3. w \in PreviewRecord /\ w.queue = v.queue /\ w.queued = v.queued
    BY <1>1, <2>1 DEF PreviewRecord
  <2>. HIDE DEF w
  <2>. QED
    BY <2>2, <2>3, BecomeCounts
<1>. QED
  BY <1>2, <1>3, <1>4, <1>5, <1>6 DEF WorkerStep

-----------------------------------------------------------------------------
(* The microphone: every step keeps the previews counted *)

LEMMA BeginCounts ==
  ASSUME PreviewInv, NEW t, NEW from, NEW to, BeginPreview(t, from, to) PROVE PreviewInv'
<1>1. CASE UNCHANGED preview
  BY <1>1 DEF PreviewInv
<1>2. CASE \E p \in Preview : preview' = [preview EXCEPT ![p] = Started(@)]
  <2>1. PICK p \in Preview : preview' = [preview EXCEPT ![p] = Started(preview[p])]
    BY <1>2
  <2>2. Counted(Started(preview[p]))
    BY StartedCounts DEF PreviewInv
  <2>. QED
    BY <2>1, <2>2, ChangedPreview
<1>. QED
  BY <1>1, <1>2 DEF BeginPreview

LEMMA JoinCounts ==
  ASSUME PreviewInv, NEW t, NEW from, NEW to, JoinPreview(t, from, to) PROVE PreviewInv'
<1>1. preview' = [preview EXCEPT ![own[t]] = Joined(preview[own[t]])]
  BY DEF JoinPreview
<1>2. own[t] \in Preview => Counted(Joined(preview[own[t]]))
  BY JoinedCounts DEF PreviewInv
<1>. QED
  BY <1>1, <1>2, ChangedPreview

LEMMA AskCounts ==
  ASSUME PreviewInv, NEW q,
         preview' = [p \in Preview |-> IF p = q THEN Asked(preview[p]) ELSE preview[p]]
  PROVE  PreviewInv'
<1>. DEFINE f(p) == IF p = q THEN Asked(preview[p]) ELSE preview[p]
<1>1. \A p \in Preview : Counted(f(p))
  BY AskedCounts DEF PreviewInv
<1>2. preview' = [p \in Preview |-> f(p)]
  OBVIOUS
<1>. HIDE DEF f
<1>. QED
  BY <1>1, <1>2 DEF PreviewInv, Counted

LEMMA MeasureCounts ==
  ASSUME PreviewInv, NEW t, Measure(t) PROVE PreviewInv'
<1>. DEFINE f(p) == IF p = own[t] THEN Fed(preview[p]) ELSE preview[p]
<1>1. \A p \in Preview : Counted(f(p))
  BY FedCounts DEF PreviewInv
<1>2. preview' = [p \in Preview |-> f(p)]
  BY DEF Measure
<1>. HIDE DEF f
<1>. QED
  BY <1>1, <1>2 DEF PreviewInv, Counted

LEMMA RecordCounts == ASSUME PreviewInv, RecordBlock PROVE PreviewInv'
<1>. DEFINE q == active.preview
<1>1. preview' = [preview EXCEPT ![q] = Fed(preview[q])]
  BY DEF RecordBlock
<1>2. q \in Preview => Counted(Fed(preview[q]))
  BY FedCounts DEF PreviewInv
<1>. HIDE DEF q
<1>. QED
  BY <1>1, <1>2, ChangedPreview

LEMMA ExitCounts == ASSUME Exit PROVE PreviewInv'
<1>1. preview' = [p \in Preview |-> Unused]
  BY DEF Exit
<1>2. Counted(Unused) /\ Unused \in PreviewRecord
  BY NewPreviewCounts DEF Counted
<1>. QED
  BY <1>1, <1>2 DEF PreviewInv

LEMMA NextCounts == ASSUME PreviewInv, [MicrophoneNext]_microphoneVars PROVE PreviewInv'
<1>u. UNCHANGED preview => PreviewInv'
  BY DEF PreviewInv
<1>1. ASSUME NEW t \in Threads, Serve(t) \/ Stop(t) PROVE PreviewInv'
  <2>1. CASE Start(t)
    <3>1. UNCHANGED preview \/ BeginPreview(t, "arm", "open")
      BY <2>1 DEF Start, Request, EnterStart, LeaveCall, Quit, Preflight, RoomFit,
         ResolveAgain, Resolve, OpenRecording
    <3>. QED
      BY <1>u, <3>1, BeginCounts
  <2>2. CASE Stop(t)
    <3>1. CASE TakePreview(t)
      BY <3>1, AskCounts DEF TakePreview
    <3>2. CASE JoinStopped(t)
      BY <3>2, JoinCounts DEF JoinStopped
    <3>3. CASE EnterStop(t) \/ LeaveCall(t) \/ Finalise(t)
      BY <1>u, <3>3 DEF EnterStop, LeaveCall, Quit, Finalise
    <3>. QED
      BY <2>2, <3>1, <3>2, <3>3 DEF Stop
  <2>3. CASE Request(t, "stop") \/ Calibrate(t) \/ OpenTest(t)
    BY <1>u, <2>3 DEF Request, Calibrate, Resolve, Quit, OpenMeter, CloseMeter, OpenTest
  <2>4. CASE VoiceCheck(t)
    <3>1. CASE BeginPreview(t, "voicePreview", "voiceMeter")
      BY <3>1, BeginCounts
    <3>2. CASE EndVoicePreview(t)
      BY <3>2, AskCounts DEF EndVoicePreview
    <3>3. CASE JoinVoice(t)
      BY <3>3, JoinCounts DEF JoinVoice
    <3>4. CASE \/ Request(t, "voice") \/ EnterVoiceCheck(t)
               \/ Resolve(t, "voiceDevice", "voicePreview")
               \/ OpenMeter(t, "voiceMeter", "speak", "spoken")
               \/ CloseMeter(t, "speak", "spoken") \/ DecodeOnce(t)
      BY <1>u, <3>4
         DEF Request, EnterVoiceCheck, Resolve, Quit, OpenMeter, CloseMeter, DecodeOnce
    <3>. QED
      BY <2>4, <3>1, <3>2, <3>3, <3>4 DEF VoiceCheck
  <2>5. CASE Measure(t)
    BY <2>5, MeasureCounts
  <2>6. CASE \E i \in DOMAIN list : SelectDevice(t, i)
    BY <1>u, <2>6 DEF SelectDevice
  <2>. QED
    BY <1>1, <2>1, <2>2, <2>3, <2>4, <2>5, <2>6 DEF Serve
<1>2. CASE \E p \in Preview : WorkerStep(p) /\ Alone
  BY <1>2, WorkerCounts
<1>3. CASE RecordBlock
  BY <1>3, RecordCounts
<1>4. CASE Exit
  BY <1>4, ExitCounts
<1>5. CASE \/ CloseWindow \/ ShutDown \/ Launch \/ RoomChanges \/ DatabaseChanges
           \/ UNCHANGED microphoneVars
  BY <1>u, <1>5 DEF CloseWindow, ShutDown, Launch, RoomChanges, DatabaseChanges, microphoneVars
<1>. QED
  BY <1>1, <1>2, <1>3, <1>4, <1>5 DEF MicrophoneNext, Threads

-----------------------------------------------------------------------------
(* The microphone: the threads, the level and the end of the server *)

\* No recording, or one a stop of which has failed.
Left == active = NoRecording \/ active.stuck

\* The lifespan handler runs only while the server is stopping, after the requests, and
\* what it has looked at when it leaves is finalised or stuck.
ShutInv ==
    /\ at[Lifespan] # "idle" => server = "stopping"
    /\ server \in {"stopping", "finished", "gone"} => \A t \in Handler : at[t] = "idle"
    /\ server = "stopping" /\ at[Lifespan] \in {"idle", "leave"} => Left
    /\ server = "finished" => Left

ThreadsInv ==
    /\ DOMAIN at = Threads /\ DOMAIN dev = Threads
    /\ level => \E t \in Handler : at[t] \in {"calibrate", "speak"}
    /\ active # NoRecording => "stuck" \in DOMAIN active
    /\ ShutInv

\* What a step of one thread may do to the threads, the level and the server.
GoesOn(t) ==
    /\ DOMAIN at' = DOMAIN at /\ DOMAIN dev' = DOMAIN dev
    /\ \A u \in Threads \ {t} : at'[u] = at[u]
    /\ at[t] # "idle" \/ server = "up"
    /\ UNCHANGED server
    /\ \/ at[t] \notin {"calibrate", "speak"} /\ level' = level
       \/ at'[t] \in {"calibrate", "speak"}
       \/ level' = FALSE

LEMMA StepGoesOn ==
  ASSUME ThreadsInv, NEW t \in Handler, GoesOn(t),
         active' # NoRecording => "stuck" \in DOMAIN active'
  PROVE  ThreadsInv'
<1>1. server \notin {"stopping", "finished", "gone"} /\ t # Lifespan
  BY MicrophoneAssumption DEF ThreadsInv, ShutInv, GoesOn
<1>2. level' => \E u \in Handler : at'[u] \in {"calibrate", "speak"}
  <2>. SUFFICES ASSUME level' PROVE \E u \in Handler : at'[u] \in {"calibrate", "speak"}
    OBVIOUS
  <2>1. CASE at'[t] \in {"calibrate", "speak"}
    BY <2>1
  <2>2. CASE at[t] \notin {"calibrate", "speak"} /\ level
    BY <2>2 DEF ThreadsInv, Threads, GoesOn
  <2>. QED
    BY <2>1, <2>2 DEF GoesOn
<1>3. ShutInv'
  BY <1>1 DEF ThreadsInv, ShutInv, GoesOn, Threads
<1>. QED
  BY <1>2, <1>3 DEF ThreadsInv, GoesOn

\* What the bookkeeping of a step comes to, in the words of GoesOn.
LEMMA GoMoves ==
  ASSUME ThreadsInv, NEW t, NEW step, StepTo(t, step)
  PROVE  /\ DOMAIN at' = DOMAIN at /\ \A u \in Threads \ {t} : at'[u] = at[u]
         /\ t \in Threads => at'[t] = step
BY DEF StepTo, ThreadsInv

LEMMA QuitMoves == ASSUME ThreadsInv, NEW t \in Threads, Quit(t), at[t] # "idle",
    at[t] \notin {"calibrate", "speak"}
  PROVE  GoesOn(t) /\ level' = level /\ at'[t] = "idle"
<1>1. StepTo(t, "idle") /\ DOMAIN dev' = DOMAIN dev /\ server' = server /\ level' = level
  BY DEF Quit, EndRequest, appVars
<1>. QED
  BY <1>1, GoMoves DEF GoesOn

LEMMA ResolveMoves ==
  ASSUME ThreadsInv, NEW t \in Threads, NEW from, NEW to, Resolve(t, from, to),
         from \notin {"idle", "calibrate", "speak"}
  PROVE  GoesOn(t)
<1>1. CASE Quit(t)
  BY <1>1, QuitMoves DEF Resolve
<1>2. CASE ~Quit(t)
  <2>1. StepTo(t, to) /\ DOMAIN dev' = DOMAIN dev /\ server' = server /\ level' = level
    BY <1>2 DEF Resolve, appVars, serviceVars
  <2>. QED
    BY <2>1, GoMoves DEF Resolve, GoesOn
<1>. QED
  BY <1>1, <1>2

LEMMA RequestMoves ==
  ASSUME ThreadsInv, NEW t \in Threads, NEW step, Request(t, step) PROVE GoesOn(t)
<1>1. /\ StepTo(t, step) /\ dev' = dev /\ server' = server /\ level' = level /\ active' = active
      /\ at[t] = "idle" /\ server = "up"
  BY DEF Request, serviceVars
<1>. QED
  BY <1>1, GoMoves DEF GoesOn

LEMMA BeginMoves ==
  ASSUME ThreadsInv, NEW t \in Threads, NEW from, NEW to, BeginPreview(t, from, to),
         from \notin {"idle", "calibrate", "speak"}
  PROVE  GoesOn(t)
<1>1. StepTo(t, to) /\ dev' = dev /\ server' = server /\ level' = level /\ at[t] = from
  BY DEF BeginPreview, appVars
<1>. QED
  BY <1>1, GoMoves DEF GoesOn

LEMMA JoinMoves ==
  ASSUME ThreadsInv, NEW t \in Threads, NEW from, NEW to, JoinPreview(t, from, to),
         from \notin {"idle", "calibrate", "speak"}
  PROVE  GoesOn(t) /\ level' = level /\ at'[t] = to
<1>1. StepTo(t, to) /\ dev' = dev /\ server' = server /\ level' = level /\ at[t] = from
  BY DEF JoinPreview, appVars
<1>. QED
  BY <1>1, GoMoves DEF GoesOn

LEMMA StartMoves == ASSUME ThreadsInv, NEW t \in Threads, Start(t) PROVE GoesOn(t)
<1>1. CASE Request(t, "start")
  BY <1>1, RequestMoves
<1>2. CASE EnterStart(t)
  <2>1. PICK step : StepTo(t, step)
    BY <1>2 DEF EnterStart
  <2>. QED
    BY <1>2, <2>1, GoMoves DEF EnterStart, GoesOn, appVars
<1>3. CASE LeaveCall(t)
  BY <1>3, QuitMoves DEF LeaveCall
<1>4. CASE Preflight(t) \/ RoomFit(t)
  <2>1. PICK step : StepTo(t, step)
    BY <1>4 DEF Preflight, RoomFit
  <2>2. dev' = dev /\ server' = server /\ level' = level /\ at[t] \in {"preflight", "room"}
    BY <1>4 DEF Preflight, RoomFit, appVars, serviceVars
  <2>. QED
    BY <2>1, <2>2, GoMoves DEF GoesOn
<1>5. CASE ResolveAgain(t)
  <2>1. Resolve(t, "resolve", "arm") => GoesOn(t)
    BY ResolveMoves
  <2>2. at[t] = "resolve" /\ Quit(t) => GoesOn(t)
    BY QuitMoves
  <2>. QED
    BY <1>5, <2>1, <2>2 DEF ResolveAgain
<1>6. CASE BeginPreview(t, "arm", "open")
  BY <1>6, BeginMoves
<1>7. CASE OpenRecording(t)
  <2>1. StepTo(t, "idle") /\ DOMAIN dev' = DOMAIN dev /\ server' = server /\ level' = level
    BY <1>7 DEF OpenRecording, EndRequest, appVars
  <2>. QED
    BY <1>7, <2>1, GoMoves DEF OpenRecording, GoesOn
<1>. QED
  BY <1>1, <1>2, <1>3, <1>4, <1>5, <1>6, <1>7 DEF Start

LEMMA StopMoves ==
  ASSUME ThreadsInv, NEW t \in Threads, Stop(t)
  PROVE  GoesOn(t) /\ level' = level /\ at'[t] \notin {"calibrate", "speak"}
<1>1. CASE TakePreview(t) \/ EnterStop(t)
  <2>1. PICK step \in {"finalise", "join", "leave", "drain"} : StepTo(t, step)
    BY <1>1 DEF TakePreview, EnterStop
  <2>2. dev' = dev /\ server' = server /\ level' = level /\ at[t] \in {"stop", "finalise"}
    BY <1>1 DEF TakePreview, EnterStop, appVars
  <2>. QED
    BY <2>1, <2>2, GoMoves DEF GoesOn
<1>2. CASE JoinStopped(t)
  BY <1>2, JoinMoves DEF JoinStopped
<1>3. CASE LeaveCall(t)
  BY <1>3, QuitMoves DEF LeaveCall
<1>4. CASE Finalise(t)
  <2>1. /\ StepTo(t, "idle") /\ DOMAIN dev' = DOMAIN dev /\ server' = server /\ level' = level
        /\ at[t] = "drain"
    BY <1>4 DEF Finalise, EndRequest, appVars
  <2>. QED
    BY <2>1, GoMoves DEF GoesOn
<1>. QED
  BY <1>1, <1>2, <1>3, <1>4 DEF Stop

LEMMA MeterMoves ==
  ASSUME ThreadsInv, NEW t \in Threads,
         \/ Calibrate(t) \/ OpenTest(t) \/ VoiceCheck(t) \/ Request(t, "stop")
  PROVE  GoesOn(t)
<1>1. ASSUME NEW step, Request(t, step) PROVE GoesOn(t)
  BY <1>1, RequestMoves
<1>2. ASSUME NEW from \in {"calibration", "test", "voiceDevice"}, NEW to, Resolve(t, from, to)
      PROVE  GoesOn(t)
  BY <1>2, ResolveMoves
<1>3. ASSUME NEW from \in {"meter", "voiceMeter"}, NEW to \in {"calibrate", "speak"},
             NEW after, OpenMeter(t, from, to, after)
      PROVE  GoesOn(t)
  <2>1. PICK step : StepTo(t, step) /\ (step = to \/ level' = FALSE)
    BY <1>3 DEF OpenMeter
  <2>2. dev' = dev /\ server' = server /\ at[t] = from
    BY <1>3 DEF OpenMeter, appVars
  <2>. QED
    BY <2>1, <2>2, GoMoves DEF GoesOn
<1>4. ASSUME NEW from \in {"calibrate", "speak"}, NEW to, CloseMeter(t, from, to)
      PROVE  GoesOn(t)
  <2>1. StepTo(t, to) /\ dev' = dev /\ server' = server /\ at[t] = from /\ level' = FALSE
    BY <1>4 DEF CloseMeter, appVars
  <2>. QED
    BY <2>1, GoMoves DEF GoesOn
<1>5. CASE EnterVoiceCheck(t) \/ EndVoicePreview(t) \/ DecodeOnce(t)
  <2>1. PICK step : StepTo(t, step)
    BY <1>5 DEF EnterVoiceCheck, EndVoicePreview, DecodeOnce
  <2>2. /\ dev' = dev /\ server' = server /\ level' = level
        /\ at[t] \in {"voice", "spoken", "decode"}
    BY <1>5 DEF EnterVoiceCheck, EndVoicePreview, DecodeOnce, appVars, serviceVars
  <2>. QED
    BY <2>1, <2>2, GoMoves DEF GoesOn
<1>6. CASE BeginPreview(t, "voicePreview", "voiceMeter")
  BY <1>6, BeginMoves
<1>7. CASE JoinVoice(t)
  BY <1>7, JoinMoves DEF JoinVoice
<1>. QED
  BY <1>1, <1>2, <1>3, <1>4, <1>5, <1>6, <1>7 DEF Calibrate, OpenTest, VoiceCheck

\* The recording of the service is made by OpenRecording, ended or marked by Finalise.
LEMMA ActiveIsARecord ==
  ASSUME ThreadsInv, NEW t \in Threads,
         \/ Start(t) \/ Stop(t) \/ Calibrate(t) \/ OpenTest(t) \/ VoiceCheck(t)
         \/ Request(t, "stop")
  PROVE  /\ active' # NoRecording => "stuck" \in DOMAIN active'
         /\ active' = active \/ OpenRecording(t) \/ Finalise(t)
<1>1. CASE OpenRecording(t) \/ Finalise(t)
  BY <1>1 DEF OpenRecording, Finalise, ThreadsInv, NoRecording
<1>2. CASE active' = active
  BY <1>2 DEF ThreadsInv
<1>3. ASSUME NEW step, Request(t, step) PROVE active' = active
  BY <1>3 DEF Request, serviceVars
<1>4. ASSUME NEW from, NEW to, Resolve(t, from, to) \/ BeginPreview(t, from, to)
                               \/ JoinPreview(t, from, to) \/ CloseMeter(t, from, to)
      PROVE  active' = active
  BY <1>4 DEF Resolve, Quit, BeginPreview, JoinPreview, CloseMeter, serviceVars
<1>5. ASSUME NEW from, NEW to, NEW after, OpenMeter(t, from, to, after) PROVE active' = active
  BY <1>5 DEF OpenMeter
<1>6. CASE Start(t)
  BY <1>1, <1>2, <1>3, <1>4, <1>6
     DEF Start, EnterStart, LeaveCall, Quit, Preflight, RoomFit, ResolveAgain, serviceVars
<1>7. CASE Stop(t)
  BY <1>1, <1>2, <1>4, <1>7 DEF Stop, TakePreview, JoinStopped, EnterStop, LeaveCall, Quit
<1>8. CASE Calibrate(t) \/ OpenTest(t) \/ VoiceCheck(t) \/ Request(t, "stop")
  BY <1>2, <1>3, <1>4, <1>5, <1>8
     DEF Calibrate, OpenTest, VoiceCheck, EnterVoiceCheck, EndVoicePreview, JoinVoice,
         DecodeOnce, LeaveCall, Quit, serviceVars
<1>. QED
  BY <1>6, <1>7, <1>8

\* The one stop of the lifespan handler ends with the recording finalised or stuck.
LEMMA LifespanStops == ASSUME ThreadsInv, Stop(Lifespan) PROVE ThreadsInv'
<1>1. /\ Lifespan \in Threads /\ Lifespan \notin Handler
      /\ \A u \in Handler : u \in Threads \ {Lifespan}
  BY MicrophoneAssumption DEF Threads
<1>2. GoesOn(Lifespan) /\ level' = level
  BY <1>1, StopMoves
<1>3. at[Lifespan] # "idle" /\ server = "stopping" /\ server' = server
  BY DEF Stop, TakePreview, JoinStopped, JoinPreview, EnterStop, LeaveCall, Finalise,
         ThreadsInv, ShutInv, Quit, appVars
<1>4. \A u \in Handler : at'[u] = at[u] /\ at[u] = "idle"
  BY <1>1, <1>2, <1>3 DEF GoesOn, ThreadsInv, ShutInv
<1>5. at'[Lifespan] \in {"idle", "leave"} => Left'
  <2>1. CASE TakePreview(Lifespan) \/ JoinStopped(Lifespan)
    <3>1. PICK step \in {"finalise", "join"} : StepTo(Lifespan, step)
      BY <2>1 DEF TakePreview, JoinStopped, JoinPreview
    <3>. QED
      BY <1>1, <3>1, GoMoves
  <2>2. CASE EnterStop(Lifespan)
    <3>1. active' = active /\ StepTo(Lifespan, IF Stoppable THEN "drain" ELSE "leave")
      BY <2>2 DEF EnterStop
    <3>2. ~Stoppable => Left'
      BY <3>1 DEF Stoppable, Left
    <3>. QED
      BY <1>1, <3>1, <3>2, GoMoves
  <2>3. CASE LeaveCall(Lifespan)
    BY <1>3, <2>3 DEF LeaveCall, Quit, ThreadsInv, ShutInv, Left
  <2>4. CASE Finalise(Lifespan)
    <3>1. active = NoRecording \/ "stuck" \in DOMAIN active
      BY DEF ThreadsInv
    <3>. QED
      BY <2>4, <3>1 DEF Finalise, Left, NoRecording
  <2>. QED
    BY <2>1, <2>2, <2>3, <2>4 DEF Stop
<1>6. active' # NoRecording => "stuck" \in DOMAIN active'
  BY <1>1, ActiveIsARecord
<1>. QED
  BY <1>2, <1>3, <1>4, <1>5, <1>6 DEF GoesOn, ThreadsInv, ShutInv

LEMMA NextThreads == ASSUME ThreadsInv, [MicrophoneNext]_microphoneVars PROVE ThreadsInv'
<1>1. ASSUME NEW t \in Handler, Serve(t) \/ Stop(t) PROVE ThreadsInv'
  <2>0. t \in Threads
    BY DEF Threads
  <2>1. CASE Measure(t)
    <3>1. UNCHANGED <<at, dev, server, active>> /\ at[t] \in {"calibrate", "speak"}
      BY <2>1 DEF Measure, appVars
    <3>. QED
      BY <3>1 DEF ThreadsInv, ShutInv, Left
  <2>2. CASE \E i \in DOMAIN list : SelectDevice(t, i)
    BY <2>2 DEF SelectDevice, serviceVars, threadVars, ThreadsInv, ShutInv, Left
  <2>3. CASE \/ Start(t) \/ Calibrate(t) \/ OpenTest(t) \/ VoiceCheck(t) \/ Stop(t)
             \/ Request(t, "stop")
    BY <2>0, <2>3, StartMoves, StopMoves, MeterMoves, ActiveIsARecord, StepGoesOn
  <2>. QED
    BY <1>1, <2>1, <2>2, <2>3 DEF Serve
<1>2. CASE Stop(Lifespan)
  BY <1>2, LifespanStops
<1>3. CASE RecordBlock \/ (\E p \in Preview : WorkerStep(p) /\ Alone) \/ UNCHANGED microphoneVars
  BY <1>3
     DEF RecordBlock, Alone, microphoneVars, serviceVars, threadVars, appVars, ThreadsInv,
         ShutInv, Left
<1>4. CASE CloseWindow
  BY <1>4 DEF CloseWindow, serviceVars, threadVars, ThreadsInv, ShutInv, Left
<1>5. CASE ShutDown
  <2>0. /\ Lifespan \in Threads /\ Lifespan \notin Handler
        /\ \A u \in Handler : u \in Threads \ {Lifespan}
    BY MicrophoneAssumption DEF Threads
  <2>1. UNCHANGED <<dev, active, level>> /\ \A u \in Handler : at[u] = "idle"
    BY <1>5 DEF ShutDown, serviceVars
  <2>2. CASE server = "closing" /\ active # NoRecording
    <3>1. server' = "stopping" /\ StepTo(Lifespan, "stop")
      BY <1>5, <2>2 DEF ShutDown
    <3>2. /\ DOMAIN at' = Threads /\ at'[Lifespan] = "stop"
          /\ \A u \in Handler : at'[u] = at[u]
      BY <2>0, <3>1, GoMoves DEF ThreadsInv
    <3>. QED
      BY <2>1, <3>1, <3>2 DEF ThreadsInv, ShutInv
  <2>3. CASE ~(server = "closing" /\ active # NoRecording)
    <3>1. server' = "finished" /\ at' = at
      BY <1>5, <2>3 DEF ShutDown
    <3>2. \/ server = "closing" /\ active = NoRecording
          \/ server = "stopping" /\ at[Lifespan] = "idle"
      BY <1>5, <2>3 DEF ShutDown
    <3>3. at[Lifespan] = "idle" /\ Left
      BY <3>2 DEF ThreadsInv, ShutInv, Left
    <3>. QED
      BY <2>1, <3>1, <3>3 DEF ThreadsInv, ShutInv, Left
  <2>. QED
    BY <2>2, <2>3
<1>6. CASE Exit
  <2>1. Lifespan \in Threads /\ \A u \in Handler : u \in Threads
    BY DEF Threads
  <2>. QED
    BY <1>6, <2>1 DEF Exit, NothingYet, ThreadsInv, ShutInv
<1>7. CASE Launch
  BY <1>7 DEF Launch, serviceVars, threadVars, ThreadsInv, ShutInv, Left
<1>8. CASE RoomChanges \/ DatabaseChanges
  BY <1>8
     DEF RoomChanges, DatabaseChanges, serviceVars, threadVars, ThreadsInv, ShutInv, Left
<1>. QED
  BY <1>1, <1>2, <1>3, <1>4, <1>5, <1>6, <1>7, <1>8 DEF MicrophoneNext, Threads

-----------------------------------------------------------------------------
(* The microphone: which device a stream is opened on *)

LEMMA LeastNumber ==
  ASSUME NEW I, I \subseteq Nat, I # {} PROVE \E n \in I : \A m \in I : n <= m
<1>1. PICK n \in I : \A m \in I : ~(<<m, n>> \in OpToRel(<, Nat))
  BY NatLessThanWellFounded, WFMin
<1>2. \A m \in I : ~(m < n)
  BY <1>1 DEF OpToRel
<1>. QED
  BY <1>2

\* Whichever device a choice resolves to has the fingerprint that was chosen, if the
\* choice is read, and is the default one if it is not.
LEMMA ResolvedIsChosen ==
  ASSUME list \in Lists, selection.fingerprint # Nobody, Resolved # NoDevice
  PROVE  IF ready THEN Fingerprint(list[Resolved]) = selection.fingerprint
         ELSE Resolved = DefaultInput(list, endpoints)
<1>. DEFINE same == {i \in DOMAIN list : Fingerprint(list[i]) = selection.fingerprint}
            first == FindByFingerprint(list, selection.fingerprint)
<1>1. CASE ~ready
  BY <1>1 DEF Resolved, ResolveDevice, NotChosen
<1>2. CASE ready
  <2>1. first = IF same = {} THEN NoDevice ELSE CHOOSE i \in same : \A j \in same : i <= j
    BY DEF FindByFingerprint
  <2>2. Resolved = IF first \in UsableIn(list, endpoints) THEN first ELSE NoDevice
    BY <1>2 DEF Resolved, ResolveDevice, ResolveSelection
  <2>3. Resolved = first /\ same # {}
    BY <2>1, <2>2
  <2>4. same \subseteq Nat
    BY MicrophoneAssumption
  <2>. HIDE DEF same
  <2>5. first \in same
    <3>1. \E i \in same : \A j \in same : i <= j
      BY <2>3, <2>4, LeastNumber
    <3>. QED
      BY <2>1, <2>3, <3>1
  <2>. QED
    BY <1>2, <2>3, <2>5 DEF same
<1>. QED
  BY <1>1, <1>2

ListInv == list \in Lists /\ DOMAIN dev = Threads

\* A thread gets a device from Resolve alone.
DeviceOf(t) ==
    \/ UNCHANGED dev
    \/ dev' = [dev EXCEPT ![t] = NoDevice]
    \/ Resolved # NoDevice /\ dev' = [dev EXCEPT ![t] = Resolved]

LEMMA ThreadsTakeTheirDevice ==
  ASSUME NEW t, Serve(t) \/ Stop(t) PROVE DeviceOf(t) /\ UNCHANGED list
<1>1. ASSUME NEW from, NEW to, Resolve(t, from, to) PROVE DeviceOf(t) /\ UNCHANGED list
  BY <1>1 DEF Resolve, DeviceOf, Quit, EndRequest, deviceVars
<1>2. CASE Quit(t) \/ OpenRecording(t) \/ Finalise(t)
  BY <1>2 DEF Quit, OpenRecording, Finalise, EndRequest, DeviceOf, deviceVars
<1>3. CASE Start(t)
  BY <1>1, <1>2, <1>3
     DEF Start, Request, EnterStart, LeaveCall, Preflight, RoomFit, ResolveAgain,
         BeginPreview, DeviceOf, deviceVars, threadVars
<1>4. CASE Stop(t)
  BY <1>2, <1>4
     DEF Stop, TakePreview, JoinStopped, JoinPreview, EnterStop, LeaveCall, DeviceOf, deviceVars
<1>5. CASE Request(t, "stop") \/ Calibrate(t) \/ OpenTest(t)
  BY <1>1, <1>5 DEF Request, Calibrate, OpenTest, OpenMeter, CloseMeter, DeviceOf, deviceVars
<1>6. CASE VoiceCheck(t)
  BY <1>1, <1>6
     DEF VoiceCheck, Request, EnterVoiceCheck, BeginPreview, OpenMeter, CloseMeter,
         EndVoicePreview, JoinVoice, JoinPreview, DecodeOnce, DeviceOf, deviceVars
<1>7. CASE Measure(t) \/ \E i \in DOMAIN list : SelectDevice(t, i)
  BY <1>7 DEF Measure, SelectDevice, DeviceOf, deviceVars, threadVars
<1>. QED
  BY <1>3, <1>4, <1>5, <1>6, <1>7 DEF Serve

LEMMA OthersTakeNoDevice ==
  ASSUME ListInv,
         \/ RecordBlock \/ CloseWindow \/ ShutDown \/ Launch \/ Exit
         \/ RoomChanges \/ DatabaseChanges
         \/ (\E p \in Preview : WorkerStep(p) /\ Alone) \/ UNCHANGED microphoneVars
  PROVE  ListInv' /\ \A t \in Threads : dev'[t] \in {NoDevice, dev[t]}
<1>1. CASE Exit
  BY <1>1 DEF Exit, NothingYet, ListInv, deviceVars
<1>2. CASE Launch
  BY <1>2 DEF Launch, ListInv, threadVars
<1>3. CASE RecordBlock \/ CloseWindow \/ ShutDown \/ RoomChanges \/ DatabaseChanges
  BY <1>3
     DEF RecordBlock, CloseWindow, ShutDown, RoomChanges, DatabaseChanges, ListInv,
         deviceVars, threadVars
<1>4. CASE (\E p \in Preview : WorkerStep(p) /\ Alone) \/ UNCHANGED microphoneVars
  BY <1>4 DEF Alone, microphoneVars, ListInv, deviceVars, threadVars
<1>. QED
  BY <1>1, <1>2, <1>3, <1>4

LEMMA NextChoosesDevice ==
  ASSUME ListInv, [MicrophoneNext]_microphoneVars
  PROVE  /\ ListInv'
         /\ \A t \in Threads :
                \/ dev'[t] \in {NoDevice, dev[t]}
                \/ Resolved # NoDevice /\ dev'[t] = Resolved
<1>1. ASSUME NEW t \in Threads, Serve(t) \/ Stop(t)
      PROVE  /\ ListInv'
             /\ \A u \in Threads :
                    \/ dev'[u] \in {NoDevice, dev[u]}
                    \/ Resolved # NoDevice /\ dev'[u] = Resolved
  <2>1. DeviceOf(t) /\ list' = list
    BY <1>1, ThreadsTakeTheirDevice
  <2>. QED
    BY <2>1 DEF DeviceOf, ListInv
<1>. QED
  BY <1>1, OthersTakeNoDevice DEF MicrophoneNext, Threads

-----------------------------------------------------------------------------
(* The microphone: its invariant and what follows *)

MicrophoneInv == PreviewInv /\ ThreadsInv /\ ListInv

LEMMA InitMicrophone == MicrophoneInit => MicrophoneInv
<1>1. MicrophoneInit => PreviewInv
  BY NewPreviewCounts DEF MicrophoneInit, PreviewInit, PreviewInv, Counted
<1>2. MicrophoneInit => ThreadsInv
  BY DEF MicrophoneInit, NothingYet, ThreadsInv, ShutInv, Threads
<1>3. MicrophoneInit => ListInv
  BY DEF MicrophoneInit, NothingYet, ListInv
<1>. QED
  BY <1>1, <1>2, <1>3 DEF MicrophoneInv

LEMMA MicrophoneInvariance == MicrophoneSpec => []MicrophoneInv
<1>1. MicrophoneInv /\ [MicrophoneNext]_microphoneVars => MicrophoneInv'
  BY NextCounts, NextThreads, NextChoosesDevice DEF MicrophoneInv
<1>. QED
  BY <1>1, InitMicrophone, PTL DEF MicrophoneSpec

\* The level on the screen moves only while a microphone is being measured, and the
\* audio queued for a preview is what its counter says and within its budget.
THEOREM LiveStaysBounded == MicrophoneSpec => []LiveIsBounded
<1>1. MicrophoneInv => LevelIsLive
  BY DEF MicrophoneInv, ThreadsInv, LevelIsLive
<1>2. MicrophoneInv => QueueIsCounted
  BY DEF MicrophoneInv, PreviewInv, Counted, QueueIsCounted, Blocks, BlocksOf
<1>. QED
  BY <1>1, <1>2, MicrophoneInvariance, PTL DEF LiveIsBounded

\* When the server's thread ends, a recording that was in progress is finalised, or a
\* stop of it has failed, by the handler's one call or before.
THEOREM ShutDownTriesOnce == MicrophoneSpec => []LeftAfterFailedStop
<1>1. MicrophoneInv => LeftAfterFailedStop
  BY DEF MicrophoneInv, ThreadsInv, ShutInv, Left, LeftAfterFailedStop
<1>. QED
  BY <1>1, MicrophoneInvariance, PTL

\* Whatever the devices were when the operator chose one, in this process or in an
\* earlier one, a stream is opened on the device chosen and on no other as long as the
\* choice can be read; when it cannot, on the default one.
THEOREM OnlyTheChosenDevice == MicrophoneSpec => ChosenIfRead
<1>. DEFINE Fit == \A t \in Handler :
                TakesDevice(t) => IF ready THEN Fingerprint(list[dev'[t]]) = selection.fingerprint
                                  ELSE dev'[t] = DefaultInput(list, endpoints)
<1>1. ASSUME MicrophoneInv, [MicrophoneNext]_microphoneVars PROVE [Fit]_microphoneVars
  <2>1. list \in Lists /\ \A t \in Threads : \/ dev'[t] \in {NoDevice, dev[t]}
                                             \/ Resolved # NoDevice /\ dev'[t] = Resolved
    BY <1>1, NextChoosesDevice DEF MicrophoneInv, ListInv
  <2>. QED
    BY <2>1, ResolvedIsChosen DEF Threads, TakesDevice
<1>. QED
  BY <1>1, MicrophoneInvariance, PTL DEF MicrophoneSpec, ChosenIfRead

-----------------------------------------------------------------------------
(* The models: types *)

LEMMA CallerKeepsTypes ==
  ASSUME WorkerTypeOK, NEW c \in Caller, NEW wanted,
         StartWorker(c) \/ CallerStep(c, wanted) \/ Return(c)
  PROVE  WorkerTypeOK'
<1>. USE DEF WorkerTypeOK, Go, Learn, Answers
<1>1. CASE StartWorker(c)
  BY <1>1 DEF StartWorker
<1>2. CASE Receive(c)
  BY <1>2 DEF Receive
<1>3. CASE WaitInVain(c, wanted)
  <2>1. call' \in [Caller -> {"none", "get", "look", "close"}] /\ UNCHANGED <<child, pipe, message>>
    BY <1>3 DEF WaitInVain
  <2>2. CASE UNCHANGED <<asked, grace, late>>
    BY <2>1, <2>2
  <2>3. CASE /\ asked' = [asked EXCEPT ![c] = TRUE]
             /\ grace' = [grace EXCEPT ![c] = "running"]
             /\ late' = [late EXCEPT ![c] = FALSE]
    BY <2>1, <2>3
  <2>. QED
    BY <1>3, <2>2, <2>3 DEF WaitInVain
<1>4. CASE FindDead(c)
  BY <1>4 DEF FindDead
<1>5. CASE FindAlive(c)
  <2>1. CASE grace[c] = "over"
    <3>1. /\ child' = [child EXCEPT ![c] = "dead"] /\ Learn(c, "terminated")
          /\ UNCHANGED <<pipe, asked>>
      BY <1>5, <2>1, Zenon DEF FindAlive
    <3>. QED
      BY <3>1
  <2>2. CASE grace[c] # "over"
    BY <1>5, <2>2 DEF FindAlive
  <2>. QED
    BY <2>1, <2>2
<1>6. CASE Return(c)
  BY <1>6 DEF Return
<1>. QED
  BY <1>1, <1>2, <1>3, <1>4, <1>5, <1>6 DEF CallerStep

LEMMA EnvironmentKeepsTypes ==
  ASSUME WorkerTypeOK, NEW c \in Caller, Environment(c)
  PROVE  WorkerTypeOK'
<1>. USE DEF WorkerTypeOK
<1>1. CASE ChildAnswers(c)
  <2>1. PICK a \in Answers : pipe' = [pipe EXCEPT ![c] = a]
    BY <1>1 DEF ChildAnswers, Answers
  <2>. QED
    BY <1>1, <2>1 DEF ChildAnswers
<1>2. CASE ChildEnds(c)
  BY <1>2 DEF ChildEnds
<1>3. CASE BudgetEnds(c) \/ GraceEnds(c)
  BY <1>3 DEF BudgetEnds, GraceEnds
<1>. QED
  BY <1>1, <1>2, <1>3 DEF Environment, Clock

LEMMA StepKeepsTypes ==
  ASSUME TypeOK, NEW t \in Thread, ThreadStep(t) \/ Surroundings(t)
  PROVE  TypeOK'
<1>. USE DEF TypeOK, Move, Thread, workerVars, slotVars, flagVars, runVars
<1>u. UNCHANGED workerVars => WorkerTypeOK'
  BY DEF WorkerTypeOK
<1>0. MaxCalls \in Nat
  BY HeavyAssumption
<1>1. CASE ClaimSlot(t)
  <2>1. CASE Refuse(t)
    BY <1>u, <2>1 DEF Refuse
  <2>2. CASE Begin(t) /\ current' = {t}
             /\ cancelled' = [cancelled EXCEPT ![t] = FALSE] /\ UNCHANGED flagVars
    BY <1>u, <1>0, <2>2 DEF Begin
  <2>. QED
    BY <1>1, <2>1, <2>2 DEF ClaimSlot
<1>2. CASE ClaimFlag(t)
  <2>1. CASE Refuse(t)
    BY <1>u, <2>1 DEF Refuse
  <2>2. CASE Begin(t) /\ running' = TRUE /\ momCancel' = FALSE
             /\ UNCHANGED <<slotVars, asking>>
    <3>1. running' \in BOOLEAN /\ momCancel' \in BOOLEAN
      BY <2>2, Zenon
    <3>. QED
      BY <1>u, <1>0, <2>2, <3>1 DEF Begin
  <2>. QED
    BY <1>2, <2>1, <2>2 DEF ClaimFlag
<1>3. CASE BeginCall(t)
  BY <1>0, <1>3, CallerKeepsTypes DEF BeginCall
<1>4. CASE WaitForCall(t)
  BY <1>4, CallerKeepsTypes DEF WaitForCall
<1>5. CASE EndCall(t) \/ EndPrompts(t)
  BY <1>5, CallerKeepsTypes DEF EndCall, EndPrompts, AfterCall
<1>6. CASE EndRun(t)
  BY <1>u, <1>6 DEF EndRun
<1>7. CASE ReleaseSlot(t)
  BY <1>u, <1>0, <1>7 DEF ReleaseSlot, Leave
<1>8. CASE ReleaseFlag(t)
  <2>1. running' \in BOOLEAN /\ momCancel' \in BOOLEAN
    BY <1>8, Zenon DEF ReleaseFlag
  <2>. QED
    BY <1>u, <1>0, <1>8, <2>1 DEF ReleaseFlag, Leave
<1>9. CASE Surroundings(t)
  BY <1>9, EnvironmentKeepsTypes DEF Surroundings
<1>. QED
  BY <1>1, <1>2, <1>3, <1>4, <1>5, <1>6, <1>7, <1>8, <1>9 DEF ThreadStep

\* Every handle, flag, child process and queue keeps to the values the code gives it.
THEOREM HeavyTyped == Spec => []TypeOK
<1>1. Init => TypeOK
  <2> SUFFICES ASSUME Init PROVE TypeOK
    OBVIOUS
  <2>1. WorkerTypeOK
    BY DEF Init, WorkerInit, WorkerTypeOK
  <2>2. running \in BOOLEAN /\ momCancel \in BOOLEAN /\ asking \in BOOLEAN
    BY Zenon DEF Init
  <2>. QED
    BY <2>1, <2>2, HeavyAssumption DEF Init, TypeOK, Thread
<1>2. TypeOK /\ [Next]_vars => TypeOK'
  <2> SUFFICES ASSUME TypeOK, [Next]_vars PROVE TypeOK'
    OBVIOUS
  <2>. USE DEF workerVars, slotVars, flagVars, runVars
  <2>u. UNCHANGED workerVars => WorkerTypeOK'
    BY DEF TypeOK, WorkerTypeOK
  <2>1. CASE UNCHANGED vars
    BY <2>u, <2>1 DEF TypeOK, vars
  <2>2. ASSUME NEW t \in Thread, NEW k \in {"asr", "mom"}, Ask(t, k) PROVE TypeOK'
    BY <2>u, <2>2 DEF Ask, Move, TypeOK
  <2>3. ASSUME NEW t \in Thread, ThreadStep(t) \/ Surroundings(t) PROVE TypeOK'
    BY <2>3, StepKeepsTypes
  <2>4. CASE CancelTranscription \/ AskCancelMinutes \/ CancelMinutes
    BY <2>u, <2>4 DEF CancelTranscription, AskCancelMinutes, CancelMinutes, TypeOK
  <2>. QED
    BY <2>1, <2>2, <2>3, <2>4 DEF Next
<1>. QED
  BY <1>1, <1>2, PTL DEF Spec

-----------------------------------------------------------------------------
(* The models: a call and its child *)

\* A child is there only inside a call, the caller knows something only as it closes,
\* and what it gives up as lost was never sent and can no longer be.
CallFits(c) ==
    /\ call[c] = "none" => child[c] = "none" /\ pipe[c] = "empty"
    /\ call[c] # "close" => message[c] = "none"
    /\ message[c] = "lost" => ~Alive(c) /\ pipe[c] = "empty"

CallInv == \A c \in Caller : CallFits(c)

LEMMA CallerKeepsFit ==
  ASSUME WorkerTypeOK, CallInv, NEW c \in Caller, NEW wanted,
         StartWorker(c) \/ CallerStep(c, wanted) \/ Return(c)
  PROVE  CallInv'
<1>0. CallFits(c)
  BY DEF CallInv
<1>. USE <1>0 DEF WorkerTypeOK, CallFits, At, Go, Learn, Alive
<1>1. ASSUME NEW d \in Caller, d # c PROVE CallFits(d)'
  <2>1. CallFits(d)
    BY DEF CallInv
  <2>2. /\ call'[d] = call[d] /\ child'[d] = child[d] /\ pipe'[d] = pipe[d]
        /\ message'[d] = message[d]
    BY <1>1 DEF CallerStep, StartWorker, Receive, WaitInVain, FindDead, FindAlive, Return
  <2>. QED
    BY <2>1, <2>2
<1>2. CallFits(c)'
  <2>1. CASE StartWorker(c)
    BY <2>1 DEF StartWorker
  <2>2. CASE Receive(c)
    <3>1. pipe[c] # "lost"
      BY DEF Answers
    <3>. QED
      BY <2>2, <3>1 DEF Receive
  <2>3. CASE WaitInVain(c, wanted)
    BY <2>3 DEF WaitInVain
  <2>4. CASE FindDead(c)
    BY <2>4 DEF FindDead
  <2>5. CASE FindAlive(c)
    BY <2>5 DEF FindAlive
  <2>6. CASE Return(c)
    BY <2>6 DEF Return
  <2>. QED
    BY <2>1, <2>2, <2>3, <2>4, <2>5, <2>6 DEF CallerStep
<1>. QED
  BY <1>1, <1>2 DEF CallInv

LEMMA EnvironmentKeepsFit ==
  ASSUME WorkerTypeOK, CallInv, NEW c \in Caller, Environment(c)
  PROVE  CallInv'
<1> SUFFICES ASSUME NEW d \in Caller PROVE CallFits(d)'
  BY DEF CallInv
<1>1. CallFits(d)
  BY DEF CallInv
<1>. USE <1>1 DEF WorkerTypeOK, CallFits, Alive
<1>2. CASE ChildAnswers(c)
  BY <1>2 DEF ChildAnswers
<1>3. CASE ChildEnds(c)
  BY <1>3 DEF ChildEnds
<1>4. CASE Clock(c)
  BY <1>4 DEF Clock, BudgetEnds, GraceEnds
<1>. QED
  BY <1>2, <1>3, <1>4 DEF Environment

-----------------------------------------------------------------------------
(* The models: the flag of the minutes *)

Holds(t) == kind[t] = "mom" /\ pc[t] \in {"run", "call", "release"}

\* The strengthening of OneMinutesRun: the flag is up for the whole time a run may
\* still put it down, and a model call belongs to a run that is waiting for it.
FlagInv ==
    /\ \A t, u \in Thread : Holds(t) /\ Holds(u) => t = u
    /\ \A t \in Thread : Holds(t) => running
    /\ \A t \in Thread : call[t] # "none" => pc[t] = "call"

HeavyInv == CallInv /\ FlagInv

\* Nothing but the flag's holders may matter to it.
LEMMA OtherThreadsStay ==
  ASSUME TypeOK, NEW t \in Thread, ThreadStep(t) \/ Surroundings(t),
         NEW u \in Thread, u # t
  PROVE  pc'[u] = pc[u] /\ kind'[u] = kind[u] /\ call'[u] = call[u]
<1>. USE DEF TypeOK, WorkerTypeOK, Thread, workerVars, runVars, Move, Go, Learn
<1>1. CASE ClaimSlot(t) \/ ClaimFlag(t)
  BY <1>1 DEF ClaimSlot, ClaimFlag, Refuse, Begin
<1>2. CASE BeginCall(t) \/ EndCall(t) \/ EndPrompts(t)
  BY <1>2 DEF BeginCall, StartWorker, EndCall, EndPrompts, AfterCall, Return
<1>3. CASE WaitForCall(t)
  BY <1>3 DEF WaitForCall, CallerStep, Receive, WaitInVain, FindDead, FindAlive
<1>4. CASE EndRun(t) \/ ReleaseSlot(t) \/ ReleaseFlag(t)
  BY <1>4 DEF EndRun, ReleaseSlot, ReleaseFlag, Leave
<1>5. CASE Surroundings(t)
  BY <1>5 DEF Surroundings, Environment, Clock, ChildAnswers, ChildEnds, BudgetEnds,
              GraceEnds
<1>. QED
  BY <1>1, <1>2, <1>3, <1>4, <1>5 DEF ThreadStep

LEMMA ThreadKeepsFlag ==
  ASSUME TypeOK, FlagInv, NEW t \in Thread, ThreadStep(t) \/ Surroundings(t)
  PROVE  FlagInv'
<1>0. /\ pc \in [Thread -> {"idle", "claim", "run", "call", "release"}]
      /\ kind \in [Thread -> {"none", "asr", "mom"}]
      /\ call \in [Thread -> {"none", "get", "look", "close"}]
  BY DEF TypeOK, WorkerTypeOK, Thread
<1>1. call'[t] # "none" => pc'[t] = "call"
  <2>1. CASE ClaimSlot(t) \/ ClaimFlag(t) \/ EndRun(t) \/ ReleaseSlot(t) \/ ReleaseFlag(t)
    BY <1>0, <2>1 DEF FlagInv, ClaimSlot, ClaimFlag, Refuse, Begin, EndRun, ReleaseSlot,
                      ReleaseFlag, Leave, workerVars
  <2>2. CASE BeginCall(t)
    BY <1>0, <2>2 DEF BeginCall, Move
  <2>3. CASE WaitForCall(t)
    BY <1>0, <2>3 DEF FlagInv, WaitForCall, CallerStep, Receive, WaitInVain, FindDead,
                      FindAlive, At, runVars
  <2>4. CASE EndCall(t) \/ EndPrompts(t)
    BY <1>0, <2>4 DEF EndCall, EndPrompts, AfterCall, Return, Go
  <2>5. CASE Surroundings(t)
    BY <1>0, <2>5 DEF FlagInv, Surroundings, Environment, Clock, ChildAnswers, ChildEnds,
                      BudgetEnds, GraceEnds, runVars
  <2>. QED
    BY <2>1, <2>2, <2>3, <2>4, <2>5 DEF ThreadStep
<1>2. \/ ~running /\ running'
      \/ Holds(t)' => Holds(t)
  <2>1. CASE ClaimSlot(t)
    BY <1>0, <2>1 DEF ClaimSlot, Refuse, Begin, Move, Holds
  <2>2. CASE ClaimFlag(t)
    BY <1>0, <2>2 DEF ClaimFlag, Refuse, Begin, Move, Holds
  <2>3. CASE EndCall(t) \/ EndPrompts(t)
    BY <1>0, <2>3 DEF FlagInv, EndCall, EndPrompts, AfterCall, Return, At, Holds, Move
  <2>4. CASE BeginCall(t) \/ WaitForCall(t) \/ EndRun(t) \/ Surroundings(t)
    BY <1>0, <2>4 DEF BeginCall, WaitForCall, EndRun, Surroundings, runVars, Move, Holds
  <2>5. CASE ReleaseSlot(t) \/ ReleaseFlag(t)
    BY <1>0, <2>5 DEF ReleaseSlot, ReleaseFlag, Leave, Move, Holds
  <2>. QED
    BY <2>1, <2>2, <2>3, <2>4, <2>5 DEF ThreadStep
<1>3. running' = running \/ running' \/ (Holds(t) /\ ~Holds(t)')
  BY <1>0 DEF ThreadStep, Surroundings, ClaimSlot, ClaimFlag, Refuse, Begin, BeginCall,
     WaitForCall, EndCall, EndPrompts, AfterCall, EndRun, ReleaseSlot, ReleaseFlag, Leave,
     Move, Holds, flagVars
<1>4. ASSUME NEW u \in Thread, u # t
      PROVE  (Holds(u)' <=> Holds(u)) /\ (call'[u] # "none" => pc'[u] = "call")
  BY <1>4, OtherThreadsStay DEF Holds, FlagInv
<1>5. \A u \in Thread : call'[u] # "none" => pc'[u] = "call"
  BY <1>1, <1>4
<1>6. \A u \in Thread : Holds(u)' => running'
  BY <1>2, <1>3, <1>4 DEF FlagInv
<1>7. \A u, v \in Thread : Holds(u)' /\ Holds(v)' => u = v
  BY <1>2, <1>4 DEF FlagInv
<1>. QED
  BY <1>5, <1>6, <1>7 DEF FlagInv

LEMMA HeavyInvariance == Spec => []HeavyInv
<1>1. Init => HeavyInv
  BY DEF Init, WorkerInit, HeavyInv, CallInv, CallFits, FlagInv, Holds, Thread, Alive
<1>2. TypeOK /\ HeavyInv /\ [Next]_vars => HeavyInv'
  <2> SUFFICES ASSUME TypeOK, HeavyInv, [Next]_vars PROVE HeavyInv'
    OBVIOUS
  <2>. USE DEF workerVars
  <2>0. WorkerTypeOK
    BY DEF TypeOK
  <2>1. UNCHANGED workerVars => CallInv'
    BY DEF HeavyInv, CallInv, CallFits, Alive
  <2>2. CASE UNCHANGED vars
    BY <2>1, <2>2 DEF vars, runVars, flagVars, HeavyInv, FlagInv, Holds
  <2>3. ASSUME NEW t \in Thread, NEW k \in {"asr", "mom"}, Ask(t, k) PROVE HeavyInv'
    <3>1. FlagInv'
      BY <2>3 DEF HeavyInv, FlagInv, Holds, Ask, Move, flagVars, TypeOK
    <3>. QED
      BY <2>1, <2>3, <3>1 DEF Ask, HeavyInv
  <2>4. ASSUME NEW t \in Thread, ThreadStep(t) \/ Surroundings(t) PROVE HeavyInv'
    <3>1. \/ UNCHANGED workerVars \/ StartWorker(t) \/ Return(t) \/ Environment(t)
          \/ \E wanted : CallerStep(t, wanted)
      BY <2>4 DEF ThreadStep, Surroundings, ClaimSlot, ClaimFlag, Refuse, Begin, BeginCall,
         WaitForCall, EndCall, EndPrompts, AfterCall, EndRun, ReleaseSlot, ReleaseFlag, Leave
    <3>2. CallInv'
      BY <2>0, <2>1, <3>1, CallerKeepsFit, EnvironmentKeepsFit DEF HeavyInv, Thread
    <3>3. FlagInv'
      BY <2>4, ThreadKeepsFlag DEF HeavyInv
    <3>. QED
      BY <3>2, <3>3 DEF HeavyInv
  <2>5. CASE CancelTranscription \/ AskCancelMinutes \/ CancelMinutes
    <3>1. UNCHANGED <<workerVars, runVars, running>>
      BY <2>5 DEF CancelTranscription, AskCancelMinutes, CancelMinutes, flagVars
    <3>2. FlagInv'
      BY <3>1 DEF runVars, HeavyInv, FlagInv, Holds
    <3>. QED
      BY <2>1, <3>1, <3>2 DEF HeavyInv
  <2>. QED
    BY <2>2, <2>3, <2>4, <2>5 DEF Next
<1>. QED
  BY <1>1, <1>2, HeavyTyped, PTL DEF Spec

-----------------------------------------------------------------------------
(* The models: what follows *)

\* However a child's last message, its death, a cancellation and the wall clock race,
\* run_in_worker never reports a worker without a result whose result was sent.
THEOREM AnswersAreNotLost == Spec => []NoAnswerLost
<1>1. HeavyInv => NoAnswerLost
  BY DEF HeavyInv, CallInv, CallFits, NoAnswerLost
<1>. QED
  BY <1>1, HeavyInvariance, PTL

\* A child process is alive only inside the call that spawned it, and the flag of the
\* minutes lets in one run at a time and stays up until that one ends.
THEOREM ModelsHaveARun == Spec => []WorkersAreOwned
<1>1. HeavyInv => NoOrphanWorker
  BY DEF HeavyInv, CallInv, CallFits, NoOrphanWorker, At, Alive
<1>2. HeavyInv => OneMinutesRun
  <2> SUFFICES ASSUME HeavyInv PROVE OneMinutesRun
    OBVIOUS
  <2>1. \A t, u \in InProgress("mom") : t = u
    BY DEF HeavyInv, FlagInv, Holds, InProgress
  <2>2. InProgress("mom") # {} => running
    BY DEF HeavyInv, FlagInv, Holds, InProgress
  <2>3. CASE InProgress("mom") = {}
    BY <2>2, <2>3, FS_EmptySet DEF OneMinutesRun
  <2>4. ASSUME NEW t \in InProgress("mom") PROVE OneMinutesRun
    <3>1. InProgress("mom") = {t}
      BY <2>1, <2>4
    <3>2. Cardinality(InProgress("mom")) = 1
      BY <3>1, FS_Singleton
    <3>. QED
      BY <2>2, <3>2 DEF OneMinutesRun
  <2>. QED
    BY <2>3, <2>4
<1>. QED
  BY <1>1, <1>2, HeavyInvariance, PTL DEF WorkersAreOwned
=============================================================================
