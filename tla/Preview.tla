------------------------------ MODULE Preview ------------------------------
(***************************************************************************)
(* LiveTranscriber of src/mom_igd/asr/live.py: a worker thread that loads  *)
(* a model and turns the blocks it is fed into preview text, while another *)
(* thread feeds it and a third may stop it.  One record for each preview;  *)
(* a preview is started once.  Audio is counted in blocks.                 *)
(***************************************************************************)
EXTENDS Integers, Sequences

CONSTANTS
    Preview,        \* bound: the previews of a run
    QueueBudget,    \* blocks the queue may hold
    Window,         \* blocks of a decoding window
    Overlap,        \* blocks of it that the next window repeats
    MaxFed          \* bound: blocks offered to one preview

ASSUME PreviewAssumption ==
    /\ Preview \subseteq Nat \ {0} /\ QueueBudget \in Nat /\ MaxFed \in Nat
    /\ Overlap \in Nat /\ Window \in Nat /\ Overlap < Window

VARIABLE preview

Block == 1          \* an entry of the queue: a block of one unit of audio
Sentinel == 0       \* None, which ends the worker

NoPreview == 0
Unused == [at |-> "none", thread |-> FALSE, stop |-> FALSE, running |-> FALSE, model |-> FALSE,
           queue |-> <<>>, queued |-> 0, pending |-> 0, fed |-> 0]

PreviewInit == preview = [p \in Preview |-> Unused]

PreviewTypeOK ==
    \A p \in Preview :
        /\ preview[p].at \in {"none", "load", "wait", "decode", "close", "ended"}
        /\ preview[p].queue \in Seq({Block, Sentinel})
        /\ preview[p].queued \in 0..QueueBudget /\ preview[p].pending \in Nat
        /\ \A b \in {"thread", "stop", "running", "model"} : preview[p][b] \in BOOLEAN

Working(p) == preview[p].at \notin {"none", "ended"}

-----------------------------------------------------------------------------
(* Called from outside: each is the state of one preview after the call. *)

Started(v) == [v EXCEPT !.at = "load", !.thread = TRUE, !.running = TRUE]

\* Never blocks: a block beyond the budget is dropped, and so is one for a
\* preview that is not running.
Fed(v) ==
    IF ~v.thread \/ v.queued + Block > QueueBudget THEN [v EXCEPT !.fed = @ + 1]
    ELSE [v EXCEPT !.fed = @ + 1, !.queued = @ + Block, !.queue = Append(@, Block)]

\* The first half of stop: ask, wake the worker, forget the thread.
Asked(v) ==
    IF v.thread
    THEN [v EXCEPT !.stop = TRUE, !.queue = Append(@, Sentinel), !.thread = FALSE]
    ELSE [v EXCEPT !.stop = TRUE]

\* The second half, when the worker has ended or eight seconds have passed.
Joined(v) == [v EXCEPT !.running = FALSE]

-----------------------------------------------------------------------------
(* The worker *)

Become(p, v) == preview' = [preview EXCEPT ![p] = v]

LoadModel(p) ==
    /\ preview[p].at = "load"
    /\ \/ Become(p, [preview[p] EXCEPT !.at = "wait", !.model = TRUE])
       \/ Become(p, [preview[p] EXCEPT !.at = "ended", !.running = FALSE])

\* MUTANT: a block that has been taken still counts against the budget.
TakeUncounted(p) ==
    LET v == preview[p] IN
    /\ v.at = "wait" /\ ~v.stop /\ v.queue # <<>>
    /\ IF Head(v.queue) = Sentinel THEN Become(p, [v EXCEPT !.at = "close"])
       ELSE Become(p, [v EXCEPT !.queue = Tail(@), !.pending = @ + Block,
                                !.at = IF v.pending + Block >= Window THEN "decode" ELSE "wait"])

Take(p) ==
    LET v == preview[p] IN
    /\ v.at = "wait" /\ ~v.stop /\ v.queue # <<>>
    /\ IF Head(v.queue) = Sentinel THEN Become(p, [v EXCEPT !.at = "close"])
       ELSE Become(p, [v EXCEPT !.queue = Tail(@), !.queued = @ - Block, !.pending = @ + Block,
                                !.at = IF v.pending + Block >= Window THEN "decode" ELSE "wait"])

\* Whether the window is silent, shows its text, or shows nothing because the filters
\* took the text for invented: the next one repeats its tail.
DecodeWindow(p) ==
    LET left == preview[p].pending - (Window - Overlap) IN
    /\ preview[p].at = "decode" /\ ~preview[p].stop
    /\ Become(p, [preview[p] EXCEPT !.pending = left,
                                    !.at = IF left >= Window THEN "decode" ELSE "wait"])

\* Between two blocks and between two windows.
SeeStop(p) ==
    /\ preview[p].at \in {"wait", "decode"} /\ preview[p].stop
    /\ Become(p, [preview[p] EXCEPT !.at = "close"])

CloseProvider(p) ==
    /\ preview[p].at = "close"
    /\ Become(p, [preview[p] EXCEPT !.at = "ended", !.model = FALSE])

WorkerStep(p) == LoadModel(p) \/ Take(p) \/ DecodeWindow(p) \/ SeeStop(p) \/ CloseProvider(p)
=============================================================================
