---------------------------- MODULE ModelWorker ----------------------------
(***************************************************************************)
(* run_in_worker of src/mom_igd/asr/worker.py: a caller that spawns a      *)
(* child process for one model call, polls a queue of one message, and     *)
(* watches a cancellation, a wall-clock budget and the child's life while  *)
(* it waits.  The child may finish, fail, die without a word, or hang.     *)
(*                                                                         *)
(* A message is in the pipe whole or not at all.  terminate ends a child.  *)
(* Clocks only move on: a budget may run out at any time of the call.      *)
(***************************************************************************)
CONSTANT Caller     \* threads that may have a model call in progress

VARIABLES
    call,           \* where run_in_worker is, "none" outside of it
    child,          \* the spawned process
    pipe,           \* result_queue
    message,        \* what the caller goes by, "none" until it has something
    asked,          \* cancel_requested, and with it cancel_flag
    late,           \* elapsed > timeout_seconds
    grace           \* cancel_deadline: "unset", "running" or "over"

workerVars == <<call, child, pipe, message, asked, late, grace>>

Answers == {"ok", "partial", "error"}

WorkerInit ==
    /\ call = [c \in Caller |-> "none"] /\ child = [c \in Caller |-> "none"]
    /\ pipe = [c \in Caller |-> "empty"] /\ message = [c \in Caller |-> "none"]
    /\ asked = [c \in Caller |-> FALSE] /\ late = [c \in Caller |-> FALSE]
    /\ grace = [c \in Caller |-> "unset"]

WorkerTypeOK ==
    /\ call \in [Caller -> {"none", "get", "look", "close"}]
    /\ child \in [Caller -> {"none", "working", "exiting", "dead"}]
    /\ pipe \in [Caller -> {"empty"} \cup Answers]
    /\ message \in [Caller -> {"none", "lost", "terminated"} \cup Answers]
    /\ asked \in [Caller -> BOOLEAN] /\ late \in [Caller -> BOOLEAN]
    /\ grace \in [Caller -> {"unset", "running", "over"}]

Alive(c) == child[c] \in {"working", "exiting"}
At(c, step) == call[c] = step
Go(c, step) == call' = [call EXCEPT ![c] = step]

\* The loop ends with a message, and the clocks do not matter any more.
Learn(c, m) ==
    /\ message' = [message EXCEPT ![c] = m] /\ Go(c, "close")
    /\ late' = [late EXCEPT ![c] = FALSE] /\ grace' = [grace EXCEPT ![c] = "unset"]

-----------------------------------------------------------------------------
(* The caller *)

StartWorker(c) ==
    /\ At(c, "none") /\ Go(c, "get")
    /\ child' = [child EXCEPT ![c] = "working"]
    /\ UNCHANGED <<pipe, message, asked, late, grace>>

\* The wait on the queue returns the message that is there ...
Receive(c) ==
    /\ At(c, "get") /\ pipe[c] # "empty" /\ Learn(c, pipe[c])
    /\ pipe' = [pipe EXCEPT ![c] = "empty"]
    /\ UNCHANGED <<child, asked>>

\* MUTANT: nobody looks at the wall clock.
WantsStopIgnoringClock(c, wanted) == wanted

WantsStop(c, wanted) == wanted \/ late[c]

\* ... or times out; then should_cancel and the wall-clock budget are looked at,
\* and the child is asked to stop, once, and given its 45 seconds.
WaitInVain(c, wanted) ==
    /\ At(c, "get") /\ pipe[c] = "empty" /\ Go(c, "look")
    /\ IF WantsStop(c, wanted) /\ ~asked[c]
         THEN /\ asked' = [asked EXCEPT ![c] = TRUE]
              /\ grace' = [grace EXCEPT ![c] = "running"]
              /\ late' = [late EXCEPT ![c] = FALSE]
         ELSE UNCHANGED <<asked, grace, late>>
    /\ UNCHANGED <<child, pipe, message>>

\* MUTANT: a dead child is given up on without a last look at the queue.
FindDeadAtOnce(c) ==
    /\ At(c, "look") /\ ~Alive(c) /\ Learn(c, "lost")
    /\ UNCHANGED <<child, asked, pipe>>

\* The child has died: one last look at the queue.
FindDead(c) ==
    /\ At(c, "look") /\ ~Alive(c)
    /\ Learn(c, IF pipe[c] = "empty" THEN "lost" ELSE pipe[c])
    /\ pipe' = [pipe EXCEPT ![c] = "empty"]
    /\ UNCHANGED <<child, asked>>

\* Cooperation did not come in time: the child is terminated, whatever it has
\* put on the queue meanwhile.
FindAlive(c) ==
    /\ At(c, "look") /\ Alive(c)
    /\ IF grace[c] = "over"
         THEN child' = [child EXCEPT ![c] = "dead"] /\ Learn(c, "terminated")
         ELSE Go(c, "get") /\ UNCHANGED <<child, message, late, grace>>
    /\ UNCHANGED <<pipe, asked>>

\* What run_in_worker returns or raises; a late or cancelled call that has no
\* result raises WorkerTimeout, one that has a result returns it all the same.
Outcome(c) ==
    IF message[c] \in {"ok", "partial"} THEN message[c]
    ELSE IF asked[c] \/ message[c] = "terminated" THEN "cancelled" ELSE "failed"

\* MUTANT: a child that is slow to exit is left behind.
ReturnAtOnce(c) ==
    /\ At(c, "close") /\ Go(c, "none")
    /\ child' = [child EXCEPT ![c] = IF Alive(c) THEN @ ELSE "none"]
    /\ pipe' = [pipe EXCEPT ![c] = "empty"] /\ message' = [message EXCEPT ![c] = "none"]
    /\ asked' = [asked EXCEPT ![c] = FALSE] /\ UNCHANGED <<late, grace>>

\* The finally block joins the child, or terminates it, and closes the queue.
Return(c) ==
    /\ At(c, "close") /\ Go(c, "none")
    /\ child' = [child EXCEPT ![c] = "none"]
    /\ pipe' = [pipe EXCEPT ![c] = "empty"] /\ message' = [message EXCEPT ![c] = "none"]
    /\ asked' = [asked EXCEPT ![c] = FALSE] /\ UNCHANGED <<late, grace>>

CallerStep(c, wanted) ==
    Receive(c) \/ WaitInVain(c, wanted) \/ FindDead(c) \/ FindAlive(c)

-----------------------------------------------------------------------------
(* The child and the clock *)

\* The task returns or raises, and exactly one message goes on the queue.  A
\* task that was asked to stop answers with what it has, or with an error.
ChildAnswers(c) ==
    /\ child[c] = "working" /\ child' = [child EXCEPT ![c] = "exiting"]
    /\ \E a \in IF asked[c] THEN Answers ELSE {"ok", "error"} :
          pipe' = [pipe EXCEPT ![c] = a]
    /\ UNCHANGED <<call, message, asked, late, grace>>

\* The process ends: after its answer, or killed by the system before.
ChildEnds(c) ==
    /\ Alive(c) /\ child' = [child EXCEPT ![c] = "dead"]
    /\ UNCHANGED <<call, pipe, message, asked, late, grace>>

BudgetEnds(c) ==
    /\ call[c] \in {"get", "look"} /\ ~asked[c] /\ ~late[c]
    /\ late' = [late EXCEPT ![c] = TRUE]
    /\ UNCHANGED <<call, child, pipe, message, asked, grace>>

GraceEnds(c) ==
    /\ grace[c] = "running" /\ grace' = [grace EXCEPT ![c] = "over"]
    /\ UNCHANGED <<call, child, pipe, message, asked, late>>

Clock(c) == BudgetEnds(c) \/ GraceEnds(c)
Environment(c) == ChildAnswers(c) \/ ChildEnds(c) \/ Clock(c)

-----------------------------------------------------------------------------
(* The child's death races the message it has put: the caller may report a    *)
(* worker that died without a result only if no message was left behind.      *)
NoAnswerLost == \A c \in Caller : message[c] = "lost" => pipe[c] = "empty"

(* No child outlives the call that spawned it: on every way out of            *)
(* run_in_worker the process has ended, so its model is out of memory.        *)
NoOrphanWorker == \A c \in Caller : At(c, "none") => ~Alive(c)
=============================================================================
