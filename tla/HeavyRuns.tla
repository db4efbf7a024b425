----------------------------- MODULE HeavyRuns -----------------------------
(***************************************************************************)
(* The heavy work of one server process: transcriptions behind the slot    *)
(* of AsrService (src/mom_igd/asr/service.py), minutes behind the flag of  *)
(* MinutesService (src/mom_igd/mom/service.py), each a series of model     *)
(* calls in ModelWorker.  Request handlers run on a pool of threads.       *)
(*                                                                         *)
(* The thread of a run stands for its handle.  Both services ask first,    *)
(* before any lock, whether a recording is active, and refuse if so: here  *)
(* a request that finds one is a request that is not made, and a recording *)
(* may start the moment after.                                             *)
(***************************************************************************)
EXTENDS ModelWorker, Naturals, FiniteSets

CONSTANTS
    MaxCalls        \* bound: model calls of a run (speech, pass 1, pass 2)

ASSUME HeavyAssumption == MaxCalls \in Nat \ {0}

VARIABLES
    pc,             \* where each thread is in transcribe or generate
    kind,           \* which of the two: "asr", "mom", or "none" when idle
    left,           \* model calls its run may still make
    current,        \* AsrService._current: {} or the thread of the handle
    cancelled,      \* handle.cancel_requested of the thread's run
    running,        \* MinutesService._running
    momCancel,      \* MinutesService._cancel
    asking          \* a request_cancel that has read _running and not yet set _cancel

slotVars == <<current, cancelled>>
flagVars == <<running, momCancel, asking>>
runVars == <<pc, kind, left>>
vars == <<workerVars, slotVars, flagVars, runVars>>

Thread == Caller

Init ==
    /\ WorkerInit
    /\ pc = [t \in Thread |-> "idle"] /\ kind = [t \in Thread |-> "none"]
    /\ left = [t \in Thread |-> 0]
    /\ current = {} /\ cancelled = [t \in Thread |-> FALSE]
    /\ running = FALSE /\ momCancel = FALSE /\ asking = FALSE

-----------------------------------------------------------------------------
Move(t, step) == pc' = [pc EXCEPT ![t] = step]
ShouldCancel(t) == IF kind[t] = "asr" THEN cancelled[t] ELSE momCancel

\* A request that found no recording active.
Ask(t, k) ==
    /\ pc[t] = "idle"
    /\ Move(t, "claim") /\ kind' = [kind EXCEPT ![t] = k]
    /\ UNCHANGED <<workerVars, slotVars, flagVars, left>>

Refuse(t) ==
    /\ Move(t, "idle") /\ kind' = [kind EXCEPT ![t] = "none"]
    /\ UNCHANGED <<workerVars, slotVars, flagVars, left>>

Begin(t) ==
    /\ Move(t, "run") /\ left' = [left EXCEPT ![t] = MaxCalls]
    /\ UNCHANGED <<workerVars, kind>>

\* A handle that has finished does not hold the slot.
SlotBusy == \E u \in current : pc[u] # "release"

ClaimSlot(t) ==
    /\ pc[t] = "claim" /\ kind[t] = "asr"
    /\ \/ SlotBusy /\ Refuse(t)
       \/ /\ ~SlotBusy /\ Begin(t)
          /\ current' = {t} /\ cancelled' = [cancelled EXCEPT ![t] = FALSE]
          /\ UNCHANGED flagVars

ClaimFlag(t) ==
    /\ pc[t] = "claim" /\ kind[t] = "mom"
    /\ \/ running /\ Refuse(t)
       \/ /\ ~running /\ Begin(t)
          /\ running' = TRUE /\ momCancel' = FALSE
          /\ UNCHANGED <<slotVars, asking>>

\* A stage of the pipeline: not begun once the run is cancelled.
BeginCall(t) ==
    /\ pc[t] = "run" /\ left[t] > 0 /\ ~ShouldCancel(t)
    /\ StartWorker(t) /\ left' = [left EXCEPT ![t] = @ - 1]
    /\ Move(t, "call")
    /\ UNCHANGED <<slotVars, flagVars, kind>>

WaitForCall(t) ==
    /\ CallerStep(t, ShouldCancel(t))
    /\ UNCHANGED <<slotVars, flagVars, runVars>>

AfterCall(t) ==
    /\ Return(t) /\ Move(t, IF Outcome(t) = "ok" THEN "run" ELSE "release")
    /\ UNCHANGED <<slotVars, flagVars, kind, left>>

\* A stage that did not return a whole result ends the run.
EndCall(t) == kind[t] = "asr" /\ AfterCall(t)

\* So does a batch of prompts; a worker that is too late counts as cancelled.
EndPrompts(t) == kind[t] = "mom" /\ AfterCall(t)

\* The run is over: complete, cancelled between stages, or failed in one that
\* needs no model.  For a transcription this is handle.finished = True.
EndRun(t) ==
    /\ pc[t] = "run" /\ Move(t, "release")
    /\ UNCHANGED <<workerVars, slotVars, flagVars, kind, left>>

Leave(t) ==
    /\ Move(t, "idle") /\ kind' = [kind EXCEPT ![t] = "none"]
    /\ left' = [left EXCEPT ![t] = 0]
    /\ UNCHANGED workerVars

\* The slot is emptied, whoever holds it by now.
ReleaseSlot(t) ==
    /\ pc[t] = "release" /\ kind[t] = "asr" /\ Leave(t)
    /\ current' = {} /\ cancelled' = [cancelled EXCEPT ![t] = FALSE]
    /\ UNCHANGED flagVars

ReleaseFlag(t) ==
    /\ pc[t] = "release" /\ kind[t] = "mom" /\ Leave(t)
    /\ running' = FALSE /\ momCancel' = FALSE
    /\ UNCHANGED <<slotVars, asking>>

-----------------------------------------------------------------------------
(* The operator cancels *)

\* AsrService.request_cancel: on the handle in the slot, under the lock.
CancelTranscription ==
    /\ SlotBusy /\ cancelled' = [t \in Thread |-> cancelled[t] \/ t \in current]
    /\ UNCHANGED <<workerVars, runVars, current, flagVars>>

\* MinutesService.request_cancel: reads _running, then sets _cancel.
AskCancelMinutes ==
    /\ running /\ ~asking /\ asking' = TRUE
    /\ UNCHANGED <<workerVars, runVars, slotVars, running, momCancel>>

CancelMinutes ==
    /\ asking /\ asking' = FALSE /\ momCancel' = TRUE
    /\ UNCHANGED <<workerVars, runVars, slotVars, running>>

-----------------------------------------------------------------------------
ThreadStep(t) ==
    \/ ClaimSlot(t) \/ ClaimFlag(t) \/ BeginCall(t) \/ WaitForCall(t)
    \/ EndCall(t) \/ EndPrompts(t) \/ EndRun(t) \/ ReleaseSlot(t) \/ ReleaseFlag(t)

Surroundings(t) ==
    Environment(t) /\ UNCHANGED <<runVars, slotVars, flagVars>>

Next ==
    \/ \E t \in Thread, k \in {"asr", "mom"} : Ask(t, k)
    \/ \E t \in Thread : ThreadStep(t) \/ Surroundings(t)
    \/ CancelTranscription \/ AskCancelMinutes \/ CancelMinutes

\* Threads are scheduled and clocks move on; nothing makes a child answer.
Fairness ==
    \A t \in Thread :
        /\ WF_vars(ThreadStep(t))
        /\ WF_vars(Clock(t) /\ UNCHANGED <<runVars, slotVars, flagVars>>)

Spec == Init /\ [][Next]_vars /\ Fairness

-----------------------------------------------------------------------------
TypeOK ==
    /\ WorkerTypeOK
    /\ pc \in [Thread -> {"idle", "claim", "run", "call", "release"}]
    /\ kind \in [Thread -> {"none", "asr", "mom"}] /\ left \in [Thread -> 0..MaxCalls]
    /\ current \subseteq Thread /\ cancelled \in [Thread -> BOOLEAN]
    /\ running \in BOOLEAN /\ momCancel \in BOOLEAN /\ asking \in BOOLEAN

InProgress(k) == {t \in Thread : kind[t] = k /\ pc[t] \in {"run", "call"}}

(* Two requests to write minutes never run together, and the flag a cancel    *)
(* goes by is up for as long as one does.                                     *)
OneMinutesRun ==
    /\ Cardinality(InProgress("mom")) <= 1
    /\ InProgress("mom") # {} => running

(* A model is only ever at work for a run that is in progress, and never for  *)
(* two minutes runs.                                                          *)
WorkersAreOwned == NoOrphanWorker /\ OneMinutesRun

(* Every transcription and every minutes run ends, whatever its child does:   *)
(* a child that neither answers nor dies is terminated when its budget and    *)
(* the grace period have passed.                                              *)
RunsEnd == \A t \in Thread : pc[t] = "run" ~> pc[t] = "idle"

(* "Exactly one heavy model may be resident at a time" (asr/service.py): two  *)
(* transcriptions are never in progress together.                             *)
OneTranscription == Cardinality(InProgress("asr")) <= 1
=============================================================================
