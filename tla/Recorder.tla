------------------------------ MODULE Recorder ------------------------------
(***************************************************************************)
(* What a capture promises its caller, with no thread in sight: audio is   *)
(* captured block by block, committed to the tape in the order it came, or *)
(* given up as lost; a recording is sealed only when nothing is on its way *)
(* and no fault occurred, and a sealed recording never changes.            *)
(* Abstracts src/mom_igd/audio/session.py.                                 *)
(***************************************************************************)
EXTENDS Integers, Sequences, SequencesExt

CONSTANT Block

VARIABLES
    captured,   \* blocks taken from the device so far
    buffered,   \* captured, not yet on the tape
    tape,       \* the recording
    lost,       \* blocks that will never be on it
    faulty,     \* has the disk or the device failed?
    sealed      \* has the recording been closed without a fault?

vars == <<captured, buffered, tape, lost, faulty, sealed>>

Init ==
    /\ captured = 0 /\ buffered = <<>> /\ tape = <<>> /\ lost = {}
    /\ faulty = FALSE /\ sealed = FALSE

\* The next block is kept, or lost on the spot.
Capture ==
    /\ ~sealed /\ captured + 1 \in Block
    /\ captured' = captured + 1
    /\ \/ buffered' = Append(buffered, captured + 1) /\ UNCHANGED lost
       \/ lost' = lost \cup {captured + 1} /\ UNCHANGED buffered
    /\ UNCHANGED <<tape, faulty, sealed>>

\* The oldest buffered block reaches the tape.
Commit ==
    /\ buffered # <<>>
    /\ tape' = Append(tape, Head(buffered)) /\ buffered' = Tail(buffered)
    /\ UNCHANGED <<captured, lost, faulty, sealed>>

\* A fault may cost the oldest buffered block or everything buffered, before or
\* after the oldest is committed; nothing that is on the tape.
Fail ==
    /\ ~sealed /\ faulty' = TRUE
    /\ \E n \in 0..Len(buffered), keep \in {0, 1} :
         /\ keep <= n
         /\ tape' = tape \o SubSeq(buffered, 1, keep)
         /\ lost' = lost \cup Range(SubSeq(buffered, keep + 1, n))
         /\ buffered' = SubSeq(buffered, n + 1, Len(buffered))
    /\ UNCHANGED <<captured, sealed>>

Seal ==
    /\ ~sealed /\ ~faulty /\ buffered = <<>>
    /\ sealed' = TRUE
    /\ UNCHANGED <<captured, buffered, tape, lost, faulty>>

Next == Capture \/ Commit \/ Fail \/ Seal

Spec == Init /\ [][Next]_vars
=============================================================================
