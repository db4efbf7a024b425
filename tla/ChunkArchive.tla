---------------------------- MODULE ChunkArchive ----------------------------
(***************************************************************************)
(* What the recording directory promises: audio that has reached the disk  *)
(* is kept, in one file or another, and a chunk that has become final is   *)
(* never touched again.  Abstracts src/mom_igd/audio/writer.py and         *)
(* src/mom_igd/audio/recovery.py.                                          *)
(***************************************************************************)
EXTENDS Integers

CONSTANTS Seq0, Frames      \* chunk sequence numbers, frames a chunk can hold

VARIABLES
    held,       \* [Seq0 -> Frames]: frames of each chunk kept on the disk
    final       \* [Seq0 -> Frames \cup {-1}]: frames of its WAV, -1 before it exists

Init == held = [s \in Seq0 |-> 0] /\ final = [s \in Seq0 |-> -1]

\* More audio of a chunk reaches the disk, until the chunk is final.
Grow(s) ==
    /\ final[s] = -1
    /\ \E n \in Frames : n > held[s] /\ held' = [held EXCEPT ![s] = n]
    /\ UNCHANGED final

\* A chunk becomes final with everything of it the disk holds.
Finalise(s) ==
    /\ final[s] = -1
    /\ final' = [final EXCEPT ![s] = held[s]]
    /\ UNCHANGED held

Next == \E s \in Seq0 : Grow(s) \/ Finalise(s)

Spec == Init /\ [][Next]_<<held, final>>
=============================================================================
