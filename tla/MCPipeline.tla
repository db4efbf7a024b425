----------------------------- MODULE MCPipeline -----------------------------
(***************************************************************************)
(* The instance of Pipeline that TLC checks: eight layouts of the chunks,  *)
(* and what a model may write of three kinds of items.                     *)
(***************************************************************************)
EXTENDS Pipeline

Chunk(a, n, present) == [start |-> a, frames |-> n, onDisk |-> present]

\* A whole recording, a hole before the last chunk, a missing chunk first, in the
\* middle and after a hole, a first chunk that is not usable, an overlap, and
\* nothing on disk.
MCLayouts == {
    <<Chunk(0, 4, TRUE), Chunk(4, 4, TRUE)>>,
    <<Chunk(0, 2, TRUE), Chunk(3, 2, TRUE)>>,
    <<Chunk(0, 1, FALSE), Chunk(1, 3, TRUE)>>,
    <<Chunk(0, 1, TRUE), Chunk(1, 1, FALSE), Chunk(2, 2, TRUE)>>,
    <<Chunk(0, 1, TRUE), Chunk(2, 1, FALSE), Chunk(3, 1, TRUE)>>,
    <<Chunk(1, 2, TRUE), Chunk(3, 1, TRUE)>>,
    <<Chunk(0, 2, TRUE), Chunk(1, 2, TRUE)>>,
    <<Chunk(0, 1, FALSE)>> }

MCClaims == {
    [kind |-> "DECISION", text |-> {"move"}],
    [kind |-> "DECISION", text |-> {"move", "spend"}],
    [kind |-> "ACTION", text |-> {"move", "spend"}],
    [kind |-> "DECISION", text |-> {"undo"}] }
=============================================================================
