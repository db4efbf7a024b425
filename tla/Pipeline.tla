------------------------------ MODULE Pipeline ------------------------------
(***************************************************************************)
(* From the chunks of a recording to the document of its minute: Speech    *)
(* makes the transcript, Drafting the minute, Document what is exported.   *)
(* Between the two stands the transcript in the database: its active       *)
(* segments (load_active_segments of src/mom_igd/mom/store.py) are what    *)
(* the minute is drafted from.                                             *)
(***************************************************************************)
EXTENDS Speech, Document

CONSTANT MaxSegments     \* bound: segments of a transcript

pipelineVars == <<speechVars, draftVars, blank, document>>

PipelineInit == SpeechInit /\ DraftInit /\ DocumentInit

\* The minute is drafted from the active segments; one without text counts for the
\* length of the transcript and is not read.  What the transcription worked on is
\* not needed any more.  Bound: MaxSegments.
LoadTranscript ==
    LET active == {s \in script : s.active}
        empty == {s \in active : s.text = "empty"}
    IN  /\ stage = "done" /\ active # {} /\ Cardinality(active) <= MaxSegments
        /\ TakeTranscript(Cardinality(active \ empty))
        /\ blank' = Cardinality(empty)
        /\ stage' = "saved" /\ copy' = <<>> /\ gaps' = {} /\ written' = 0 /\ expected' = 0
        /\ rateKnown' = FALSE /\ skipped' = 0 /\ warned' = FALSE
        /\ regions' = <<>> /\ first' = {} /\ second' = {} /\ asked' = {} /\ script' = {}
        /\ UNCHANGED <<chunks, heard, queue, document>>

PipelineNext ==
    \/ SpeechNext /\ UNCHANGED <<draftVars, blank, document>>
    \/ LoadTranscript
    \/ DraftNext /\ UNCHANGED <<speechVars, blank, document>>
    \/ \E hide \in BOOLEAN : BuildDocument(hide) /\ UNCHANGED speechVars

PipelineSpec == PipelineInit /\ [][PipelineNext]_pipelineVars
=============================================================================
