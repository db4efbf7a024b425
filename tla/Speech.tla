------------------------------- MODULE Speech -------------------------------
(***************************************************************************)
(* What the transcription of one recording computes, stage by stage: the   *)
(* working copy from the chunks (src/mom_igd/asr/normalize.py), the speech *)
(* regions (vad.py), the windows the decoder is given and the regions its  *)
(* segments are filed under (faster_whisper_provider.py, tasks.py), the    *)
(* regions a second pass is spent on (selection.py), and the merge of the  *)
(* two passes (merge.py).  Transcripts models the rows and the processes.  *)
(*                                                                         *)
(* Time is counted in ticks.  An interval is a record of its two ends and  *)
(* holds the ticks from (inclusive) to (exclusive).  Of the samples of the *)
(* working copy remains which tick of the master they were taken from, and *)
(* of a text whether it is empty, poor by some rule, or clean.             *)
(***************************************************************************)
EXTENDS Integers, Sequences, FiniteSets, SequencesExt, FiniteSetsExt

CONSTANTS
    Layouts,        \* the lists of usable chunks a manifest may hold
    SpeechPad, MergeGap, MinSpeech, RegionLimit,    \* the VAD configuration
    Window,         \* what the decoder analyses at a time
    BudgetPercent,  \* pass2_budget_ratio, in percent
    MaxUtterances   \* bound: intervals the detector hears

ASSUME SpeechAssumption ==
    /\ {SpeechPad, MergeGap, MinSpeech, BudgetPercent, MaxUtterances} \subseteq Nat
    /\ RegionLimit \in Nat \ {0} /\ Window \in Nat \ {0}
    /\ Layouts \subseteq
          Seq([start : Nat, frames : Nat \ {0}, onDisk : BOOLEAN]) \ {<<>>}

VARIABLES
    stage,          \* the stage to run next, "done" or "failed" at the end
    chunks,         \* chunks still to be written to the working copy
    written,        \* recordings.written_frames
    expected,       \* expected_next_frame
    rateKnown,      \* a chunk has been opened, so the source rate is known
    copy,           \* the working copy: by tick, the tick of the master or Silence
    gaps,           \* the gaps recorded with it
    skipped,        \* chunks missing from disk
    warned,         \* a warning about the timeline has been raised
    heard,          \* the intervals the detector heard speech in, while they are bounded
    regions,        \* the speech regions, in order
    queue,          \* windows still to be decoded by this pass
    first, second,  \* segments of the two passes
    asked,          \* indexes of the regions the second pass is to decode
    script          \* the merged segments

audioVars == <<chunks, written, expected, rateKnown, copy, gaps, skipped, warned>>
passVars == <<heard, regions, queue, first, second, asked, script>>
speechVars == <<stage, audioVars, passVars>>

Silence == -1
Span(a, b) == [from |-> a, to |-> b]
Length(s) == s.to - s.from
Ticks(s) == s.from..(s.to - 1)
Smaller(a, b) == IF a < b THEN a ELSE b
Larger(a, b) == IF a > b THEN a ELSE b

SpeechInit ==
    /\ stage = "normalize"
    /\ chunks \in Layouts
    /\ written = Last(chunks).start + Last(chunks).frames
    /\ expected = Head(chunks).start
    /\ rateKnown = FALSE /\ copy = <<>> /\ gaps = {} /\ skipped = 0 /\ warned = FALSE
    /\ heard = {} /\ regions = <<>> /\ queue = <<>>
    /\ first = {} /\ second = {} /\ asked = {} /\ script = {}

-----------------------------------------------------------------------------
(* The working copy: normalize_recording. *)

Blank(n) == [k \in 1..n |-> Silence]
Sound(c) == [k \in 1..c.frames |-> c.start + k - 1]

\* A chunk on disk.  The hole before it is filled; an overlap is kept.
WriteChunk ==
    /\ stage = "normalize" /\ chunks # <<>> /\ Head(chunks).onDisk
    /\ LET c == Head(chunks)
           hole == Larger(0, c.start - expected)
       IN  /\ copy' = copy \o Blank(hole) \o Sound(c)
           /\ gaps' = IF hole > 0 THEN gaps \union {Span(Len(copy), Len(copy) + hole)}
                                  ELSE gaps
           /\ warned' = (warned \/ c.start < expected)
           /\ expected' = c.start + c.frames
    /\ rateKnown' = TRUE /\ chunks' = Tail(chunks)
    /\ UNCHANGED <<stage, written, skipped, passVars>>

\* A chunk that is not.  Its length is filled once the source rate is known.
SkipChunk ==
    /\ stage = "normalize" /\ chunks # <<>> /\ ~Head(chunks).onDisk
    /\ LET c == Head(chunks)
       IN  IF rateKnown
           THEN /\ copy' = copy \o Blank(c.frames)
                /\ gaps' = gaps \union {Span(Len(copy), Len(copy) + c.frames)}
                /\ expected' = c.start + c.frames
           ELSE UNCHANGED <<copy, gaps, expected>>
    /\ skipped' = skipped + 1 /\ chunks' = Tail(chunks)
    /\ UNCHANGED <<stage, written, rateKnown, warned, passVars>>

\* MUTANT: the length of the copy is not compared with that of the recording.
FinishCopyUnchecked ==
    /\ stage = "normalize" /\ chunks = <<>> /\ stage' = "vad"
    /\ UNCHANGED <<chunks, written, expected, rateKnown, copy, gaps, skipped, warned, passVars>>

\* The drift between the copy and the recording is a warning.
FinishCopy ==
    /\ stage = "normalize" /\ chunks = <<>>
    /\ warned' = (warned \/ (rateKnown /\ written # Len(copy)))
    /\ stage' = "vad"
    /\ UNCHANGED <<chunks, written, expected, rateKnown, copy, gaps, skipped, passVars>>

-----------------------------------------------------------------------------
(* The speech regions: detect_speech_regions and _merge_and_bound. *)

\* What the detector may return: intervals in order, with silence between them.
Hearings(n) ==
    LET Candidates == {s \in [from : 0..n, to : 0..n] : s.from < s.to}
    IN  {I \in {{}} \union {Range(f) : f \in [1..MaxUtterances -> Candidates]} :
           \A s, t \in I : s = t \/ s.to < t.from \/ t.to < s.from}

ByStart(I) == SetToSortSeq(I, LAMBDA s, t : s.from < t.from)

Kept(I) == {s \in I : Length(s) >= MinSpeech}

Padded(s) == Span(Larger(0, s.from - SpeechPad), Smaller(Len(copy), s.to + SpeechPad))

\* An interval that begins at most MergeGap after the last one ends is joined to it.
Joined(list, s) ==
    IF list # <<>> /\ s.from - Last(list).to <= MergeGap
    THEN Append(Front(list), Span(Last(list).from, Larger(Last(list).to, s.to)))
    ELSE Append(list, s)

\* An interval above the limit is cut into the fewest equal pieces.
Pieces(s) ==
    LET n == (Length(s) + RegionLimit - 1) \div RegionLimit
        Cut(k) == s.from + ((k * Length(s)) \div n)
    IN  [k \in 1..n |-> Span(Cut(k - 1), Cut(k))]

MergeAndBound(I) ==
    LET padded == [k \in 1..Cardinality(Kept(I)) |-> Padded(ByStart(Kept(I))[k])]
        merged == FoldLeft(Joined, <<>>, padded)
    IN  FlattenSeq([k \in DOMAIN merged |-> Pieces(merged[k])])

Detect ==
    /\ stage = "vad" /\ rateKnown
    /\ heard' \in Hearings(Len(copy))
    /\ regions' = MergeAndBound(heard')
    /\ stage' = IF regions' = <<>> THEN "done" ELSE "plan"
    /\ UNCHANGED <<audioVars, queue, first, second, asked, script>>

\* Not one chunk could be opened: the worker finds an empty file and fails.
NothingToDetect ==
    /\ stage = "vad" /\ ~rateKnown /\ stage' = "failed"
    /\ UNCHANGED <<audioVars, passVars>>

-----------------------------------------------------------------------------
(* The two passes: group_regions_into_windows, attribute_to_region and the  *)
(* loop of the worker over its windows.  A window is a sequence of regions. *)

Index == DOMAIN regions

\* A region that would stretch the window past its size starts the next one.
Batched(windows, r) ==
    IF windows # <<>> /\ regions[r].to - regions[Head(Last(windows))].from <= Window
    THEN Append(Front(windows), Append(Last(windows), r))
    ELSE Append(windows, <<r>>)

Windows(R) == FoldLeft(Batched, <<>>, SetToSortSeq(R, <))

\* The audio of a window runs from its first region to its last, silence and
\* regions in between included.
Extent(w) == Span(regions[Head(w)].from, regions[Last(w)].to)

Overlap(s, t) == Larger(0, Smaller(s.to, t.to) - Larger(s.from, t.from))
Distance(s, t) == LET d == (s.from + s.to) - (t.from + t.to) IN IF d < 0 THEN -d ELSE d

\* The region of the window a segment overlaps most, or else the nearest one,
\* and the earliest of several.
Attributed(s, w) ==
    LET R == Range(w)
        Better(q, r) ==
            IF \E x \in R : Overlap(s, regions[x]) > 0
            THEN Overlap(s, regions[q]) > Overlap(s, regions[r])
            ELSE Distance(s, regions[q]) < Distance(s, regions[r])
    IN  CHOOSE r \in R :
          \A q \in R \ {r} : ~Better(q, r) /\ (q < r => Better(r, q))

\* What the decoder may return for a window, validated: segments in order, not
\* overlapping, inside the window, each with a verdict on its text.  Bound: at
\* most two of them, and two only if they fill the window.
Utterances(w, texts) ==
    LET e == Extent(w)
        Said(s, x) == [at |-> s, text |-> x, region |-> Attributed(s, w)]
        Inside == {s \in [from : Ticks(e), to : (e.from + 1)..e.to] : s.from < s.to}
    IN  {{}} \union {{Said(s, x)} : s \in Inside, x \in texts}
        \union {{Said(Span(e.from, m), x), Said(Span(m, e.to), y)} :
                   m \in (e.from + 1)..(e.to - 1), x \in texts, y \in texts}

Plan ==
    /\ stage = "plan" /\ stage' = "pass1"
    /\ queue' = Windows(Index) /\ heard' = {}
    /\ UNCHANGED <<audioVars, regions, first, second, asked, script>>

DecodeFirst ==
    /\ stage = "pass1" /\ queue # <<>>
    /\ \E U \in Utterances(Head(queue), {"clean", "poor", "empty"}) : first' = first \union U
    /\ queue' = Tail(queue)
    /\ UNCHANGED <<stage, audioVars, heard, regions, second, asked, script>>

DecodeSecond ==
    /\ stage = "pass2" /\ queue # <<>>
    /\ \E U \in Utterances(Head(queue), {"clean", "empty"}) : second' = second \union U
    /\ queue' = Tail(queue)
    /\ UNCHANGED <<stage, audioVars, heard, regions, first, asked, script>>

\* The run is cancelled between two windows, or a worker fails: nothing of what
\* has been decoded has been saved.
Abandon ==
    /\ stage \in {"pass1", "pass2"} /\ stage' = "failed"
    /\ queue' = <<>> /\ first' = {} /\ second' = {} /\ asked' = {}
    /\ UNCHANGED <<audioVars, heard, regions, script>>

-----------------------------------------------------------------------------
(* The second pass is given the worst regions the budget can pay for:       *)
(* select_regions_for_pass2.                                                *)

\* The segments of a region, or those over it if none is filed under it.
Owned(r) ==
    LET filed == {s \in first : s.region = r}
    IN  IF filed # {} THEN filed ELSE {s \in first : Overlap(s.at, regions[r]) > 0}

Reasons(r) == IF Owned(r) = {} THEN {"empty"} ELSE {s.text : s \in Owned(r)} \ {"clean"}

Flagged == {r \in Index : Reasons(r) # {}}

\* The weights of REASON_CODES, twice: EMPTY_IN_SPEECH_REGION and a rule on quality.
Weight == [empty |-> 5, poor |-> 4]
Score(r) == SumSet({Weight[x] : x \in Reasons(r)})

Outranks(q, r) == Score(q) > Score(r) \/ (Score(q) = Score(r) /\ q < r)
Ranked == SetToSortSeq(Flagged, Outranks)

Spent(R) == FoldSet(LAMBDA r, n : n + Length(regions[r]), 0, R)
Budget == (Spent(Index) * BudgetPercent) \div 100

\* A region that does not fit is passed over, and the next one tried.
Afford(R, r) == IF Spent(R) + Length(regions[r]) > Budget THEN R ELSE R \union {r}

Select ==
    /\ stage = "pass1" /\ queue = <<>>
    /\ asked' = FoldLeft(Afford, {}, Ranked)
    /\ queue' = Windows(asked')
    /\ stage' = IF asked' = {} THEN "keep" ELSE "pass2"
    /\ UNCHANGED <<audioVars, heard, regions, first, second, script>>

\* Pass 2 is switched off, or its model is not installed.
WithoutSecondPass ==
    /\ stage \in {"pass1", "pass2"} /\ (stage = "pass1" => queue = <<>>)
    /\ second = {} /\ stage' = "keep" /\ queue' = <<>>
    /\ UNCHANGED <<audioVars, heard, regions, first, second, asked, script>>

Row(s, n, active) == [at |-> s.at, text |-> s.text, region |-> s.region,
                      pass |-> n, active |-> active]

KeepFirstPass ==
    /\ stage = "keep" /\ stage' = "done"
    /\ script' = {Row(s, 1, TRUE) : s \in first}
    /\ UNCHANGED <<audioVars, heard, regions, queue, first, second, asked>>

-----------------------------------------------------------------------------
(* merge_pass2_into_pass1 *)

Replaced == {r \in asked : \E s \in second : s.region = r}
SecondTicks == UNION {Ticks(s.at) : s \in second}

\* Half of the segment or more has been transcribed again.
Covered(s) == 2 * Cardinality(Ticks(s.at) \intersect SecondTicks) >= Length(s.at)

\* MUTANT: a segment is retired by region alone.
SupersededByRegion(s) == s.region \in Replaced

Superseded(s) == s.region \in Replaced \/ Covered(s)

Merge ==
    /\ stage = "pass2" /\ queue = <<>> /\ stage' = "done"
    /\ script' = {Row(s, 1, ~Superseded(s)) : s \in first}
                 \union {Row(s, 2, TRUE) : s \in {t \in second : t.region \in Replaced}}
    /\ UNCHANGED <<audioVars, heard, regions, queue, first, second, asked>>

SpeechNext ==
    \/ WriteChunk \/ SkipChunk \/ FinishCopy
    \/ Detect \/ NothingToDetect
    \/ Plan \/ DecodeFirst \/ DecodeSecond \/ Abandon
    \/ Select \/ WithoutSecondPass \/ KeepFirstPass \/ Merge

-----------------------------------------------------------------------------
(* Properties *)

\* A sound in the working copy is at the tick it has in the master, unless a
\* chunk has been reported missing or a warning has been raised, and what is
\* recorded as a gap is exactly what is silent.
TimeIsKept ==
    stage # "normalize" =>
      /\ UNION {Ticks(g) : g \in gaps} = {k \in 0..(Len(copy) - 1) : copy[k + 1] = Silence}
      /\ skipped = 0 /\ ~warned =>
           /\ Len(copy) = written
           /\ \A k \in DOMAIN copy : copy[k] \in {k - 1, Silence}

\* The speech that is to be found in regions, tick by tick: what was heard for
\* long enough, the padding around it, and the short silences between.
Speech ==
    LET Near == {t \in 0..(Len(copy) - 1) : \E s \in Kept(heard) :
                    s.from - SpeechPad <= t /\ t < s.to + SpeechPad}
    IN  {t \in 0..(Len(copy) - 1) :
           \/ t \in Near
           \/ \E p, q \in Near : p < t /\ t < q /\ q - p - 1 <= MergeGap}

\* The regions are in order, do not overlap, are no longer than the limit, and
\* hold the speech and nothing else.
RegionsHoldSpeech ==
    stage = "plan" =>
      /\ UNION {Ticks(regions[r]) : r \in Index} = Speech
      /\ \A r \in Index : Length(regions[r]) \in 1..RegionLimit
      /\ \A q, r \in Index : q < r => regions[q].to <= regions[r].from

\* In the merged transcript no two passages cover the same audio: two of one pass
\* are disjoint, and one of pass 1 has mostly not been transcribed again.
NothingSaidTwice ==
    \A s, t \in {x \in script : x.active} :
      s # t => IF s.pass = t.pass THEN Overlap(s.at, t.at) = 0
               ELSE s.pass = 1 => 2 * Overlap(s.at, t.at) < Length(s.at)

\* _merge_and_bound gives each tick of speech to one region, and nothing else to any;
\* and what merge_pass2_into_pass1 leaves active says no audio twice.  That the passes
\* leave nothing out is not said: the decoder may return nothing for a region, and see
\* RetiredIsCovered.
SpeechIsTakenOnce == RegionsHoldSpeech /\ NothingSaidTwice

\* merge.py says of a pass-1 segment how much of it "must be covered by pass-2
\* output before it is retired": a majority.  It does not hold: a segment of a region that
\* was decoded again is retired, whatever the second pass said of it.
RetiredIsCovered ==
    \A s \in script : ~s.active /\ s.text # "empty" =>
       2 * Cardinality(Ticks(s.at) \intersect
                       UNION {Ticks(t.at) : t \in {x \in script : x.pass = 2}})
         >= Length(s.at)

=============================================================================
