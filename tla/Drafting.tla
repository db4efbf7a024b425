------------------------------ MODULE Drafting ------------------------------
(***************************************************************************)
(* What the generation of one minute computes from the active segments of  *)
(* a transcript: the windows the model is given (src/mom_igd/mom/          *)
(* chunking.py), the loop over its answers (generator.py), the evidence    *)
(* each item is checked against (verify.py) and the merging of items that  *)
(* say the same (dedupe.py).  Minutes models the rows and the processes.   *)
(*                                                                         *)
(* Segments are numbered as they were said and last one unit of time each; *)
(* one without text is dropped at once and has no number here.  A text is  *)
(* the set of statements it makes, and Undo is a statement that takes back *)
(* what was decided before; a quote is the segment it is a copy of, or     *)
(* Invented.  Owners and due dates are left out, and of the citations of   *)
(* one item at most one is kept.                                           *)
(***************************************************************************)
EXTENDS Naturals, Sequences, FiniteSets, SequencesExt, FiniteSetsExt

CONSTANTS
    Costs,          \* what a segment may cost, in tokens
    MaxItems,       \* bound: items the model writes in all
    Tokens,         \* tokens of a window
    Repeat,         \* overlap_ms, in segments
    MinTail,        \* _MIN_TAIL_MS, in segments
    MaxDistance,    \* _MAX_MERGE_DISTANCE_MS, in segments
    Claims,         \* the kinds and texts of items the model may write
    Undo            \* a statement

ASSUME DraftingAssumption ==
    /\ Costs \subseteq Nat \ {0}
    /\ {MaxItems, Tokens, Repeat, MinTail, MaxDistance} \subseteq Nat
    /\ \A c \in Claims :
          /\ c.kind \in {"DECISION", "ACTION", "DISCUSSION", "ISSUE"}
          /\ c.text # {} /\ IsFiniteSet(c.text)

VARIABLES
    draft,          \* "none", "cut", "map", "summarise", "done" or "failed"
    cost,           \* the transcript: by segment, its cost
    windows,        \* the windows, as they were cut
    pending,        \* windows still to be answered
    covered,        \* segments of windows whose answer has been read
    unread,         \* windows reported as missing from the minute
    collected,      \* verified items, as they came
    items,          \* the items of the minute
    summary         \* the items its summary has been written from

draftVars == <<draft, cost, windows, pending, covered, unread, collected, items, summary>>

Invented == 0
Said == DOMAIN cost

\* Before there is a transcript.
DraftInit ==
    /\ draft = "none" /\ cost = <<>>
    /\ windows = <<>> /\ pending = <<>> /\ covered = {} /\ unread = {}
    /\ collected = <<>> /\ items = <<>> /\ summary = {}

\* A transcript of n segments with text.  Without one there is nothing to ask for.
TakeTranscript(n) ==
    /\ draft = "none" /\ draft' = IF n = 0 THEN "done" ELSE "cut"
    /\ cost' \in [1..n -> Costs]
    /\ UNCHANGED <<windows, pending, covered, unread, collected, items, summary>>

-----------------------------------------------------------------------------
(* build_chunks.  A window is an interval of segments, the first of which   *)
(* may repeat the end of the window before.                                 *)

Within(w) == w.from..w.to
Size(w) == w.to + 1 - w.from
Cost(S) == FoldSet(LAMBDA n, sum : sum + cost[n], 0, S)

\* The next window repeats what ended in the last moments of this one, never
\* all of it.
Carried(w) == IF Repeat < Size(w) THEN Repeat ELSE IF Size(w) > 1 THEN 1 ELSE 0

\* A segment that does not fit starts a window of its own, after the repetition.
Extend(list, n) ==
    LET w == Last(list)
        carry == Carried(w)
    IN  IF Cost(Within(w)) + cost[n] > Tokens
        THEN Append(list, [from |-> n - carry, to |-> n, repeats |-> carry, tries |-> 0])
        ELSE Append(Front(list), [w EXCEPT !.to = n])

Cut ==
    FoldLeft(Extend, <<[from |-> 1, to |-> 1, repeats |-> 0, tries |-> 0]>>,
             [k \in 1..(Len(cost) - 1) |-> k + 1])

\* A tail too short for a call of its own is folded into the window before it.
WithTail(list) ==
    IF Len(list) > 1 /\ Size(Last(list)) < MinTail
    THEN LET whole == [list[Len(list) - 1] EXCEPT !.to = Last(list).to]
         IN  IF Cost(Within(whole)) <= Tokens THEN Append(Front(Front(list)), whole) ELSE list
    ELSE list

BuildWindows ==
    /\ draft = "cut" /\ draft' = "map"
    /\ windows' = WithTail(Cut) /\ pending' = windows'
    /\ UNCHANGED <<cost, covered, unread, collected, items, summary>>

-----------------------------------------------------------------------------
(* verify_items: the quote is looked for in what was cited, then in the     *)
(* window, and nowhere else.                                                *)

\* locate: the words of the quote stand together in these segments, near enough.
Located(quote, segments) == quote \in segments

Verified(claim, quote, cited, w) ==
    LET legal == cited \intersect Within(w)
        Item(state, segments) ==
            [kind |-> claim.kind, text |-> claim.text, quote |-> quote,
             segments |-> segments, verification |-> state]
    IN  IF Located(quote, legal) THEN Item("VERIFIED", {quote})
        ELSE IF Located(quote, Within(w)) THEN Item("REBOUND", {quote})
        ELSE Item("UNVERIFIED", legal)

\* The model may quote and cite anything, in its window or out of it.
Answers(w) ==
    {Verified(claim, quote, cited, w) :
        claim \in Claims, quote \in {Invented} \union Said,
        cited \in {{}} \union {{n} : n \in Said}}

-----------------------------------------------------------------------------
(* The loop of generate_minutes over the answers.                           *)

\* An answer is read.  Bound: at most one item of it, MaxItems of all.
ReadAnswer ==
    /\ draft = "map" /\ pending # <<>>
    /\ LET w == Head(pending)
       IN  /\ \/ UNCHANGED collected
              \/ /\ Len(collected) < MaxItems
                 /\ \E x \in Answers(w) : collected' = Append(collected, x)
           /\ covered' = covered \union Within(w)
    /\ pending' = Tail(pending)
    /\ UNCHANGED <<draft, cost, windows, unread, items, summary>>

\* There is no answer, or one that is no document.
MissAnswer ==
    /\ draft = "map" /\ pending # <<>>
    /\ unread' = unread \union {Head(pending)} /\ pending' = Tail(pending)
    /\ UNCHANGED <<draft, cost, windows, covered, collected, items, summary>>

Halves(w) ==
    LET middle == w.from + (Size(w) \div 2)
    IN  <<[w EXCEPT !.to = middle - 1, !.tries = 1],
          [w EXCEPT !.from = middle, !.repeats = 0, !.tries = 1]>>

\* MUTANT: a window whose answer was cut off again is given up without a report.
CutAnswerUnreported ==
    /\ draft = "map" /\ pending # <<>>
    /\ LET w == Head(pending)
       IN  pending' = Tail(pending)
                     \o (IF w.tries = 0 /\ Size(w) > 1 THEN Halves(w) ELSE <<>>)
    /\ UNCHANGED <<draft, cost, windows, covered, unread, collected, items, summary>>

\* The answer was cut off: the window is halved once, in the next round.
CutAnswer ==
    /\ draft = "map" /\ pending # <<>>
    /\ LET w == Head(pending)
       IN  IF w.tries = 0 /\ Size(w) > 1
           THEN pending' = Tail(pending) \o Halves(w) /\ UNCHANGED unread
           ELSE pending' = Tail(pending) /\ unread' = unread \union {w}
    /\ UNCHANGED <<draft, cost, windows, covered, collected, items, summary>>

\* The worker fails, or the run is cancelled: nothing has been saved.
Stop ==
    /\ draft \in {"map", "summarise"} /\ draft' = "failed"
    /\ pending' = <<>> /\ collected' = <<>> /\ items' = <<>> /\ covered' = {} /\ unread' = {}
    /\ UNCHANGED <<cost, windows, summary>>

-----------------------------------------------------------------------------
(* deduplicate *)

Strength == [VERIFIED |-> 2, REBOUND |-> 1, UNVERIFIED |-> 0]

Apart(x, y) ==
    IF x.segments = {} \/ y.segments = {} THEN 0
    ELSE LET Gap(s, t) == IF Max(s) < Min(t) THEN Min(t) - Max(s) - 1 ELSE 0
         IN  Gap(x.segments, y.segments) + Gap(y.segments, x.segments)

Comparable(x, y) == x.kind = y.kind /\ Apart(x, y) <= MaxDistance

\* One text holds the other, or a shared citation is quoted with the same words.
Holds(x, y) == x.text \subseteq y.text \/ y.text \subseteq x.text
SameWords(x, y) == x.quote = y.quote /\ x.segments \intersect y.segments # {}

\* MUTANT: the merged item takes the quote of the copy it was first.
MergedKeepingQuote(x, y) ==
    LET stronger == IF Strength[x.verification] >= Strength[y.verification] THEN x ELSE y
    IN  [kind |-> x.kind,
         text |-> IF Cardinality(x.text) >= Cardinality(y.text) THEN x.text ELSE y.text,
         quote |-> x.quote,
         verification |-> stronger.verification,
         segments |-> x.segments \union y.segments]

\* The longer text, the stronger evidence, and the citations of both.
Merged(x, y) ==
    LET stronger == IF Strength[x.verification] >= Strength[y.verification] THEN x ELSE y
    IN  [kind |-> x.kind,
         text |-> IF Cardinality(x.text) >= Cardinality(y.text) THEN x.text ELSE y.text,
         quote |-> stronger.quote,
         verification |-> stronger.verification,
         segments |-> x.segments \union y.segments]

\* An item is folded into the first survivor whose text holds it or is held by
\* it, or else into the last one that quotes the same words.
Fold(list, x) ==
    LET holding == {k \in DOMAIN list : Comparable(list[k], x) /\ Holds(list[k], x)}
        quoting == {k \in DOMAIN list : Comparable(list[k], x) /\ SameWords(list[k], x)}
    IN  IF holding \union quoting = {} THEN Append(list, x)
        ELSE LET k == IF holding # {} THEN Min(holding) ELSE Max(quoting)
             IN  [list EXCEPT ![k] = Merged(@, x)]

\* As it was said, what has no place in the meeting last.
Chronological(list) ==
    LET Before(j, k) ==
            LET s == list[j].segments
                t == list[k].segments
            IN  IF s = {} \/ t = {} THEN (s # {} /\ t = {}) \/ ((s = {}) = (t = {}) /\ j < k)
                ELSE Min(s) < Min(t) \/ (Min(s) = Min(t) /\ j < k)
        order == CHOOSE o \in SetToSeqs(DOMAIN list) :
                     \A j, k \in DOMAIN list : j < k => Before(o[j], o[k])
    IN  [k \in DOMAIN list |-> list[order[k]]]

\* mark_superseded: a later item takes something back, and it is the next
\* decision or has its subject in common with this one.
TakenBack(list, k) ==
    /\ list[k].kind = "DECISION"
    /\ \E j \in (k + 1)..Len(list) :
         /\ Undo \in list[j].text
         /\ \/ /\ list[j].kind = "DECISION"
               /\ \A i \in (k + 1)..(j - 1) : list[i].kind # "DECISION"
            \/ (list[j].text \intersect list[k].text) \ {Undo} # {}

Reduce ==
    /\ draft = "map" /\ pending = <<>> /\ draft' = "summarise"
    /\ items' = Chronological(FoldLeft(Fold, <<>>, collected))
    /\ UNCHANGED <<cost, windows, pending, covered, unread, collected, summary>>

Grounded ==
    {k \in DOMAIN items : items[k].verification # "UNVERIFIED" /\ ~TakenBack(items, k)}

\* The summary is written from the grounded items, or there is none.
Summarise ==
    /\ draft = "summarise" /\ draft' = "done"
    /\ summary' \in {{}, Grounded}
    /\ UNCHANGED <<cost, windows, pending, covered, unread, collected, items>>

DraftNext == BuildWindows \/ ReadAnswer \/ MissAnswer \/ CutAnswer \/ Stop \/ Reduce \/ Summarise

-----------------------------------------------------------------------------
(* Properties *)

\* Every segment is in a window whose answer has been read, or in one that the
\* minute reports as missing.
NothingIsMissedSilently ==
    draft \in {"summarise", "done"} =>
      Said = covered \union UNION {Within(w) : w \in unread}

\* An item that is not marked unverified quotes a segment it cites, and that
\* segment was in a window whose answer has been read.
EvidenceIsCited ==
    \A x \in Range(items) :
      x.verification # "UNVERIFIED" => x.quote \in x.segments \intersect covered

Written(kind) == {y \in Range(collected) : y.kind = kind}

\* Nothing is made up by folding: the text of an item is one that the model wrote for an
\* item of its kind, its quote and its verdict are those of one, and each segment it
\* cites is cited by one.
NothingIsMadeUp ==
    \A x \in Range(items) :
      /\ \E y \in Written(x.kind) : y.text = x.text
      /\ \E y \in Written(x.kind) : y.quote = x.quote /\ y.verification = x.verification
      /\ \A n \in x.segments : \E y \in Written(x.kind) : n \in y.segments

\* Two items of the kind were written with the same quote.
QuotedTwice(kind) ==
    \E j, k \in DOMAIN collected :
      /\ j # k /\ collected[j].kind = kind /\ collected[k].kind = kind
      /\ collected[j].quote = collected[k].quote

\* Every item the model wrote is in the minute, folded or not: one of its kind cites
\* all it cited, is no less verified, and has a text no shorter, which says all that its
\* own did unless two items of the kind were written with the same quote.
NothingExtractedIsLost ==
    draft \in {"summarise", "done"} =>
      \A k \in DOMAIN collected : \E x \in Range(items) :
        /\ x.kind = collected[k].kind /\ collected[k].segments \subseteq x.segments
        /\ Strength[x.verification] >= Strength[collected[k].verification]
        /\ Cardinality(x.text) >= Cardinality(collected[k].text)
        /\ collected[k].text \subseteq x.text \/ QuotedTwice(x.kind)

\* However the items of the model are verified, folded and put in order: what an item of
\* the minute quotes it cites, all it consists of was written by the model for its kind,
\* and nothing written is left without an item that has its citations, its verdict and,
\* but for items of one quote, what it said.  That a quote supports the text beside it is
\* not said; see SummaryIsGrounded.
ItemsAreFaithful == EvidenceIsCited /\ NothingIsMadeUp /\ NothingExtractedIsLost

\* dedupe.py:12: "A merge never loses information."  It does not hold: of two texts whose
\* items share a citation and a quote the shorter one is dropped.
MergeLosesNothing ==
    draft \in {"summarise", "done"} =>
      \A k \in DOMAIN collected : \E x \in Range(items) :
        x.kind = collected[k].kind /\ collected[k].text \subseteq x.text

\* dedupe.py says of the longer of two texts that it cannot "exceed what the quote
\* and the cited segments support", and generator.py that the summary "is written
\* from grounded items only": a text in the summary was written by the model with
\* a quote that was found.
SummaryIsGrounded ==
    \A k \in summary : \E j \in DOMAIN collected :
      collected[j].text = items[k].text /\ collected[j].verification # "UNVERIFIED"

=============================================================================
