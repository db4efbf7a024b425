------------------------------ MODULE Document ------------------------------
(***************************************************************************)
(* The document a minute is exported as: the blocks that are laid out once *)
(* (src/mom_igd/mom/document.py) and the pages the four formats make of    *)
(* them (document.py, docx.py).  Of a block remains the item it is about   *)
(* and the marks it bears, of a text on a page how much of it is there.    *)
(* Letterhead, metadata, roster and signatures say nothing of an item and  *)
(* are left out; evidence is always included, as every caller asks.        *)
(* Minutes models how the file is written and recorded.                    *)
(***************************************************************************)
EXTENDS Drafting

CONSTANT CellWidth      \* what a cell of a plain text table holds, in statements

VARIABLES
    blank,      \* segments without text, which no window holds
    document    \* the document, once it is laid out

NoDocument == [blocks |-> <<>>, hidden |-> 0, whole |-> FALSE]

ItemKinds == <<"DECISION", "ACTION", "DISCUSSION", "ISSUE">>

Listed(hide) == {k \in DOMAIN items : hide => items[k].verification # "UNVERIFIED"}

DocumentInit == blank = 0 /\ document = NoDocument

\* MUTANT: the notes are for items that need no other mark.
MarksWithoutNotes(k) ==
    CASE items[k].verification = "UNVERIFIED" -> {"unverified"}
      [] items[k].verification = "REBOUND" -> {"found elsewhere"}
      [] OTHER -> IF TakenBack(items, k) THEN {"superseded"} ELSE {}

\* What is said behind the quote of an item.
Marks(k) ==
    (CASE items[k].verification = "UNVERIFIED" -> {"unverified"}
       [] items[k].verification = "REBOUND" -> {"found elsewhere"}
       [] OTHER -> {})
    \union (IF TakenBack(items, k) THEN {"superseded"} ELSE {})

Point(k) == [what |-> "point", rows |-> <<k>>]
Evidence(k) == [what |-> "evidence", rows |-> <<k>>]

\* Actions are rows of a table, with their quotes behind it; any other item is a
\* paragraph with its quote.
Section(kind, hide) ==
    LET own == SetToSortSeq({k \in Listed(hide) : items[k].kind = kind}, <)
        quotes == [n \in DOMAIN own |-> Evidence(own[n])]
    IN  IF own = <<>> THEN <<>>
        ELSE IF kind = "ACTION" THEN <<[what |-> "table", rows |-> own]>> \o quotes
        ELSE FlattenSeq([n \in DOMAIN own |-> <<Point(own[n]), quotes[n]>>])

\* covered_ms: by segment, so that what two windows share is counted once.
CoveredTime == Cardinality(covered)
TranscriptTime == Len(cost) + blank

BuildDocument(hide) ==
    /\ draft = "done" /\ document = NoDocument
    /\ document' =
         [blocks |-> FlattenSeq([n \in DOMAIN ItemKinds |-> Section(ItemKinds[n], hide)]),
          hidden |-> Len(items) - Cardinality(Listed(hide)),
          whole |-> CoveredTime >= TranscriptTime]
    /\ UNCHANGED <<draftVars, blank>>

-----------------------------------------------------------------------------
(* The formats.  A page is a list of what can be read of each item.         *)

TextLength(k) == Cardinality(items[k].text)

\* The lines of a page whose tables hold so many statements in a cell.
Page(width) ==
    LET Lines(b) ==
            [n \in DOMAIN b.rows |->
               LET k == b.rows[n]
               IN  IF b.what = "evidence" THEN [of |-> k, length |-> 0, marks |-> Marks(k)]
                   ELSE [of |-> k, marks |-> {},
                         length |-> IF b.what = "table" THEN Min({TextLength(k), width}) ELSE TextLength(k)]]
    IN  FlattenSeq([n \in DOMAIN document.blocks |-> Lines(document.blocks[n])])

AsWideAsItTakes == Max({TextLength(k) : k \in DOMAIN items} \cup {0})
RenderMarkdown == Page(AsWideAsItTakes)
RenderHtml == Page(AsWideAsItTakes)
RenderDocx == Page(AsWideAsItTakes)

\* A column is as wide as its widest cell, up to a limit.
RenderText == Page(CellWidth)

Pages == {RenderMarkdown, RenderHtml, RenderDocx, RenderText}

-----------------------------------------------------------------------------
(* Properties *)

\* In every format each item of the minute is told once, with a quote that bears the
\* marks it deserves, or it is an unverified one and counted among those left out.
ItemsAreTold ==
    document # NoDocument =>
      \A page \in Pages :
        LET Of(k) == {n \in DOMAIN page : page[n].of = k}
            told == {k \in DOMAIN items : Of(k) # {}}
        IN  /\ document.hidden = Cardinality(DOMAIN items \ told)
            /\ \A k \in DOMAIN items \ told : items[k].verification = "UNVERIFIED"
            /\ \A k \in told :
                 /\ Cardinality({n \in Of(k) : page[n].length > 0}) = 1
                 /\ LET marks == UNION {page[n].marks : n \in Of(k)}
                    IN  /\ "unverified" \in marks <=> items[k].verification = "UNVERIFIED"
                        /\ "superseded" \in marks <=> TakenBack(items, k)

\* A document that says the whole transcript was processed speaks of a transcript
\* each segment of which was in a window whose answer has been read.
GapsAreConfessed == document.whole => covered = Said

\* No part of the meeting is missing without a word: each segment was read or is reported by
\* the minute, and its document claims the whole transcript only if all of it was read.
MeetingIsAccountedFor == NothingIsMissedSilently /\ GapsAreConfessed

\* document.py, line 8: "a renderer's only job is to put blocks on a page".
TextIsWhole ==
    \A page \in Pages : \A n \in DOMAIN page :
      page[n].length \in {0, TextLength(page[n].of)}
=============================================================================
