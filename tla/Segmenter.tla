----------------------------- MODULE Segmenter -----------------------------
(***************************************************************************)
(* The escape hatch of the schema generator: how the text of a migration   *)
(* is split into shared chunks and per-backend blocks (segment, in         *)
(* diesel-dualdb-cli/src/lib.rs) and which of its lines reach which        *)
(* backend (render_up, and generate for the text of a down.sql).           *)
(*                                                                         *)
(* A line is a directive, blank, or a statement on a line of its own, told *)
(* from others by its name only.  The scanner reads a line at a time; what *)
(* it has to produce is defined without it, from the position of each line *)
(* between the directives.                                                 *)
(***************************************************************************)
EXTENDS Naturals, Sequences, SequencesExt

CONSTANTS
    Text,       \* the lines that hold a statement
    MaxLines    \* bound on the lines of a migration

ASSUME LinesAssumption ==
    /\ MaxLines \in Nat
    /\ Text \cap {"postgres", "sqlite", "end", "other", "blank"} = {}

Backend   == {"postgres", "sqlite"}
Directive == Backend \cup {"end", "other"}
Line      == Directive \cup {"blank"} \cup Text

Shared(ls)    == [tag |-> "shared", lines |-> ls]
Tagged(b, ls) == [tag |-> b, lines |-> ls]

Errors == {"nested", "end without block", "unknown directive", "unclosed"}

VARIABLES
    sql,        \* the text of the migration
    rest,       \* the lines still to be read
    segments,   \* the segments that are complete
    shared,     \* the shared lines since the last block
    block,      \* the backend of the open block, or "none"
    raw,        \* the lines of the open block
    outcome     \* "reading", "ok" or the error

vars == <<sql, rest, segments, shared, block, raw, outcome>>

Lines(n) == UNION {[1 .. k -> Line] : k \in 0 .. n}

TypeOK ==
    /\ sql \in Seq(Line)
    /\ rest \in Seq(Line)
    /\ segments \in Seq([tag : Backend \cup {"shared"}, lines : Seq(Line \ Directive)])
    /\ shared \in Seq(Line \ Directive)
    /\ block \in Backend \cup {"none"}
    /\ raw \in Seq(Line \ Directive)
    /\ outcome \in {"reading", "ok"} \cup Errors

Init ==
    /\ sql \in Lines(MaxLines)
    /\ rest = sql
    /\ segments = <<>>
    /\ shared = <<>>
    /\ block = "none"
    /\ raw = <<>>
    /\ outcome = "reading"

-----------------------------------------------------------------------------
Reading(line) ==
    /\ outcome = "reading"
    /\ rest # <<>>
    /\ line = Head(rest)
    /\ rest' = Tail(rest)
    /\ UNCHANGED sql

Blank(ls) == \A i \in DOMAIN ls : ls[i] = "blank"

\* A chunk with nothing but blank lines is no segment.
Flushed == IF Blank(shared) THEN segments ELSE Append(segments, Shared(shared))

\* Mutant: the shared chunk is not taken, and stands again after the block.
OpenBlockKeepsShared(b) ==
    /\ Reading(b)
    /\ block = "none"
    /\ segments' = Flushed
    /\ block' = b
    /\ raw' = <<>>
    /\ UNCHANGED <<shared, outcome>>

OpenBlock(b) ==
    /\ Reading(b)
    /\ block = "none"
    /\ segments' = Flushed
    /\ shared' = <<>>
    /\ block' = b
    /\ raw' = <<>>
    /\ UNCHANGED outcome

CloseBlock ==
    /\ Reading("end")
    /\ block # "none"
    /\ segments' = Append(segments, Tagged(block, raw))
    /\ block' = "none"
    /\ raw' = <<>>
    /\ UNCHANGED <<shared, outcome>>

\* Mutant: a directive may be taken for a line.
TakeAnyLine(line) ==
    /\ Reading(line)
    /\ IF block = "none"
         THEN shared' = Append(shared, line) /\ UNCHANGED raw
         ELSE raw' = Append(raw, line) /\ UNCHANGED shared
    /\ UNCHANGED <<segments, block, outcome>>

\* A line that is no directive belongs to the open block, or to the chunk.
TakeLine(line) ==
    /\ Reading(line)
    /\ line \notin Directive
    /\ IF block = "none"
         THEN shared' = Append(shared, line) /\ UNCHANGED raw
         ELSE raw' = Append(raw, line) /\ UNCHANGED shared
    /\ UNCHANGED <<segments, block, outcome>>

\* The first misplaced directive ends the scan with its error.
Reject(line, error) ==
    /\ Reading(line)
    /\ \/ line \in Backend /\ block # "none" /\ error = "nested"
       \/ line = "end" /\ block = "none" /\ error = "end without block"
       \/ line = "other" /\ error = "unknown directive"
    /\ outcome' = error
    /\ UNCHANGED <<segments, shared, block, raw>>

\* Mutant: a block may stay open at the end.
AtEndLenient ==
    /\ outcome = "reading"
    /\ rest = <<>>
    /\ outcome' = "ok"
    /\ segments' = Flushed
    /\ UNCHANGED <<sql, rest, shared, block, raw>>

AtEnd ==
    /\ outcome = "reading"
    /\ rest = <<>>
    /\ IF block # "none"
         THEN outcome' = "unclosed" /\ UNCHANGED segments
         ELSE outcome' = "ok" /\ segments' = Flushed
    /\ UNCHANGED <<sql, rest, shared, block, raw>>

Done == outcome # "reading" /\ UNCHANGED vars

Next ==
    \/ \E b \in Backend : OpenBlock(b)
    \/ CloseBlock
    \/ \E line \in Line : TakeLine(line)
    \/ \E line \in Directive, error \in Errors : Reject(line, error)
    \/ AtEnd
    \/ Done

Spec == Init /\ [][Next]_vars

-----------------------------------------------------------------------------
(* What becomes of the segments. *)

\* render_up: shared statements rewritten for the backend, blocks raw.
Piece(line, how) == <<line, how>>

\* A blank line gives nothing.
Kept(line, x) == IF line = "blank" THEN <<>> ELSE <<x>>

Statements(ls)    == FlattenSeq([i \in DOMAIN ls |-> Kept(ls[i], ls[i])])
Rendered(ls, how) == FlattenSeq([i \in DOMAIN ls |-> Kept(ls[i], Piece(ls[i], how))])

PiecesOf(seg, b) ==
    IF seg.tag = "shared" THEN Rendered(seg.lines, "rewritten")
    ELSE IF seg.tag = b   THEN Rendered(seg.lines, "raw")
    ELSE <<>>

RenderUp(segs, b) == FlattenSeq([i \in DOMAIN segs |-> PiecesOf(segs[i], b)])

\* Mutant: the blocks are read as well.
AllStatements(segs) ==
    FlattenSeq([i \in DOMAIN segs |-> Statements(segs[i].lines)])

\* What the model of schema.rs, and a derived down.sql, are made from.
SharedStatements(segs) ==
    FlattenSeq([i \in DOMAIN segs |->
        IF segs[i].tag = "shared" THEN Statements(segs[i].lines) ELSE <<>>])

\* generate hands the text of an explicit down.sql to each backend as it is: a
\* directive is a comment there.
RenderDown(text, b) ==
    LET ls == SelectSeq(text, LAMBDA l : l \in Text)
    IN  [i \in DOMAIN ls |-> Piece(ls[i], "raw")]

-----------------------------------------------------------------------------
(* Properties: what the text means, read off the positions of its lines.   *)

\* The directive that governs position i: the last one before it.
Governing(text, i) ==
    LET before == {j \in 1 .. i - 1 : text[j] \in Directive}
    IN  IF before = {} THEN "end" ELSE text[CHOOSE j \in before : \A k \in before : k <= j]

\* The statements that backend b is to run, and how they get there.
MeantAt(text, i, b) ==
    IF text[i] \in Text /\ Governing(text, i) = "end"  THEN <<Piece(text[i], "rewritten")>>
    ELSE IF text[i] \in Text /\ Governing(text, i) = b THEN <<Piece(text[i], "raw")>>
    ELSE <<>>

Meant(text, b) == FlattenSeq([i \in DOMAIN text |-> MeantAt(text, i, b)])

\* The statements outside all blocks.
OutsideAt(text, i) ==
    IF text[i] \in Text /\ Governing(text, i) = "end" THEN <<text[i]>> ELSE <<>>

Outside(text) == FlattenSeq([i \in DOMAIN text |-> OutsideAt(text, i)])

\* Blocks open where none is open, close where one is, and close in the end.
WellFormed(text) ==
    /\ \A i \in DOMAIN text :
          /\ text[i] # "other"
          /\ text[i] \in Backend => Governing(text, i) = "end"
          /\ text[i] = "end" => Governing(text, i) \in Backend
    /\ Governing(text, Len(text) + 1) = "end"

\* The scanner accepts exactly the texts whose blocks are well formed: an
\* unbalanced, nested or unknown directive is an error wherever it stands.
AcceptsWellFormed == outcome # "reading" => (outcome = "ok" <=> WellFormed(sql))

\* Every statement reaches exactly the backends it is meant for, in the order
\* of the text, raw inside a block and rewritten outside: no line is lost,
\* doubled or moved across a block at a boundary of two segments.
EachBackendGetsItsLines ==
    outcome = "ok" => \A b \in Backend : RenderUp(segments, b) = Meant(sql, b)

\* What the schema model is built from is what both backends run rewritten, in
\* that order: a statement in a block never shapes schema.rs, one outside always
\* does.
ModelSeesSharedOnly == outcome = "ok" => SharedStatements(segments) = Outside(sql)

\* lib.rs: a tagged block is "emitted verbatim to that backend only".  Of a text
\* the scanner accepts, a backend gets no statement of the other's block either
\* when the text is a migration's down.sql.
DownBlocksStayOff ==
    outcome = "ok" => \A b \in Backend :
        [i \in DOMAIN RenderDown(sql, b) |-> RenderDown(sql, b)[i][1]]
            = [i \in DOMAIN Meant(sql, b) |-> Meant(sql, b)[i][1]]
=============================================================================
