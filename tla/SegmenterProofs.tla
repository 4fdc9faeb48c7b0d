-------------------------- MODULE SegmenterProofs --------------------------
(***************************************************************************)
(* Proofs about Segmenter, for migrations of any length over any           *)
(* statements: the scanner accepts exactly the well-formed texts, and      *)
(* every statement reaches the backends it is meant for, and the model of  *)
(* schema.rs, in the order of the text.                                    *)
(***************************************************************************)
EXTENDS Segmenter, Flattening

Pieces   == Line \X {"raw", "rewritten"}
Content  == Line \ Directive
Segments == [tag : Backend \cup {"shared"}, lines : Seq(Content)]

\* The lines that have been read.
At == Len(sql) - Len(rest)

\* What the first n lines mean.
MeantUpTo(n, b) == FlattenSeq([i \in 1 .. n |-> MeantAt(sql, i, b)])
OutsideUpTo(n)  == FlattenSeq([i \in 1 .. n |-> OutsideAt(sql, i)])

\* The directive at position i, if there is one, is where it may be.
FormedAt(text, i) ==
    /\ text[i] # "other"
    /\ text[i] \in Backend => Governing(text, i) = "end"
    /\ text[i] = "end" => Governing(text, i) \in Backend

\* The rest is the end of the text.
Scanned ==
    /\ Len(rest) <= Len(sql)
    /\ \A i \in 1 .. Len(rest) : rest[i] = sql[At + i]

\* The open block is the one that governs the next line, and only one of the
\* two buffers is in use.
Opened ==
    /\ Governing(sql, At + 1) = IF block = "none" THEN "end" ELSE block
    /\ block # "none" => shared = <<>>
    /\ block = "none" => raw = <<>>

FormedSoFar == \A i \in 1 .. At : FormedAt(sql, i)

\* What the segments and the two buffers come to is what was meant so far.
OpenPieces(b) == IF block = b THEN Rendered(raw, "raw") ELSE <<>>

RenderedSoFar ==
    \A b \in Backend :
        (RenderUp(segments, b) \o Rendered(shared, "rewritten")) \o OpenPieces(b)
            = MeantUpTo(At, b)

SharedSoFar == SharedStatements(segments) \o Statements(shared) = OutsideUpTo(At)

ScanInv ==
    /\ TypeOK
    /\ Scanned
    /\ outcome = "reading" =>
          /\ Opened
          /\ FormedSoFar
          /\ RenderedSoFar
          /\ SharedSoFar
    /\ AcceptsWellFormed
    /\ EachBackendGetsItsLines
    /\ ModelSeesSharedOnly

-----------------------------------------------------------------------------
(* The directive that governs a line. *)

LEMMA FirstGoverned == \A text : Governing(text, 1) = "end"
<1> SUFFICES ASSUME NEW text PROVE Governing(text, 1) = "end"
    OBVIOUS
<1>1. {j \in 1 .. 1 - 1 : text[j] \in Directive} = {}
    OBVIOUS
<1> QED
    BY <1>1 DEF Governing

LEMMA GoverningNext ==
    ASSUME NEW text, NEW i \in Nat \ {0}
    PROVE  Governing(text, i + 1) = IF text[i] \in Directive THEN text[i] ELSE Governing(text, i)
<1> DEFINE before == {j \in 1 .. i - 1 : text[j] \in Directive}
           upTo   == {j \in 1 .. (i + 1) - 1 : text[j] \in Directive}
<1>1. CASE text[i] \in Directive
    <2> DEFINE last == CHOOSE j \in upTo : \A k \in upTo : k <= j
    <2>1. i \in upTo /\ \A k \in upTo : k <= i
        BY <1>1
    <2>2. upTo \subseteq Nat /\ upTo # {}
        BY <2>1
    <2>3. Governing(text, i + 1) = text[last]
        BY <2>2 DEF Governing
    <2> HIDE DEF upTo
    <2>4. last \in upTo /\ \A k \in upTo : k <= last
        BY <2>1
    <2> HIDE DEF last
    <2>5. last \in Nat /\ last <= i /\ i <= last
        BY <2>1, <2>2, <2>4
    <2>6. last = i
        BY <2>5
    <2> QED
        BY <1>1, <2>3, <2>6
<1>2. CASE text[i] \notin Directive
    <2>1. \A j : j \in upTo <=> j \in before
        <3>1. (i + 1) - 1 = i
            OBVIOUS
        <3>2. \A j \in Int : j <= i /\ text[j] \in Directive => j <= i - 1
            BY <1>2
        <3> QED
            BY <3>1, <3>2
    <2>2. upTo = before
        BY <2>1
    <2>3. Governing(text, i) =
            IF before = {} THEN "end"
            ELSE text[CHOOSE j \in before : \A k \in before : k <= j]
        BY DEF Governing
    <2>4. Governing(text, i + 1) =
            IF upTo = {} THEN "end"
            ELSE text[CHOOSE j \in upTo : \A k \in upTo : k <= j]
        BY DEF Governing
    <2> HIDE DEF before, upTo
    <2> QED
        BY <1>2, <2>2, <2>3, <2>4
<1> QED
    BY <1>1, <1>2

LEMMA GoverningType ==
    ASSUME NEW text
    PROVE  \A n \in Nat : Governing(text, n + 1) \in Directive
<1> DEFINE P == {n \in Nat : Governing(text, n + 1) \in Directive}
<1>1. 0 \in P
    BY FirstGoverned DEF Directive
<1>2. ASSUME NEW n \in Nat, n \in P PROVE n + 1 \in P
    BY <1>2, GoverningNext
<1>3. Nat \subseteq P
    BY <1>1, <1>2, AllNumbers
<1> QED
    BY <1>3

-----------------------------------------------------------------------------
(* What a line more, or a segment more, gives. *)

LEMMA LineTypes ==
    /\ Content = {"blank"} \cup Text
    /\ \A l \in Line : l \in Text => l # "blank" /\ l \notin Directive
    /\ \A l \in Line, how \in {"raw", "rewritten"} : Kept(l, Piece(l, how)) \in Seq(Pieces)
    /\ \A l \in Line : Kept(l, l) \in Seq(Line)
<1>1. Content = {"blank"} \cup Text
    BY LinesAssumption DEF Content, Line, Directive, Backend
<1>2. \A l \in Line : l \in Text => l # "blank" /\ l \notin Directive
    BY LinesAssumption DEF Line, Directive, Backend
<1>3. \A l \in Line, how \in {"raw", "rewritten"} : Kept(l, Piece(l, how)) \in Seq(Pieces)
    BY DEF Kept, Piece, Pieces
<1>4. \A l \in Line : Kept(l, l) \in Seq(Line)
    BY DEF Kept
<1> QED
    BY <1>1, <1>2, <1>3, <1>4

LEMMA RenderedNext ==
    ASSUME NEW ls \in Seq(Line), NEW l \in Line, NEW how \in {"raw", "rewritten"}
    PROVE  Rendered(Append(ls, l), how) = Rendered(ls, how) \o Kept(l, Piece(l, how))
<1> DEFINE ss == [i \in DOMAIN ls |-> Kept(ls[i], Piece(ls[i], how))]
           tt == [i \in DOMAIN Append(ls, l) |-> Kept(Append(ls, l)[i], Piece(Append(ls, l)[i], how))]
           t  == Kept(l, Piece(l, how))
<1>1. \A i \in DOMAIN ls : ss[i] \in Seq(Pieces)
    BY LineTypes
<1>2. ss \in Seq(Seq(Pieces)) /\ Len(ss) = Len(ls)
    BY <1>1
<1>3. t \in Seq(Pieces)
    BY LineTypes
<1>4. tt = Append(ss, t)
    OBVIOUS
<1>5. Rendered(ls, how) = FlattenSeq(ss) /\ Rendered(Append(ls, l), how) = FlattenSeq(tt)
    BY DEF Rendered
<1> HIDE DEF ss, tt, t
<1>6. FlattenSeq(Append(ss, t)) = FlattenSeq(ss) \o t
    BY <1>2, <1>3, FlattenAppend
<1> QED
    BY <1>4, <1>5, <1>6 DEF t

LEMMA RenderedType ==
    ASSUME NEW ls \in Seq(Line), NEW how \in {"raw", "rewritten"}
    PROVE  Rendered(ls, how) \in Seq(Pieces)
<1> DEFINE ss == [i \in DOMAIN ls |-> Kept(ls[i], Piece(ls[i], how))]
<1>1. \A i \in DOMAIN ls : ss[i] \in Seq(Pieces)
    BY LineTypes
<1>2. ss \in Seq(Seq(Pieces))
    BY <1>1
<1> HIDE DEF ss
<1>3. FlattenSeq(ss) \in Seq(Pieces)
    BY <1>2, FlattenType
<1> QED
    BY <1>3 DEF Rendered, ss

LEMMA StatementsNext ==
    ASSUME NEW ls \in Seq(Line), NEW l \in Line
    PROVE  Statements(Append(ls, l)) = Statements(ls) \o Kept(l, l)
<1> DEFINE ss == [i \in DOMAIN ls |-> Kept(ls[i], ls[i])]
           tt == [i \in DOMAIN Append(ls, l) |-> Kept(Append(ls, l)[i], Append(ls, l)[i])]
           t  == Kept(l, l)
<1>1. \A i \in DOMAIN ls : ss[i] \in Seq(Line)
    BY LineTypes
<1>2. ss \in Seq(Seq(Line)) /\ Len(ss) = Len(ls)
    BY <1>1
<1>3. t \in Seq(Line)
    BY LineTypes
<1>4. tt = Append(ss, t)
    OBVIOUS
<1>5. Statements(ls) = FlattenSeq(ss) /\ Statements(Append(ls, l)) = FlattenSeq(tt)
    BY DEF Statements
<1> HIDE DEF ss, tt, t
<1>6. FlattenSeq(Append(ss, t)) = FlattenSeq(ss) \o t
    BY <1>2, <1>3, FlattenAppend
<1> QED
    BY <1>4, <1>5, <1>6 DEF t

LEMMA StatementsType ==
    ASSUME NEW ls \in Seq(Line)
    PROVE  Statements(ls) \in Seq(Line)
<1> DEFINE ss == [i \in DOMAIN ls |-> Kept(ls[i], ls[i])]
<1>1. \A i \in DOMAIN ls : ss[i] \in Seq(Line)
    BY LineTypes
<1>2. ss \in Seq(Seq(Line))
    BY <1>1
<1> HIDE DEF ss
<1>3. FlattenSeq(ss) \in Seq(Line)
    BY <1>2, FlattenType
<1> QED
    BY <1>3 DEF Statements, ss

\* A chunk of blank lines gives nothing, and neither does one of no lines.
LEMMA BlankGivesNothing ==
    ASSUME NEW ls \in Seq(Line), Blank(ls)
    PROVE  /\ Statements(ls) = <<>>
           /\ \A how \in {"raw", "rewritten"} : Rendered(ls, how) = <<>>
<1>1. Statements(ls) = <<>>
    <2> DEFINE ss == [i \in DOMAIN ls |-> Kept(ls[i], ls[i])]
    <2>1. \A i \in DOMAIN ls : ss[i] = <<>>
        BY DEF Blank, Kept
    <2>2. ss \in Seq(Seq(Line)) /\ \A i \in DOMAIN ss : ss[i] = <<>>
        <3>1. \A i \in DOMAIN ls : ss[i] \in Seq(Line)
            BY LineTypes
        <3> QED
            BY <2>1, <3>1
    <2> HIDE DEF ss
    <2>3. FlattenSeq(ss) = <<>>
        BY <2>2, FlattenEmpty
    <2> QED
        BY <2>3 DEF Statements, ss
<1>2. ASSUME NEW how \in {"raw", "rewritten"} PROVE Rendered(ls, how) = <<>>
    <2> DEFINE ss == [i \in DOMAIN ls |-> Kept(ls[i], Piece(ls[i], how))]
    <2>1. \A i \in DOMAIN ls : ss[i] = <<>>
        BY DEF Blank, Kept
    <2>2. ss \in Seq(Seq(Pieces)) /\ \A i \in DOMAIN ss : ss[i] = <<>>
        <3>1. \A i \in DOMAIN ls : ss[i] \in Seq(Pieces)
            BY LineTypes
        <3> QED
            BY <2>1, <3>1
    <2> HIDE DEF ss
    <2>3. FlattenSeq(ss) = <<>>
        BY <2>2, FlattenEmpty
    <2> QED
        BY <2>3 DEF Rendered, ss
<1> QED
    BY <1>1, <1>2

LEMMA NoLinesGiveNothing ==
    /\ Statements(<<>>) = <<>>
    /\ \A how \in {"raw", "rewritten"} : Rendered(<<>>, how) = <<>>
<1>1. <<>> \in Seq(Line) /\ Blank(<<>>)
    BY DEF Blank
<1> QED
    BY <1>1, BlankGivesNothing

LEMMA ContentIsLines == Seq(Content) \subseteq Seq(Line)
<1>1. Content \subseteq Line
    BY DEF Content
<1> QED
    BY <1>1

LEMMA PiecesType ==
    ASSUME NEW seg \in Segments, NEW b \in Backend
    PROVE  PiecesOf(seg, b) \in Seq(Pieces)
<1>1. seg.lines \in Seq(Line)
    BY ContentIsLines DEF Segments
<1>2. \A how \in {"raw", "rewritten"} : Rendered(seg.lines, how) \in Seq(Pieces)
    BY <1>1, RenderedType
<1>3. <<>> \in Seq(Pieces)
    OBVIOUS
<1> QED
    BY <1>2, <1>3 DEF PiecesOf

LEMMA RenderUpNext ==
    ASSUME NEW segs \in Seq(Segments), NEW seg \in Segments, NEW b \in Backend
    PROVE  RenderUp(Append(segs, seg), b) = RenderUp(segs, b) \o PiecesOf(seg, b)
<1> DEFINE ss == [i \in DOMAIN segs |-> PiecesOf(segs[i], b)]
           tt == [i \in DOMAIN Append(segs, seg) |-> PiecesOf(Append(segs, seg)[i], b)]
           t  == PiecesOf(seg, b)
<1>1. \A i \in DOMAIN segs : ss[i] \in Seq(Pieces)
    BY PiecesType
<1>2. ss \in Seq(Seq(Pieces)) /\ Len(ss) = Len(segs)
    BY <1>1
<1>3. t \in Seq(Pieces)
    BY PiecesType
<1>4. tt = Append(ss, t)
    OBVIOUS
<1>5. RenderUp(segs, b) = FlattenSeq(ss) /\ RenderUp(Append(segs, seg), b) = FlattenSeq(tt)
    BY DEF RenderUp
<1> HIDE DEF ss, tt, t
<1>6. FlattenSeq(Append(ss, t)) = FlattenSeq(ss) \o t
    BY <1>2, <1>3, FlattenAppend
<1> QED
    BY <1>4, <1>5, <1>6 DEF t

LEMMA RenderUpType ==
    ASSUME NEW segs \in Seq(Segments), NEW b \in Backend
    PROVE  RenderUp(segs, b) \in Seq(Pieces)
<1> DEFINE ss == [i \in DOMAIN segs |-> PiecesOf(segs[i], b)]
<1>1. \A i \in DOMAIN segs : ss[i] \in Seq(Pieces)
    BY PiecesType
<1>2. ss \in Seq(Seq(Pieces))
    BY <1>1
<1> HIDE DEF ss
<1>3. FlattenSeq(ss) \in Seq(Pieces)
    BY <1>2, FlattenType
<1> QED
    BY <1>3 DEF RenderUp, ss

OfShared(seg) == IF seg.tag = "shared" THEN Statements(seg.lines) ELSE <<>>

LEMMA SharedType == \A seg \in Segments : OfShared(seg) \in Seq(Line)
<1> SUFFICES ASSUME NEW seg \in Segments PROVE OfShared(seg) \in Seq(Line)
    OBVIOUS
<1>1. seg.lines \in Seq(Line)
    BY ContentIsLines DEF Segments
<1>2. Statements(seg.lines) \in Seq(Line)
    BY <1>1, StatementsType
<1>3. <<>> \in Seq(Line)
    OBVIOUS
<1> QED
    BY <1>2, <1>3 DEF OfShared

LEMMA SharedNext ==
    ASSUME NEW segs \in Seq(Segments), NEW seg \in Segments
    PROVE  SharedStatements(Append(segs, seg)) = SharedStatements(segs) \o OfShared(seg)
<1> DEFINE ss == [i \in DOMAIN segs |-> OfShared(segs[i])]
           tt == [i \in DOMAIN Append(segs, seg) |-> OfShared(Append(segs, seg)[i])]
           t  == OfShared(seg)
<1>1. \A i \in DOMAIN segs : ss[i] \in Seq(Line)
    BY SharedType
<1>2. ss \in Seq(Seq(Line)) /\ Len(ss) = Len(segs)
    BY <1>1
<1>3. t \in Seq(Line)
    BY SharedType
<1>4. tt = Append(ss, t)
    OBVIOUS
<1>5. SharedStatements(segs) = FlattenSeq(ss) /\ SharedStatements(Append(segs, seg)) = FlattenSeq(tt)
    BY DEF SharedStatements, OfShared
<1> HIDE DEF ss, tt, t
<1>6. FlattenSeq(Append(ss, t)) = FlattenSeq(ss) \o t
    BY <1>2, <1>3, FlattenAppend
<1> QED
    BY <1>4, <1>5, <1>6 DEF t

LEMMA SharedStatementsType ==
    ASSUME NEW segs \in Seq(Segments)
    PROVE  SharedStatements(segs) \in Seq(Line)
<1> DEFINE ss == [i \in DOMAIN segs |-> OfShared(segs[i])]
<1>1. \A i \in DOMAIN segs : ss[i] \in Seq(Line)
    BY SharedType
<1>2. ss \in Seq(Seq(Line))
    BY <1>1
<1> HIDE DEF ss
<1>3. FlattenSeq(ss) \in Seq(Line)
    BY <1>2, FlattenType
<1> QED
    BY <1>3 DEF SharedStatements, OfShared, ss

-----------------------------------------------------------------------------
(* What a position more means. *)

LEMMA MeantAtType ==
    ASSUME sql \in Seq(Line), NEW b \in Backend
    PROVE  \A i \in 1 .. Len(sql) : MeantAt(sql, i, b) \in Seq(Pieces) /\ OutsideAt(sql, i) \in Seq(Line)
<1> SUFFICES ASSUME NEW i \in 1 .. Len(sql)
             PROVE  MeantAt(sql, i, b) \in Seq(Pieces) /\ OutsideAt(sql, i) \in Seq(Line)
    OBVIOUS
<1>1. sql[i] \in Line
    OBVIOUS
<1>2. /\ <<Piece(sql[i], "raw")>> \in Seq(Pieces) /\ <<Piece(sql[i], "rewritten")>> \in Seq(Pieces)
      /\ <<>> \in Seq(Pieces) /\ <<>> \in Seq(Line) /\ <<sql[i]>> \in Seq(Line)
    BY <1>1 DEF Piece, Pieces
<1> QED
    BY <1>2 DEF MeantAt, OutsideAt

LEMMA MeantNext ==
    ASSUME sql \in Seq(Line), NEW b \in Backend, NEW n \in Nat, n + 1 <= Len(sql)
    PROVE  /\ MeantUpTo(n + 1, b) = MeantUpTo(n, b) \o MeantAt(sql, n + 1, b)
           /\ OutsideUpTo(n + 1) = OutsideUpTo(n) \o OutsideAt(sql, n + 1)
<1>1. MeantUpTo(n + 1, b) = MeantUpTo(n, b) \o MeantAt(sql, n + 1, b)
    <2> DEFINE ss == [i \in 1 .. n |-> MeantAt(sql, i, b)]
               tt == [i \in 1 .. n + 1 |-> MeantAt(sql, i, b)]
               t  == MeantAt(sql, n + 1, b)
    <2>1. \A i \in 1 .. n + 1 : MeantAt(sql, i, b) \in Seq(Pieces)
        BY MeantAtType
    <2>2. ss \in Seq(Seq(Pieces)) /\ Len(ss) = n /\ t \in Seq(Pieces)
        BY <2>1
    <2>3. tt = Append(ss, t)
        OBVIOUS
    <2>4. MeantUpTo(n, b) = FlattenSeq(ss) /\ MeantUpTo(n + 1, b) = FlattenSeq(tt)
        BY DEF MeantUpTo
    <2> HIDE DEF ss, tt, t
    <2>5. FlattenSeq(Append(ss, t)) = FlattenSeq(ss) \o t
        BY <2>2, FlattenAppend
    <2> QED
        BY <2>3, <2>4, <2>5 DEF t
<1>2. OutsideUpTo(n + 1) = OutsideUpTo(n) \o OutsideAt(sql, n + 1)
    <2> DEFINE ss == [i \in 1 .. n |-> OutsideAt(sql, i)]
               tt == [i \in 1 .. n + 1 |-> OutsideAt(sql, i)]
               t  == OutsideAt(sql, n + 1)
    <2>1. \A i \in 1 .. n + 1 : OutsideAt(sql, i) \in Seq(Line)
        BY MeantAtType
    <2>2. ss \in Seq(Seq(Line)) /\ Len(ss) = n /\ t \in Seq(Line)
        BY <2>1
    <2>3. tt = Append(ss, t)
        OBVIOUS
    <2>4. OutsideUpTo(n) = FlattenSeq(ss) /\ OutsideUpTo(n + 1) = FlattenSeq(tt)
        BY DEF OutsideUpTo
    <2> HIDE DEF ss, tt, t
    <2>5. FlattenSeq(Append(ss, t)) = FlattenSeq(ss) \o t
        BY <2>2, FlattenAppend
    <2> QED
        BY <2>3, <2>4, <2>5 DEF t
<1> QED
    BY <1>1, <1>2

LEMMA MeantTypes ==
    ASSUME sql \in Seq(Line), NEW b \in Backend, NEW n \in Nat, n <= Len(sql)
    PROVE  MeantUpTo(n, b) \in Seq(Pieces) /\ OutsideUpTo(n) \in Seq(Line)
<1> DEFINE ss == [i \in 1 .. n |-> MeantAt(sql, i, b)]
           tt == [i \in 1 .. n |-> OutsideAt(sql, i)]
<1>1. \A i \in 1 .. n : MeantAt(sql, i, b) \in Seq(Pieces) /\ OutsideAt(sql, i) \in Seq(Line)
    BY MeantAtType
<1>2. ss \in Seq(Seq(Pieces)) /\ tt \in Seq(Seq(Line))
    BY <1>1
<1> HIDE DEF ss, tt
<1>3. FlattenSeq(ss) \in Seq(Pieces) /\ FlattenSeq(tt) \in Seq(Line)
    BY <1>2, FlattenType
<1> QED
    BY <1>3 DEF MeantUpTo, OutsideUpTo, ss, tt

LEMMA MeantEnds ==
    ASSUME sql \in Seq(Line), NEW b \in Backend
    PROVE  /\ MeantUpTo(0, b) = <<>> /\ OutsideUpTo(0) = <<>>
           /\ MeantUpTo(Len(sql), b) = Meant(sql, b)
           /\ OutsideUpTo(Len(sql)) = Outside(sql)
<1>1. /\ [i \in 1 .. 0 |-> MeantAt(sql, i, b)] = <<>>
      /\ [i \in 1 .. 0 |-> OutsideAt(sql, i)] = <<>>
    OBVIOUS
<1>2. MeantUpTo(0, b) = <<>> /\ OutsideUpTo(0) = <<>>
    BY <1>1, FlattenNothing DEF MeantUpTo, OutsideUpTo
<1>3. DOMAIN sql = 1 .. Len(sql)
    OBVIOUS
<1>4. MeantUpTo(Len(sql), b) = Meant(sql, b)
    BY <1>3 DEF MeantUpTo, Meant
<1>5. OutsideUpTo(Len(sql)) = Outside(sql)
    BY <1>3 DEF OutsideUpTo, Outside
<1> QED
    BY <1>2, <1>4, <1>5

\* Concatenation, as the steps use it.
LEMMA Concatenation ==
    ASSUME NEW S, NEW p \in Seq(S), NEW q \in Seq(S), NEW r \in Seq(S)
    PROVE  /\ p \o <<>> = p /\ <<>> \o p = p
           /\ (p \o q) \o r = p \o (q \o r)
    OBVIOUS

-----------------------------------------------------------------------------
(* One line read. *)

LEMMA TypeFacts ==
    ASSUME TypeOK
    PROVE  /\ sql \in Seq(Line) /\ rest \in Seq(Line)
           /\ segments \in Seq(Segments)
           /\ shared \in Seq(Content) /\ raw \in Seq(Content)
           /\ shared \in Seq(Line) /\ raw \in Seq(Line)
           /\ block \in Backend \cup {"none"}
<1>1. shared \in Seq(Content) /\ raw \in Seq(Content) /\ segments \in Seq(Segments)
    BY DEF TypeOK, Content, Segments
<1>2. shared \in Seq(Line) /\ raw \in Seq(Line)
    BY <1>1, ContentIsLines
<1> QED
    BY <1>1, <1>2 DEF TypeOK

LEMMA ReadsNext ==
    ASSUME TypeOK, Scanned, NEW line, Reading(line)
    PROVE  /\ outcome = "reading" /\ sql' = sql
           /\ At \in Nat /\ At + 1 <= Len(sql) /\ At' = At + 1
           /\ line = sql[At + 1] /\ line \in Line
           /\ rest' \in Seq(Line)
           /\ Scanned'
<1>1. /\ outcome = "reading" /\ rest # <<>> /\ line = Head(rest)
      /\ rest' = Tail(rest) /\ sql' = sql
    BY DEF Reading
<1>2. /\ sql \in Seq(Line) /\ rest \in Seq(Line)
      /\ Len(sql) \in Nat /\ Len(rest) \in Nat /\ Len(rest) # 0
    BY <1>1 DEF TypeOK
<1>3. /\ Len(rest) <= Len(sql)
      /\ \A i \in 1 .. Len(rest) : rest[i] = sql[At + i]
    BY DEF Scanned
<1>4. At \in Nat /\ At + 1 <= Len(sql)
    BY <1>2, <1>3 DEF At
<1>5. line = rest[1] /\ line \in Line /\ line = sql[At + 1]
    BY <1>1, <1>2, <1>3
<1>6. /\ rest' \in Seq(Line) /\ Len(rest') = Len(rest) - 1
      /\ \A i \in 1 .. Len(rest') : rest'[i] = rest[i + 1]
    BY <1>1, <1>2
<1>7. At' = At + 1
    BY <1>1, <1>2, <1>6 DEF At
<1>8. Scanned'
    <2>1. Len(rest') <= Len(sql')
        BY <1>1, <1>2, <1>3, <1>6
    <2>2. ASSUME NEW i \in 1 .. Len(rest') PROVE rest'[i] = sql'[At' + i]
        <3>1. i + 1 \in 1 .. Len(rest) /\ At' + i = At + (i + 1)
            BY <1>2, <1>4, <1>6, <1>7
        <3> QED
            BY <1>1, <1>3, <1>6, <3>1
    <2> QED
        BY <2>1, <2>2 DEF Scanned
<1> QED
    BY <1>1, <1>4, <1>5, <1>6, <1>7, <1>8

\* What the line read means, from the block that is open.
LEMMA MeansNext ==
    ASSUME TypeOK, Scanned, Opened, NEW line, Reading(line)
    PROVE  /\ Governing(sql, At + 1) = IF block = "none" THEN "end" ELSE block
           /\ Governing(sql, At + 2) = IF line \in Directive THEN line ELSE Governing(sql, At + 1)
           /\ line \in Directive =>
                 /\ OutsideAt(sql, At + 1) = <<>>
                 /\ \A b \in Backend : MeantAt(sql, At + 1, b) = <<>>
           /\ line \notin Directive /\ block = "none" =>
                 /\ OutsideAt(sql, At + 1) = Kept(line, line)
                 /\ \A b \in Backend : MeantAt(sql, At + 1, b) = Kept(line, Piece(line, "rewritten"))
           /\ line \notin Directive /\ block # "none" =>
                 /\ OutsideAt(sql, At + 1) = <<>>
                 /\ \A b \in Backend :
                       MeantAt(sql, At + 1, b) =
                          IF block = b THEN Kept(line, Piece(line, "raw")) ELSE <<>>
<1>1. At \in Nat /\ line = sql[At + 1] /\ line \in Line
    BY ReadsNext
<1>2. Governing(sql, At + 1) = IF block = "none" THEN "end" ELSE block
    BY DEF Opened
<1>3. Governing(sql, At + 2) = IF line \in Directive THEN line ELSE Governing(sql, At + 1)
    <2>1. At + 1 \in Nat \ {0} /\ (At + 1) + 1 = At + 2
        BY <1>1
    <2>2. Governing(sql, (At + 1) + 1) =
             IF sql[At + 1] \in Directive THEN sql[At + 1] ELSE Governing(sql, At + 1)
        BY <2>1, GoverningNext
    <2> QED
        BY <1>1, <2>1, <2>2
<1>4. /\ line \in Directive => line \notin Text
      /\ line \notin Directive => (line \in Text <=> line # "blank")
    BY <1>1, LineTypes DEF Content
<1>5. block \in Backend \cup {"none"} /\ "end" \notin Backend /\ "none" \notin Backend
    BY TypeFacts DEF Backend
<1>6. line \in Directive =>
         /\ OutsideAt(sql, At + 1) = <<>>
         /\ \A b \in Backend : MeantAt(sql, At + 1, b) = <<>>
    BY <1>1, <1>4 DEF OutsideAt, MeantAt
<1>7. line \notin Directive /\ block = "none" =>
         /\ OutsideAt(sql, At + 1) = Kept(line, line)
         /\ \A b \in Backend : MeantAt(sql, At + 1, b) = Kept(line, Piece(line, "rewritten"))
    BY <1>1, <1>2, <1>4, <1>5 DEF OutsideAt, MeantAt, Kept
<1>8. line \notin Directive /\ block # "none" =>
         /\ OutsideAt(sql, At + 1) = <<>>
         /\ \A b \in Backend :
               MeantAt(sql, At + 1, b) = IF block = b THEN Kept(line, Piece(line, "raw")) ELSE <<>>
    BY <1>1, <1>2, <1>4, <1>5 DEF OutsideAt, MeantAt, Kept
<1> QED
    BY <1>2, <1>3, <1>6, <1>7, <1>8

\* The shared chunk becomes a segment, or has nothing to give.
LEMMA FlushedGives ==
    ASSUME TypeOK
    PROVE  /\ Flushed \in Seq(Segments)
           /\ \A b \in Backend :
                 RenderUp(Flushed, b) = RenderUp(segments, b) \o Rendered(shared, "rewritten")
           /\ SharedStatements(Flushed) = SharedStatements(segments) \o Statements(shared)
<1>1. /\ segments \in Seq(Segments) /\ shared \in Seq(Content) /\ shared \in Seq(Line)
    BY TypeFacts
<1>2. /\ \A b \in Backend : RenderUp(segments, b) \in Seq(Pieces)
      /\ SharedStatements(segments) \in Seq(Line)
    BY <1>1, RenderUpType, SharedStatementsType
<1>3. CASE Blank(shared)
    <2>1. Flushed = segments /\ Rendered(shared, "rewritten") = <<>> /\ Statements(shared) = <<>>
        BY <1>1, <1>3, BlankGivesNothing DEF Flushed
    <2> QED
        BY <1>1, <1>2, <2>1
<1>4. CASE ~Blank(shared)
    <2> DEFINE seg == Shared(shared)
    <2>1. /\ seg \in Segments /\ seg.tag = "shared" /\ seg.lines = shared
        BY <1>1 DEF Shared, Segments
    <2>2. Flushed = Append(segments, seg)
        BY <1>4 DEF Flushed
    <2> HIDE DEF seg
    <2>3. \A b \in Backend : PiecesOf(seg, b) = Rendered(shared, "rewritten")
        BY <2>1 DEF PiecesOf
    <2>4. OfShared(seg) = Statements(shared)
        BY <2>1 DEF OfShared
    <2>5. \A b \in Backend : RenderUp(Append(segments, seg), b) = RenderUp(segments, b) \o PiecesOf(seg, b)
        BY <1>1, <2>1, RenderUpNext
    <2>6. SharedStatements(Append(segments, seg)) = SharedStatements(segments) \o OfShared(seg)
        BY <1>1, <2>1, SharedNext
    <2>7. Append(segments, seg) \in Seq(Segments)
        BY <1>1, <2>1
    <2> QED
        BY <2>2, <2>3, <2>4, <2>5, <2>6, <2>7
<1> QED
    BY <1>3, <1>4

\* The line read is well placed when it is no directive, opens a block where none
\* is open, or closes one.
LEMMA FormedNext ==
    ASSUME TypeOK, Scanned, Opened, FormedSoFar, NEW line, Reading(line),
           \/ line \notin Directive
           \/ line \in Backend /\ block = "none"
           \/ line = "end" /\ block # "none"
    PROVE  FormedSoFar'
<1>1. /\ sql' = sql /\ At \in Nat /\ At' = At + 1 /\ line = sql[At + 1]
    BY ReadsNext
<1>2. Governing(sql, At + 1) = IF block = "none" THEN "end" ELSE block
    BY DEF Opened
<1>3. /\ block \in Backend \cup {"none"} /\ "end" \notin Backend /\ "other" \notin Backend
      /\ Backend \subseteq Directive /\ "end" \in Directive /\ "other" \in Directive
    BY TypeFacts DEF Backend, Directive
<1>4. FormedAt(sql, At + 1)
    BY <1>1, <1>2, <1>3 DEF FormedAt
<1>5. ASSUME NEW i \in 1 .. At' PROVE FormedAt(sql, i)
    <2>1. i \in 1 .. At \/ i = At + 1
        BY <1>1
    <2> QED
        BY <1>4, <2>1 DEF FormedSoFar
<1> QED
    BY <1>1, <1>5 DEF FormedSoFar

LEMMA MeantOnwards ==
    ASSUME TypeOK, Scanned, NEW line, Reading(line), NEW b \in Backend
    PROVE  /\ MeantUpTo(At, b)' = MeantUpTo(At, b) \o MeantAt(sql, At + 1, b)
           /\ OutsideUpTo(At)' = OutsideUpTo(At) \o OutsideAt(sql, At + 1)
<1>1. /\ sql' = sql /\ At \in Nat /\ At' = At + 1 /\ At + 1 <= Len(sql)
    BY ReadsNext
<1>2. sql \in Seq(Line)
    BY TypeFacts
<1>3. MeantUpTo(At, b)' = MeantUpTo(At + 1, b) /\ OutsideUpTo(At)' = OutsideUpTo(At + 1)
    BY <1>1 DEF MeantUpTo, OutsideUpTo
<1> QED
    BY <1>1, <1>2, <1>3, MeantNext

-----------------------------------------------------------------------------
(* The invariant, step by step. *)

ReadingInv == TypeOK /\ Scanned /\ Opened /\ FormedSoFar /\ RenderedSoFar /\ SharedSoFar

LEMMA OpenBlockKeeps ==
    ASSUME ReadingInv, NEW c \in Backend, OpenBlock(c)
    PROVE  ReadingInv'
<1> USE DEF ReadingInv
<1>1. /\ Reading(c) /\ block = "none" /\ segments' = Flushed /\ shared' = <<>>
      /\ block' = c /\ raw' = <<>> /\ outcome' = outcome
    BY DEF OpenBlock
<1>2. /\ sql' = sql /\ rest' \in Seq(Line) /\ At' = At + 1 /\ At \in Nat /\ Scanned'
    BY <1>1, ReadsNext
<1>3. /\ Flushed \in Seq(Segments)
      /\ \A b \in Backend :
            RenderUp(Flushed, b) = RenderUp(segments, b) \o Rendered(shared, "rewritten")
      /\ SharedStatements(Flushed) = SharedStatements(segments) \o Statements(shared)
    BY FlushedGives
<1>4. c \in Directive /\ c # "none"
    BY DEF Directive, Backend
<1>5. /\ Governing(sql, At + 2) = c
      /\ OutsideAt(sql, At + 1) = <<>>
      /\ \A b \in Backend : MeantAt(sql, At + 1, b) = <<>>
    BY <1>1, <1>4, MeansNext
<1>6. TypeOK'
    BY <1>1, <1>2, <1>3 DEF TypeOK, Segments, Content
<1>7. Opened'
    <2>1. At' + 1 = At + 2
        BY <1>2
    <2> QED
        BY <1>1, <1>2, <1>4, <1>5, <2>1 DEF Opened
<1>8. FormedSoFar'
    BY <1>1, FormedNext
<1>9. ASSUME NEW b \in Backend
      PROVE  (RenderUp(segments', b) \o Rendered(shared', "rewritten")) \o OpenPieces(b)'
                = MeantUpTo(At, b)'
    <2>1. Rendered(shared', "rewritten") = <<>> /\ OpenPieces(b)' = <<>> /\ OpenPieces(b) = <<>>
        <3>1. "none" # b
            BY DEF Backend
        <3> QED
            BY <1>1, <3>1, NoLinesGiveNothing DEF OpenPieces
    <2>2. /\ RenderUp(segments, b) \in Seq(Pieces) /\ Rendered(shared, "rewritten") \in Seq(Pieces)
          /\ MeantUpTo(At, b) \in Seq(Pieces)
        <3>1. At <= Len(sql) /\ sql \in Seq(Line)
            BY <1>1, <1>2, ReadsNext, TypeFacts
        <3> QED
            BY <1>2, <3>1, TypeFacts, RenderUpType, RenderedType, MeantTypes
    <2> DEFINE A == RenderUp(segments, b)
               B == Rendered(shared, "rewritten")
               M == MeantUpTo(At, b)
    <2>3. (A \o B) \o <<>> = M
        BY <2>1 DEF RenderedSoFar
    <2>4. MeantUpTo(At, b)' = M \o <<>>
        BY <1>1, <1>5, MeantOnwards
    <2>5. RenderUp(segments', b) = A \o B
        BY <1>1, <1>3
    <2> HIDE DEF A, B, M
    <2>6. A \in Seq(Pieces) /\ B \in Seq(Pieces) /\ M \in Seq(Pieces)
        BY <2>2 DEF A, B, M
    <2>7. ((A \o B) \o <<>>) \o <<>> = M \o <<>>
        BY <2>3
    <2> QED
        BY <2>1, <2>4, <2>5, <2>7
<1>10. RenderedSoFar'
    BY <1>9 DEF RenderedSoFar
<1>11. SharedSoFar'
    <2> DEFINE A == SharedStatements(segments)
               B == Statements(shared)
               M == OutsideUpTo(At)
    <2>1. A \o B = M
        BY DEF SharedSoFar
    <2>2. OutsideUpTo(At)' = M \o <<>>
        BY <1>1, <1>5, MeantOnwards
    <2>3. SharedStatements(segments') = A \o B /\ Statements(shared') = <<>>
        BY <1>1, <1>3, NoLinesGiveNothing
    <2> HIDE DEF A, B, M
    <2>4. (A \o B) \o <<>> = M \o <<>>
        BY <2>1
    <2>5. SharedStatements(segments') \o Statements(shared') = OutsideUpTo(At)'
        BY <2>2, <2>3, <2>4
    <2> QED
        BY <2>5 DEF SharedSoFar
<1> QED
    BY <1>2, <1>6, <1>7, <1>8, <1>10, <1>11

LEMMA CloseBlockKeeps ==
    ASSUME ReadingInv, CloseBlock
    PROVE  ReadingInv'
<1> USE DEF ReadingInv
<1> DEFINE seg == Tagged(block, raw)
<1>1. /\ Reading("end") /\ block # "none" /\ segments' = Append(segments, seg)
      /\ shared' = shared /\ block' = "none" /\ raw' = <<>> /\ outcome' = outcome
    BY DEF CloseBlock
<1>2. /\ sql' = sql /\ rest' \in Seq(Line) /\ At' = At + 1 /\ At \in Nat /\ Scanned'
      /\ At <= Len(sql) /\ sql \in Seq(Line)
    BY <1>1, ReadsNext, TypeFacts
<1>3. /\ segments \in Seq(Segments) /\ raw \in Seq(Content) /\ raw \in Seq(Line)
      /\ block \in Backend /\ shared = <<>>
    BY <1>1, TypeFacts DEF Opened
<1>4. "end" \in Directive /\ block # "shared"
    BY <1>3 DEF Directive, Backend
<1>5. seg \in Segments /\ seg.tag = block /\ seg.lines = raw
    BY <1>3 DEF Tagged, Segments
<1> HIDE DEF seg
<1>6. /\ Governing(sql, At + 2) = "end"
      /\ OutsideAt(sql, At + 1) = <<>>
      /\ \A b \in Backend : MeantAt(sql, At + 1, b) = <<>>
    BY <1>1, <1>4, MeansNext
<1>7. TypeOK'
    <2>1. segments' \in Seq(Segments) /\ raw' \in Seq(Content)
        BY <1>1, <1>3, <1>5
    <2> QED
        BY <1>1, <1>2, <2>1 DEF TypeOK, Segments, Content
<1>8. Opened'
    <2>1. At' + 1 = At + 2
        BY <1>2
    <2> QED
        BY <1>1, <1>2, <1>6, <2>1 DEF Opened
<1>9. FormedSoFar'
    BY <1>1, FormedNext
<1>10. ASSUME NEW b \in Backend
       PROVE  (RenderUp(segments', b) \o Rendered(shared', "rewritten")) \o OpenPieces(b)'
                 = MeantUpTo(At, b)'
    <2> DEFINE A == RenderUp(segments, b)
               B == OpenPieces(b)
               M == MeantUpTo(At, b)
    <2>1. A \in Seq(Pieces) /\ B \in Seq(Pieces) /\ M \in Seq(Pieces)
        <3>1. Rendered(raw, "raw") \in Seq(Pieces) /\ <<>> \in Seq(Pieces)
            BY <1>3, RenderedType
        <3>2. B \in Seq(Pieces)
            BY <3>1 DEF OpenPieces
        <3>3. A \in Seq(Pieces) /\ M \in Seq(Pieces)
            BY <1>2, <1>3, RenderUpType, MeantTypes
        <3> QED
            BY <3>2, <3>3
    <2>2. (A \o <<>>) \o B = M
        BY <1>3, NoLinesGiveNothing DEF RenderedSoFar
    <2>3. MeantUpTo(At, b)' = M \o <<>>
        BY <1>1, <1>6, MeantOnwards
    <2>4. RenderUp(segments', b) = A \o B
        <3>1. PiecesOf(seg, b) = OpenPieces(b)
            BY <1>4, <1>5 DEF PiecesOf, OpenPieces
        <3> QED
            BY <1>1, <1>3, <1>5, <3>1, RenderUpNext
    <2>5. Rendered(shared', "rewritten") = <<>> /\ OpenPieces(b)' = <<>>
        <3>1. "none" # b
            BY DEF Backend
        <3> QED
            BY <1>1, <1>3, <3>1, NoLinesGiveNothing DEF OpenPieces
    <2> HIDE DEF A, B, M
    <2>6. A \o B = M /\ M \o <<>> = M /\ ((A \o B) \o <<>>) \o <<>> = A \o B
        BY <2>1, <2>2
    <2> QED
        BY <2>3, <2>4, <2>5, <2>6
<1>11. RenderedSoFar'
    BY <1>10 DEF RenderedSoFar
<1>12. SharedSoFar'
    <2> DEFINE A == SharedStatements(segments)
               M == OutsideUpTo(At)
    <2>1. A \in Seq(Line)
        BY <1>3, SharedStatementsType
    <2>2. A \o <<>> = M
        BY <1>3, NoLinesGiveNothing DEF SharedSoFar
    <2>3. OutsideUpTo(At)' = M \o <<>>
        BY <1>1, <1>3, <1>6, MeantOnwards
    <2>4. SharedStatements(segments') = A \o <<>>
        <3>1. OfShared(seg) = <<>>
            BY <1>4, <1>5 DEF OfShared
        <3> QED
            BY <1>1, <1>3, <1>5, <3>1, SharedNext
    <2>5. Statements(shared') = <<>>
        BY <1>1, <1>3, NoLinesGiveNothing
    <2> HIDE DEF A, M
    <2>6. SharedStatements(segments') \o Statements(shared') = OutsideUpTo(At)'
        BY <2>2, <2>3, <2>4, <2>5
    <2> QED
        BY <2>6 DEF SharedSoFar
<1> QED
    BY <1>2, <1>7, <1>8, <1>9, <1>11, <1>12

LEMMA TakeLineKeeps ==
    ASSUME ReadingInv, NEW line, TakeLine(line)
    PROVE  ReadingInv'
<1> USE DEF ReadingInv
<1>1. /\ Reading(line) /\ line \notin Directive /\ outcome' = outcome
      /\ segments' = segments /\ block' = block
      /\ block = "none" => shared' = Append(shared, line) /\ raw' = raw
      /\ block # "none" => raw' = Append(raw, line) /\ shared' = shared
    BY DEF TakeLine
<1>2. /\ sql' = sql /\ rest' \in Seq(Line) /\ At' = At + 1 /\ At \in Nat /\ Scanned'
      /\ At <= Len(sql) /\ sql \in Seq(Line) /\ line \in Line /\ line \in Content
    BY <1>1, ReadsNext, TypeFacts DEF Content
<1>3. /\ segments \in Seq(Segments)
      /\ shared \in Seq(Content) /\ shared \in Seq(Line)
      /\ raw \in Seq(Content) /\ raw \in Seq(Line)
      /\ block \in Backend \cup {"none"}
      /\ block # "none" => shared = <<>>
      /\ block = "none" => raw = <<>>
    BY TypeFacts DEF Opened
<1>4. Governing(sql, At + 2) = Governing(sql, At + 1)
    BY <1>1, MeansNext
<1>5. TypeOK'
    <2>1. shared' \in Seq(Content) /\ raw' \in Seq(Content)
        <3>1. Append(shared, line) \in Seq(Content) /\ Append(raw, line) \in Seq(Content)
            BY <1>2, <1>3
        <3> QED
            BY <1>1, <1>3, <3>1
    <2> QED
        BY <1>1, <1>2, <2>1 DEF TypeOK, Segments, Content
<1>6. Opened'
    <2>1. At' + 1 = At + 2
        BY <1>2
    <2> QED
        BY <1>1, <1>2, <1>3, <1>4, <2>1 DEF Opened
<1>7. FormedSoFar'
    BY <1>1, FormedNext
<1>8. ASSUME NEW b \in Backend
      PROVE  (RenderUp(segments', b) \o Rendered(shared', "rewritten")) \o OpenPieces(b)'
                = MeantUpTo(At, b)'
    <2> DEFINE A == RenderUp(segments, b)
               B == Rendered(shared, "rewritten")
               C == OpenPieces(b)
               M == MeantUpTo(At, b)
               X == MeantAt(sql, At + 1, b)
    <2>1. /\ A \in Seq(Pieces) /\ B \in Seq(Pieces) /\ C \in Seq(Pieces)
          /\ X \in Seq(Pieces)
        <3>1. Rendered(raw, "raw") \in Seq(Pieces) /\ <<>> \in Seq(Pieces)
            BY <1>3, RenderedType
        <3>2. C \in Seq(Pieces)
            BY <3>1 DEF OpenPieces
        <3>3. At + 1 \in 1 .. Len(sql)
            BY <1>1, <1>2, ReadsNext
        <3> QED
            BY <1>2, <1>3, <3>2, <3>3, RenderUpType, RenderedType, MeantAtType
    <2>2. (A \o B) \o C = M
        BY DEF RenderedSoFar
    <2>3. MeantUpTo(At, b)' = M \o X
        BY <1>1, MeantOnwards
    <2>4. CASE block = "none"
        <3>1. X = Kept(line, Piece(line, "rewritten"))
            BY <1>1, <2>4, MeansNext
        <3>2. Rendered(shared', "rewritten") = B \o X
            BY <1>1, <1>2, <1>3, <2>4, <3>1, RenderedNext
        <3>3. C = <<>> /\ OpenPieces(b)' = <<>>
            <4>1. "none" # b
                BY DEF Backend
            <4> QED
                BY <1>1, <2>4, <4>1 DEF OpenPieces
        <3> HIDE DEF A, B, C, M, X
        <3>4. (A \o (B \o X)) \o <<>> = ((A \o B) \o <<>>) \o X
            BY <2>1
        <3> QED
            BY <1>1, <2>2, <2>3, <3>2, <3>3, <3>4 DEF A
    <2>5. CASE block # "none" /\ block = b
        <3>1. X = Kept(line, Piece(line, "raw"))
            BY <1>1, <2>5, MeansNext
        <3>2. OpenPieces(b)' = C \o X
            <4>1. Rendered(raw', "raw") = Rendered(raw, "raw") \o X
                BY <1>1, <1>2, <1>3, <2>5, <3>1, RenderedNext
            <4> QED
                BY <1>1, <2>5, <4>1 DEF OpenPieces
        <3>3. Rendered(shared', "rewritten") = B
            BY <1>1, <2>5
        <3> HIDE DEF A, B, C, M, X
        <3>4. (A \o B) \o (C \o X) = ((A \o B) \o C) \o X
            BY <2>1
        <3> QED
            BY <1>1, <2>2, <2>3, <3>2, <3>3, <3>4 DEF A
    <2>6. CASE block # "none" /\ block # b
        <3>1. X = <<>>
            BY <1>1, <2>6, MeansNext
        <3>2. OpenPieces(b)' = <<>> /\ C = <<>>
            BY <1>1, <2>6 DEF OpenPieces
        <3>3. Rendered(shared', "rewritten") = B
            BY <1>1, <2>6
        <3> HIDE DEF A, B, C, M, X
        <3>4. (A \o B) \o <<>> = ((A \o B) \o <<>>) \o <<>>
            BY <2>1
        <3> QED
            BY <1>1, <2>2, <2>3, <3>1, <3>2, <3>3, <3>4 DEF A
    <2> QED
        BY <2>4, <2>5, <2>6
<1>9. RenderedSoFar'
    BY <1>8 DEF RenderedSoFar
<1>10. SharedSoFar'
    <2> DEFINE A == SharedStatements(segments)
               B == Statements(shared)
               M == OutsideUpTo(At)
               X == OutsideAt(sql, At + 1)
    <2>1. A \in Seq(Line) /\ B \in Seq(Line) /\ X \in Seq(Line)
        <3>1. At + 1 \in 1 .. Len(sql)
            BY <1>1, <1>2, ReadsNext
        <3>2. "postgres" \in Backend
            BY DEF Backend
        <3> QED
            BY <1>2, <1>3, <3>1, <3>2, SharedStatementsType, StatementsType, MeantAtType
    <2>2. A \o B = M
        BY DEF SharedSoFar
    <2>3. OutsideUpTo(At)' = M \o X
        <3>1. "postgres" \in Backend
            BY DEF Backend
        <3> QED
            BY <1>1, <3>1, MeantOnwards
    <2>4. CASE block = "none"
        <3>1. Statements(shared') = B \o X
            BY <1>1, <1>2, <1>3, <2>4, MeansNext, StatementsNext
        <3>2. SharedStatements(segments') = A
            BY <1>1
        <3> HIDE DEF A, B, M, X
        <3>3. A \o (B \o X) = (A \o B) \o X
            BY <2>1
        <3>4. SharedStatements(segments') \o Statements(shared') = OutsideUpTo(At)'
            BY <2>2, <2>3, <3>1, <3>2, <3>3
        <3> QED
            BY <3>4 DEF SharedSoFar
    <2>5. CASE block # "none"
        <3>1. X = <<>>
            BY <1>1, <2>5, MeansNext
        <3>2. SharedStatements(segments') = A /\ Statements(shared') = B
            BY <1>1, <2>5
        <3> HIDE DEF A, B, M, X
        <3>3. A \o B = (A \o B) \o <<>>
            BY <2>1
        <3>4. SharedStatements(segments') \o Statements(shared') = OutsideUpTo(At)'
            BY <2>2, <2>3, <3>1, <3>2, <3>3
        <3> QED
            BY <3>4 DEF SharedSoFar
    <2> QED
        BY <2>4, <2>5
<1> QED
    BY <1>2, <1>5, <1>6, <1>7, <1>9, <1>10

\* A misplaced directive is one of a text that is not well formed.
LEMMA RejectKeeps ==
    ASSUME ReadingInv, NEW line, NEW error \in Errors, Reject(line, error)
    PROVE  TypeOK' /\ Scanned' /\ outcome' \in Errors /\ sql' = sql /\ ~WellFormed(sql)
<1> USE DEF ReadingInv
<1>1. /\ Reading(line) /\ outcome' = error
      /\ \/ line \in Backend /\ block # "none"
         \/ line = "end" /\ block = "none"
         \/ line = "other"
      /\ UNCHANGED <<segments, shared, block, raw>>
    BY DEF Reject
<1>2. /\ sql' = sql /\ rest' \in Seq(Line) /\ At \in Nat /\ Scanned'
      /\ At + 1 <= Len(sql) /\ sql \in Seq(Line) /\ line = sql[At + 1]
    BY <1>1, ReadsNext, TypeFacts
<1>3. Governing(sql, At + 1) = IF block = "none" THEN "end" ELSE block
    BY DEF Opened
<1>4. block \in Backend \cup {"none"} /\ "end" \notin Backend
    BY TypeFacts DEF Backend
<1>5. ~FormedAt(sql, At + 1) /\ At + 1 \in DOMAIN sql
    BY <1>1, <1>2, <1>3, <1>4 DEF FormedAt
<1>6. ~WellFormed(sql)
    BY <1>5 DEF WellFormed, FormedAt
<1>7. TypeOK'
    BY <1>1, <1>2 DEF TypeOK
<1> QED
    BY <1>1, <1>2, <1>6, <1>7

\* At the end of the text everything has been read.
LEMMA AtEndKeeps ==
    ASSUME ReadingInv, AtEnd
    PROVE  /\ TypeOK' /\ Scanned' /\ sql' = sql /\ outcome' # "reading"
           /\ outcome' = "ok" <=> WellFormed(sql)
           /\ outcome' = "ok" =>
                 /\ \A b \in Backend : RenderUp(segments', b) = Meant(sql, b)
                 /\ SharedStatements(segments') = Outside(sql)
<1> USE DEF ReadingInv
<1>1. /\ rest = <<>> /\ UNCHANGED <<sql, rest, shared, block, raw>>
      /\ block # "none" => outcome' = "unclosed" /\ segments' = segments
      /\ block = "none" => outcome' = "ok" /\ segments' = Flushed
    BY DEF AtEnd
<1>2. sql \in Seq(Line) /\ Len(sql) \in Nat /\ At = Len(sql)
    BY <1>1, TypeFacts DEF At
<1>3. /\ Flushed \in Seq(Segments)
      /\ \A b \in Backend :
            RenderUp(Flushed, b) = RenderUp(segments, b) \o Rendered(shared, "rewritten")
      /\ SharedStatements(Flushed) = SharedStatements(segments) \o Statements(shared)
    BY FlushedGives
<1>4. block \in Backend \cup {"none"} /\ "end" \notin Backend
    BY TypeFacts DEF Backend
<1>5. TypeOK'
    <2>1. segments' \in Seq(Segments)
        BY <1>1, <1>3, TypeFacts
    <2> QED
        BY <1>1, <2>1 DEF TypeOK, Segments, Content, Errors
<1>6. Scanned'
    BY <1>1 DEF Scanned, At
<1>7. WellFormed(sql) <=> block = "none"
    <2>1. Governing(sql, Len(sql) + 1) = IF block = "none" THEN "end" ELSE block
        BY <1>2 DEF Opened
    <2>2. \A i \in DOMAIN sql : FormedAt(sql, i)
        BY <1>2 DEF FormedSoFar
    <2> QED
        BY <1>4, <2>1, <2>2 DEF WellFormed, FormedAt
<1>8. ASSUME block = "none", NEW b \in Backend PROVE RenderUp(segments', b) = Meant(sql, b)
    <2> DEFINE A == RenderUp(segments, b)
               B == Rendered(shared, "rewritten")
    <2>1. A \in Seq(Pieces) /\ B \in Seq(Pieces)
        BY TypeFacts, RenderUpType, RenderedType
    <2>2. OpenPieces(b) = <<>>
        <3>1. "none" # b
            BY DEF Backend
        <3> QED
            BY <1>8, <3>1 DEF OpenPieces
    <2>3. (A \o B) \o <<>> = MeantUpTo(At, b)
        BY <2>2 DEF RenderedSoFar
    <2>4. MeantUpTo(At, b) = Meant(sql, b)
        BY <1>2, MeantEnds
    <2>5. RenderUp(segments', b) = A \o B
        BY <1>1, <1>3, <1>8
    <2> HIDE DEF A, B
    <2>6. (A \o B) \o <<>> = A \o B
        BY <2>1
    <2> QED
        BY <2>3, <2>4, <2>5, <2>6
<1>9. ASSUME block = "none" PROVE SharedStatements(segments') = Outside(sql)
    <2>1. SharedStatements(segments) \o Statements(shared) = OutsideUpTo(At)
        BY DEF SharedSoFar
    <2>2. OutsideUpTo(At) = Outside(sql)
        <3>1. "postgres" \in Backend
            BY DEF Backend
        <3> QED
            BY <1>2, <3>1, MeantEnds
    <2> QED
        BY <1>1, <1>3, <1>9, <2>1, <2>2
<1> QED
    BY <1>1, <1>5, <1>6, <1>7, <1>8, <1>9

LEMMA ScanInvInit == Init => ScanInv
<1> SUFFICES ASSUME Init PROVE ScanInv
    OBVIOUS
<1>1. /\ sql \in Lines(MaxLines) /\ rest = sql /\ segments = <<>> /\ shared = <<>>
      /\ block = "none" /\ raw = <<>> /\ outcome = "reading"
    BY DEF Init
<1>2. sql \in Seq(Line)
    BY <1>1, LinesAssumption DEF Lines
<1>3. /\ segments \in Seq(Segments) /\ shared \in Seq(Content) /\ raw \in Seq(Content)
    BY <1>1
<1>4. TypeOK
    BY <1>1, <1>2, <1>3 DEF TypeOK, Segments, Content
<1>5. At = 0
    BY <1>1, <1>2 DEF At
<1>6. Scanned /\ FormedSoFar
    BY <1>1, <1>2, <1>5 DEF Scanned, FormedSoFar
<1>7. Opened
    BY <1>1, <1>5, FirstGoverned DEF Opened
<1>8. \A b \in Backend : RenderUp(segments, b) = <<>>
    <2>1. [i \in DOMAIN <<>> |-> PiecesOf(<<>>[i], "postgres")] = <<>>
        OBVIOUS
    <2>2. ASSUME NEW b \in Backend PROVE RenderUp(<<>>, b) = <<>>
        <3>1. [i \in DOMAIN <<>> |-> PiecesOf(<<>>[i], b)] = <<>>
            OBVIOUS
        <3> QED
            BY <3>1, FlattenNothing DEF RenderUp
    <2> QED
        BY <1>1, <2>2
<1>9. SharedStatements(segments) = <<>>
    <2>1. [i \in DOMAIN <<>> |-> OfShared(<<>>[i])] = <<>>
        OBVIOUS
    <2> QED
        BY <1>1, <2>1, FlattenNothing DEF SharedStatements, OfShared
<1>10. RenderedSoFar
    <2>1. ASSUME NEW b \in Backend
          PROVE  (RenderUp(segments, b) \o Rendered(shared, "rewritten")) \o OpenPieces(b)
                    = MeantUpTo(At, b)
        <3>1. OpenPieces(b) = <<>> /\ Rendered(shared, "rewritten") = <<>>
            <4>1. "none" # b
                BY DEF Backend
            <4> QED
                BY <1>1, <4>1, NoLinesGiveNothing DEF OpenPieces
        <3>2. MeantUpTo(At, b) = <<>>
            BY <1>2, <1>5, MeantEnds
        <3>3. (<<>> \o <<>>) \o <<>> = <<>>
            OBVIOUS
        <3> QED
            BY <1>8, <3>1, <3>2, <3>3
    <2> QED
        BY <2>1 DEF RenderedSoFar
<1>11. SharedSoFar
    <2>1. OutsideUpTo(At) = <<>>
        <3>1. "postgres" \in Backend
            BY DEF Backend
        <3> QED
            BY <1>2, <1>5, <3>1, MeantEnds
    <2>2. <<>> \o <<>> = <<>>
        OBVIOUS
    <2> QED
        BY <1>1, <1>9, <2>1, <2>2, NoLinesGiveNothing DEF SharedSoFar
<1> QED
    BY <1>1, <1>4, <1>6, <1>7, <1>10, <1>11
       DEF ScanInv, AcceptsWellFormed, EachBackendGetsItsLines, ModelSeesSharedOnly

LEMMA ScanInvNext == ScanInv /\ [Next]_vars => ScanInv'
<1> SUFFICES ASSUME ScanInv, [Next]_vars PROVE ScanInv'
    OBVIOUS
<1>1. outcome = "reading" => ReadingInv
    BY DEF ScanInv, ReadingInv
<1>2. ASSUME outcome = "reading", outcome' = "reading", ReadingInv' PROVE ScanInv'
    BY <1>2 DEF ScanInv, ReadingInv, AcceptsWellFormed, EachBackendGetsItsLines, ModelSeesSharedOnly
<1>3. ASSUME NEW b \in Backend, OpenBlock(b) PROVE ScanInv'
    <2>1. outcome = "reading" /\ outcome' = "reading"
        BY <1>3 DEF OpenBlock, Reading
    <2> QED
        BY <1>1, <1>2, <1>3, <2>1, OpenBlockKeeps
<1>4. ASSUME CloseBlock PROVE ScanInv'
    <2>1. outcome = "reading" /\ outcome' = "reading"
        BY <1>4 DEF CloseBlock, Reading
    <2> QED
        BY <1>1, <1>2, <1>4, <2>1, CloseBlockKeeps
<1>5. ASSUME NEW line \in Line, TakeLine(line) PROVE ScanInv'
    <2>1. outcome = "reading" /\ outcome' = "reading"
        BY <1>5 DEF TakeLine, Reading
    <2> QED
        BY <1>1, <1>2, <1>5, <2>1, TakeLineKeeps
<1>6. ASSUME NEW line \in Directive, NEW error \in Errors, Reject(line, error) PROVE ScanInv'
    <2>1. outcome = "reading"
        BY <1>6 DEF Reject, Reading
    <2>2. TypeOK' /\ Scanned' /\ outcome' \in Errors /\ sql' = sql /\ ~WellFormed(sql)
        BY <1>1, <1>6, <2>1, RejectKeeps
    <2>3. outcome' # "reading" /\ outcome' # "ok"
        BY <2>2 DEF Errors
    <2> QED
        BY <2>2, <2>3
           DEF ScanInv, AcceptsWellFormed, EachBackendGetsItsLines, ModelSeesSharedOnly
<1>7. ASSUME AtEnd PROVE ScanInv'
    <2>1. outcome = "reading"
        BY <1>7 DEF AtEnd
    <2>2. /\ TypeOK' /\ Scanned' /\ sql' = sql /\ outcome' # "reading"
          /\ outcome' = "ok" <=> WellFormed(sql)
          /\ outcome' = "ok" =>
                /\ \A b \in Backend : RenderUp(segments', b) = Meant(sql, b)
                /\ SharedStatements(segments') = Outside(sql)
        BY <1>1, <1>7, <2>1, AtEndKeeps
    <2>3. AcceptsWellFormed' /\ EachBackendGetsItsLines' /\ ModelSeesSharedOnly'
        BY <2>2 DEF AcceptsWellFormed, EachBackendGetsItsLines, ModelSeesSharedOnly
    <2> QED
        BY <2>2, <2>3 DEF ScanInv
<1>8. CASE UNCHANGED vars
    <2>1. UNCHANGED <<sql, rest, segments, shared, block, raw, outcome>>
        BY <1>8 DEF vars
    <2>2. At' = At
        BY <2>1 DEF At
    <2>3. TypeOK' /\ Scanned'
        BY <2>1, <2>2 DEF ScanInv, TypeOK, Scanned
    <2>4. AcceptsWellFormed' /\ EachBackendGetsItsLines' /\ ModelSeesSharedOnly'
        BY <2>1 DEF ScanInv, AcceptsWellFormed, EachBackendGetsItsLines, ModelSeesSharedOnly
    <2>5. ASSUME outcome = "reading" PROVE ReadingInv'
        <3>1. Opened' /\ FormedSoFar'
            BY <1>1, <2>1, <2>2, <2>5 DEF ReadingInv, Opened, FormedSoFar
        <3>2. /\ \A b \in Backend : MeantUpTo(At, b)' = MeantUpTo(At, b)
              /\ OutsideUpTo(At)' = OutsideUpTo(At)
            BY <2>1, <2>2 DEF MeantUpTo, OutsideUpTo
        <3>3. RenderedSoFar'
            BY <1>1, <2>1, <2>5, <3>2 DEF ReadingInv, RenderedSoFar, OpenPieces
        <3>4. SharedSoFar'
            BY <1>1, <2>1, <2>5, <3>2 DEF ReadingInv, SharedSoFar
        <3> QED
            BY <2>3, <3>1, <3>3, <3>4 DEF ReadingInv
    <2> QED
        BY <2>1, <2>3, <2>4, <2>5 DEF ScanInv, ReadingInv
<1> QED
    BY <1>3, <1>4, <1>5, <1>6, <1>7, <1>8 DEF Next, Done

-----------------------------------------------------------------------------
(* The results. *)

\* The inductive invariant of the scanner: the block that is open is the one that
\* governs the next line, and the segments with the two buffers come to what the
\* lines read so far mean, for each backend and for the model.
THEOREM ScanInvHolds == Spec => []ScanInv
    BY ScanInvInit, ScanInvNext, PTL DEF Spec

\* Every variable of the scanner stays in its type: no directive gets into a
\* segment, whatever the text.
THEOREM ScanTypesHold == Spec => []TypeOK
<1>1. ScanInv => TypeOK
    BY DEF ScanInv
<1> QED
    BY <1>1, ScanInvHolds, PTL

\* segment accepts exactly the texts whose blocks are well formed, of any length.
THEOREM AlwaysAcceptsWellFormed == Spec => []AcceptsWellFormed
<1>1. ScanInv => AcceptsWellFormed
    BY DEF ScanInv
<1> QED
    BY <1>1, ScanInvHolds, PTL

\* Each backend's up.sql has the statements meant for it and no other, in the
\* order of the text, raw inside its blocks and rewritten outside.
THEOREM EachBackendAlwaysGetsItsLines == Spec => []EachBackendGetsItsLines
<1>1. ScanInv => EachBackendGetsItsLines
    BY DEF ScanInv
<1> QED
    BY <1>1, ScanInvHolds, PTL

\* The model of schema.rs is made from the statements outside all blocks.
THEOREM ModelAlwaysSeesSharedOnly == Spec => []ModelSeesSharedOnly
<1>1. ScanInv => ModelSeesSharedOnly
    BY DEF ScanInv
<1> QED
    BY <1>1, ScanInvHolds, PTL

=============================================================================
