---------------------------- MODULE BridgeProofs ----------------------------
(***************************************************************************)
(* Theorems about Bridge for any values and declarations a body may use,   *)
(* and any number of statements.                                           *)
(*                                                                         *)
(* First the value types: what is written is read back, and the databases  *)
(* compare what is stored alike.  Then the order of rows, and last what    *)
(* the body's statements keep.                                             *)
(***************************************************************************)
EXTENDS Bridge, Flattening, FiniteSetTheorems, TLAPS

-----------------------------------------------------------------------------
(* The value types.                                                        *)

\* A value of the column that the body may write under declaration d.
Fits(col, d, v) ==
    /\ v \in Seq(Int) /\ IsValue(col, v)
    /\ col = "enum" => v[1] \in DOMAIN d.variants

\* The label of a variant is a natural number.
LEMMA LabelType ==
    ASSUME NEW d, IsDeclaration(d), NEW i \in DOMAIN d.variants
    PROVE  Label(d, i) \in Nat
<1>1. d.variants \in Seq([unit : BOOLEAN, rename : Nat])
    BY DEF IsDeclaration
<1>2. d.variants[i] \in [unit : BOOLEAN, rename : Nat] /\ i \in Nat
    <2>1. \A R : \A vs \in Seq(R) : \A k \in DOMAIN vs : vs[k] \in R /\ k \in Nat
        OBVIOUS
    <2> QED
        BY <1>1, <2>1
<1>3. d.variants[i].rename \in Nat
    BY <1>2
<1> QED
    BY <1>2, <1>3 DEF Label, Identifier

\* Sequences of one and two elements are what they look like.
LEMMA ShortSequences ==
    ASSUME NEW v \in Seq(Int)
    PROVE  /\ Len(v) = 1 => v = <<v[1]>> /\ v[1] \in Int
           /\ Len(v) = 2 => v = <<v[1], v[2]>> /\ v[1] \in Int /\ v[2] \in Int
OBVIOUS

\* A label is read as the variant that wrote it, if no other has it.
LEMMA LabelReadsBack ==
    ASSUME NEW d, IsDeclaration(d), DistinctLabels(d), NEW v \in Seq(Int), Len(v) = 1,
           v[1] \in DOMAIN d.variants
    PROVE  FromLabel(d, EnumLabel(d, v)) = Ok(v)
<1> DEFINE s     == EnumLabel(d, v)
           Named == {i \in DOMAIN d.variants : Len(s) = 1 /\ Label(d, i) = s[1]}
<1>1. s = <<Label(d, v[1])>>
    BY DEF EnumLabel
<1>2. Len(s) = 1 /\ s[1] = Label(d, v[1])
    BY <1>1
<1> HIDE DEF s
<1>3. Named = {v[1]}
    BY <1>2 DEF DistinctLabels
<1>4. \A j \in {v[1]} : v[1] <= j
    BY ShortSequences
<1>5. (CHOOSE i \in Named : \A j \in Named : i <= j) = v[1]
    BY <1>3, <1>4
<1>6. FromLabel(d, s) = Ok(<<v[1]>>)
    BY <1>3, <1>5 DEF FromLabel
<1> QED
    BY <1>6, ShortSequences DEF s

\* timestamp.rs, SQLite: within a microsecond, if the year has four digits.
LEMMA TimeTextReadsBack ==
    ASSUME NEW v \in Seq(Int), Len(v) = 1
    PROVE  \/ ReadTimeText(TimeText(v)) = Fail /\ ~FourDigits(YearOf(Micros(v[1])))
           \/ \E n \in Int : ReadTimeText(TimeText(v)) = Ok(<<n>>) /\ v[1] - n \in -1 .. 1
<1> DEFINE us == Micros(v[1])
           y  == YearOf(us)
<1>1. v[1] \in Int /\ us \in Int /\ y \in Int
    BY DEF Micros, YearOf
<1>2. TimeText(v) = <<SignOf(y), IF y < 0 THEN -y ELSE y, us % 2>>
    BY DEF TimeText
<1>3. CASE FourDigits(y)
    <2>1. TimeText(v) = <<NoSign, y, us % 2>>
        <3> HIDE DEF y
        <3>1. SignOf(y) = NoSign
            BY <1>3 DEF SignOf
        <3>2. ~(y < 0)
            BY <1>1, <1>3 DEF FourDigits
        <3> QED
            BY <1>2, <3>1, <3>2
    <2>2. ReadTimeText(TimeText(v)) = Ok(<<2 * (2 * (y - 2000) + (us % 2))>>)
        BY <2>1 DEF ReadTimeText
    <2>3. 2 * (2 * (y - 2000) + (us % 2)) \in Int
        BY <1>1
    <2>4. v[1] - 2 * (2 * (y - 2000) + (us % 2)) \in -1 .. 1
        <3>1. y - 2000 = us \div 2
            BY <1>1 DEF YearOf
        <3>2. 2 * (us \div 2) + (us % 2) = us
            BY <1>1
        <3>3. v[1] - 2 * us \in -1 .. 1
            BY <1>1 DEF Micros
        <3> QED
            BY <3>1, <3>2, <3>3
    <2> QED
        BY <2>2, <2>3, <2>4
<1>4. CASE ~FourDigits(y)
    <2>1. SignOf(y) # NoSign
        BY <1>4 DEF SignOf, NoSign, PlusSign, MinusSign
    <2>2. TimeText(v)[1] # NoSign
        BY <1>2, <2>1
    <2> QED
        BY <1>4, <2>2 DEF ReadTimeText
<1> QED
    BY <1>3, <1>4

\* timestamp.rs, PostgreSQL: towards 2000.
LEMMA TimeMicrosReadsBack ==
    ASSUME NEW v \in Seq(Int), Len(v) = 1
    PROVE  \E n \in Int : /\ TimeMicros(v) = <<n>>
                          /\ ReadTimeMicros(TimeMicros(v)) = Ok(<<2 * n>>)
                          /\ v[1] - 2 * n \in -1 .. 1
<1> DEFINE n == IF v[1] >= 0 THEN v[1] \div 2 ELSE -((-v[1]) \div 2)
<1>1. TimeMicros(v) = <<n>>
    BY DEF TimeMicros
<1>2. v[1] \in Int /\ n \in Int /\ v[1] - 2 * n \in -1 .. 1
    <2>1. v[1] \in Int
        OBVIOUS
    <2>2. ASSUME NEW k \in Int PROVE k - 2 * (k \div 2) \in 0 .. 1 /\ k \div 2 \in Int
        OBVIOUS
    <2>3. CASE v[1] >= 0
        BY <2>1, <2>2, <2>3
    <2>4. CASE ~(v[1] >= 0)
        <3>1. -v[1] \in Int
            BY <2>1
        <3> DEFINE h == (-v[1]) \div 2
        <3>2. h \in Int /\ -v[1] - 2 * h \in 0 .. 1
            BY <3>1, <2>2
        <3> HIDE DEF h
        <3>3. n = -h
            BY <2>4 DEF h
        <3> HIDE DEF n
        <3> QED
            BY <2>1, <3>2, <3>3
    <2> QED
        BY <2>3, <2>4
<1>3. ReadTimeMicros(<<n>>) = Ok(<<2 * n>>)
    BY DEF ReadTimeMicros
<1> QED
    BY <1>1, <1>2, <1>3

\* A number of a negative scale, written out with its zeros.
LEMMA WrittenOut ==
    ASSUME NEW v \in Seq(Int), Len(v) = 2, v[2] < 0
    PROVE  LET w == <<v[1] * 10 ^ (-v[2]), 0>> IN
           w \in Seq(Int) /\ Len(w) = 2 /\ SameNumber(v, w)
<1>1. v[1] \in Int /\ v[2] \in Int
    OBVIOUS
<1>2. -v[2] \in Nat
    BY <1>1
<1>3. 10 ^ (-v[2]) \in Int
    BY <1>2
<1> DEFINE m == v[1] * 10 ^ (-v[2])
<1>4. m \in Int
    BY <1>1, <1>3
<1>5. 0 - v[2] = -v[2] /\ 0 - 0 = 0
    BY <1>1
<1>6. v[1] * 10 ^ (0 - v[2]) = m
    BY <1>5
<1> HIDE DEF m
<1>7. m * 10 ^ (0 - 0) = m
    <2>1. 10 ^ 0 = 1
        OBVIOUS
    <2>2. m * 1 = m
        BY <1>4
    <2> QED
        BY <2>1, <2>2, <1>5
<1>8. ~(v[2] > 0)
    BY <1>1
<1>9. <<m, 0>> \in Seq(Int) /\ Len(<<m, 0>>) = 2 /\ SameNumber(v, <<m, 0>>)
    BY <1>4, <1>6, <1>7, <1>8 DEF SameNumber
<1> QED
    BY <1>9 DEF m

\* decimal.rs: a numeric is the number, at scale 0 or more, and so is a text, up
\* to the length at which it gets an exponent.
LEMMA NumericReadsBack ==
    ASSUME NEW v \in Seq(Int), Len(v) = 2
    PROVE  /\ DecimalNumeric(v) \in Seq(Int) /\ SameNumber(v, DecimalNumeric(v))
           /\ DecimalText(v) \in Seq(Int) /\ Len(DecimalText(v)) = 2
           /\ SameNumber(v, DecimalText(v))
<1>1. v[1] \in Int /\ v[2] \in Int
    OBVIOUS
<1>2. SameNumber(v, v)
    BY DEF SameNumber
<1> DEFINE w == <<v[1] * 10 ^ (-v[2]), 0>>
<1>3. v[2] < 0 => w \in Seq(Int) /\ Len(w) = 2 /\ SameNumber(v, w)
    BY WrittenOut
<1>4. DecimalNumeric(v) = IF v[2] < 0 THEN w ELSE v
    BY DEF DecimalNumeric
<1>5. DecimalText(v) = IF v[2] \in -TrailingZeros .. -1 THEN w ELSE v
    BY DEF DecimalText
<1>6. v[2] \in -TrailingZeros .. -1 => v[2] < 0
    BY <1>1 DEF TrailingZeros
<1> HIDE DEF w
<1> QED
    BY <1>2, <1>3, <1>4, <1>5, <1>6

\* What serde_json makes of a float's text is near enough.
LEMMA FloatReadsBack ==
    ASSUME NEW arm \in {"pg", "sqlite"}, NEW n \in Int
    PROVE  ParsedFloat(arm, n) \in Int /\ SameFloat(arm, n, ParsedFloat(arm, n))
BY FloatAssumption DEF ParsedFloat, SameFloat

\* A JSON content, parsed from the form that it was written in.
LEMMA ContentReadsBack ==
    ASSUME NEW arm \in {"pg", "sqlite"}, NEW v \in Seq(Int), Len(v) = 3, NEW order
    PROVE  SameJson(arm, v, <<JsonContent(arm, v[1], v[3]), order, v[3]>>)
<1>1. v[1] \in Int
    OBVIOUS
<1>2. CASE v[3] \in {Float, LargeFloat}
    BY <1>1, <1>2, FloatReadsBack DEF JsonContent, SameJson
<1>3. CASE v[3] \notin {Float, LargeFloat}
    BY <1>3 DEF JsonContent, SameJson
<1> QED
    BY <1>2, <1>3

\* On PostgreSQL every value is read back.
LEMMA PgReadsBack ==
    ASSUME NEW col \in Columns, NEW d, IsDeclaration(d), col = "enum" => DistinctLabels(d),
           NEW v, Fits(col, d, v)
    PROVE  \E u : PgFromSql(col, d, PgToSql(col, d, v)) = Ok(u) /\ Same("pg", col, v, u)
<1> USE DEF PgFromSql, PgToSql, Same
<1>0. v \in Seq(Int) /\ IsValue(col, v)
    BY DEF Fits
<1>1. CASE col = "uuid"
    BY <1>1 DEF UuidNative, ReadUuidNative
<1>2. CASE col = "bytes"
    BY <1>2 DEF BytesAsTheyAre, ReadBytes
<1>3. CASE col = "timestamp"
    <2>1. Len(v) = 1
        BY <1>0, <1>3 DEF IsValue
    <2>2. PICK n \in Int : ReadTimeMicros(TimeMicros(v)) = Ok(<<2 * n>>) /\ v[1] - 2 * n \in -1 .. 1
        BY <1>0, <2>1, TimeMicrosReadsBack
    <2>3. Same("pg", col, v, <<2 * n>>)
        BY <1>3, <2>2
    <2> QED
        BY <1>3, <2>2, <2>3
<1>4. CASE col = "decimal"
    <2>1. Len(v) = 2
        BY <1>0, <1>4 DEF IsValue
    <2> QED
        BY <1>0, <1>4, <2>1, NumericReadsBack DEF ReadNumeric
<1>5. CASE col = "json"
    <2> DEFINE form == IF v[3] = LargeFloat THEN Plain ELSE v[3]
               u    == <<JsonContent("pg", v[1], form), 0, form>>
    <2>1. JsonWire(v) = <<JsonbVersion, v[1], form>>
        BY DEF JsonWire
    <2>2. ReadJsonWire(JsonWire(v)) = Ok(u)
        BY <2>1 DEF ReadJsonWire
    <2>3. Len(v) = 3
        BY <1>0, <1>5 DEF IsValue
    <2>4. SameJson("pg", v, u)
        <3>1. CASE v[3] = LargeFloat
            <4>1. u = <<v[1], 0, Plain>>
                BY <3>1 DEF JsonContent, Plain, Float, LargeFloat
            <4> HIDE DEF u
            <4> QED
                BY <3>1, <4>1 DEF SameJson
        <3>2. CASE v[3] # LargeFloat
            BY <1>0, <2>3, <3>2, ContentReadsBack
        <3> QED
            BY <3>1, <3>2
    <2> HIDE DEF u
    <2> QED
        BY <1>5, <2>2, <2>4
<1>6. CASE col = "array"
    BY <1>6 DEF ArrayNative, ReadArrayNative
<1>7. CASE col = "enum"
    <2>1. FromLabel(d, EnumLabel(d, v)) = Ok(v)
        BY <1>0, <1>7, LabelReadsBack DEF IsValue, Fits
    <2> QED
        BY <1>7, <2>1
<1> QED
    BY <1>1, <1>2, <1>3, <1>4, <1>5, <1>6, <1>7 DEF Columns

\* On SQLite a value is read back or refused, and refused only if it is one
\* that SQLite does not hold.
LEMMA SqliteReadsBack ==
    ASSUME NEW col \in Columns, NEW d, IsDeclaration(d), col = "enum" => DistinctLabels(d),
           NEW v, Fits(col, d, v)
    PROVE  \/ SqliteFromSql(col, d, SqliteToSql(col, d, v)) = Fail /\ ~Portable(col, v)
           \/ \E u : SqliteFromSql(col, d, SqliteToSql(col, d, v)) = Ok(u)
                    /\ Same("sqlite", col, v, u)
<1> USE DEF SqliteFromSql, SqliteToSql, Same, Portable
<1>0. v \in Seq(Int) /\ IsValue(col, v)
    BY DEF Fits
<1>1. CASE col = "uuid"
    BY <1>0, <1>1 DEF UuidBlob, ReadUuidBlob, IsValue
<1>2. CASE col = "bytes"
    BY <1>2 DEF BytesAsTheyAre, ReadBytes
<1>3. CASE col = "timestamp"
    <2>1. Len(v) = 1
        BY <1>0, <1>3 DEF IsValue
    <2>2. CASE ReadTimeText(TimeText(v)) = Fail /\ ~FourDigits(YearOf(Micros(v[1])))
        BY <1>3, <2>2
    <2>3. ASSUME NEW n \in Int, ReadTimeText(TimeText(v)) = Ok(<<n>>), v[1] - n \in -1 .. 1
          PROVE  \E u : ReadTimeText(TimeText(v)) = Ok(u) /\ Same("sqlite", "timestamp", v, u)
        <3>1. Same("sqlite", "timestamp", v, <<n>>)
            BY <2>3
        <3> QED
            BY <2>3, <3>1
    <2> QED
        BY <1>0, <1>3, <2>1, <2>2, <2>3, TimeTextReadsBack
<1>4. CASE col = "decimal"
    <2>1. Len(v) = 2
        BY <1>0, <1>4 DEF IsValue
    <2>2. Len(DecimalText(v)) = 2 /\ SameNumber(v, DecimalText(v))
        BY <1>0, <2>1, NumericReadsBack
    <2>3. ReadDecimalText(DecimalText(v)) = Ok(DecimalText(v))
        BY <2>2 DEF ReadDecimalText
    <2> QED
        BY <1>4, <2>2, <2>3
<1>5. CASE col = "json"
    <2> DEFINE u == <<JsonContent("sqlite", v[1], v[3]), v[2], v[3]>>
    <2>1. Len(v) = 3
        BY <1>0, <1>5 DEF IsValue
    <2>2. ReadJsonText(JsonText(v)) = Ok(u)
        BY <2>1 DEF ReadJsonText, JsonText
    <2>3. SameJson("sqlite", v, u)
        BY <1>0, <2>1, ContentReadsBack
    <2> HIDE DEF u
    <2> QED
        BY <1>5, <2>2, <2>3
<1>6. CASE col = "array"
    <2>1. \A i \in DOMAIN v : v[i] \notin {Null, -1}
        BY <1>0, <1>6 DEF IsValue
    <2>2. CASE \E i \in DOMAIN v : v[i] = NaN
        <3>1. PICK i \in DOMAIN v : v[i] = NaN
            BY <2>2
        <3>2. i \in DOMAIN ArrayText(v) /\ ArrayText(v)[i] = Null
            BY <3>1 DEF ArrayText
        <3>3. ReadArrayText(ArrayText(v)) = Fail
            BY <3>2 DEF ReadArrayText
        <3> QED
            BY <1>6, <3>1, <3>3
    <2>3. CASE ~\E i \in DOMAIN v : v[i] = NaN
        <3>1. \A i \in DOMAIN v : ArrayText(v)[i] = v[i]
            BY <2>3 DEF ArrayText
        <3>2. ArrayText(v) = [i \in DOMAIN v |-> v[i]]
            BY <2>3 DEF ArrayText
        <3>3. ArrayText(v) = v
            BY <1>0, <3>2
        <3> DEFINE u == [i \in DOMAIN v |-> ParsedFloat("sqlite", v[i])]
        <3>4. ReadArrayText(v) = Ok(u)
            BY <2>1 DEF ReadArrayText
        <3>5. Len(v) \in Nat /\ DOMAIN v = 1 .. Len(v) /\ \A i \in DOMAIN v : v[i] \in Int
            BY <1>0
        <3>6. Len(u) = Len(v) /\ \A i \in DOMAIN v : u[i] = ParsedFloat("sqlite", v[i])
            BY <3>5
        <3>7. \A i \in DOMAIN v : SameFloat("sqlite", v[i], u[i])
            BY <3>5, <3>6, FloatReadsBack
        <3> HIDE DEF u
        <3>8. Same("sqlite", "array", v, u)
            BY <3>6, <3>7
        <3> QED
            BY <1>6, <3>3, <3>4, <3>8
    <2> QED
        BY <2>2, <2>3
<1>7. CASE col = "enum"
    <2>1. FromLabel(d, EnumLabel(d, v)) = Ok(v)
        BY <1>0, <1>7, LabelReadsBack DEF IsValue, Fits
    <2> QED
        BY <1>7, <2>1
<1> QED
    BY <1>1, <1>2, <1>3, <1>4, <1>5, <1>6, <1>7 DEF Columns

\* A cell that another program spoilt is refused.
LEMMA JunkRefused ==
    ASSUME NEW col \in Columns, col # "bytes", NEW d, IsDeclaration(d)
    PROVE  SqliteFromSql(col, d, Junk) = Fail
<1> USE DEF SqliteFromSql
<1>0. Len(Junk) = 1 /\ Junk[1] = -1 /\ DOMAIN Junk = {1}
    BY DEF Junk
<1>1. CASE col = "array"
    BY <1>0, <1>1 DEF ReadArrayText
<1>2. CASE col = "enum"
    <2> DEFINE Named == {i \in DOMAIN d.variants : Len(Junk) = 1 /\ Label(d, i) = Junk[1]}
    <2>1. \A i \in DOMAIN d.variants : Label(d, i) # -1
        BY LabelType
    <2>2. Named = {}
        BY <1>0, <2>1
    <2> QED
        BY <1>2, <2>2 DEF FromLabel
<1>3. CASE col \in {"uuid", "timestamp", "decimal", "json"}
    BY <1>0, <1>3 DEF ReadUuidBlob, ReadTimeText, ReadDecimalText, ReadJsonText
<1> QED
    BY <1>1, <1>2, <1>3 DEF Columns

\* What is written is a cell.
LEMMA CellType ==
    ASSUME NEW col \in Columns, NEW d, IsDeclaration(d), NEW v, Fits(col, d, v)
    PROVE  SqliteToSql(col, d, v) \in Seq(Int) /\ PgToSql(col, d, v) \in Seq(Int)
<1> USE DEF SqliteToSql, PgToSql
<1>0. v \in Seq(Int) /\ IsValue(col, v)
    BY DEF Fits
<1>1. CASE col \in {"uuid", "bytes"}
    BY <1>0, <1>1 DEF UuidBlob, UuidNative, BytesAsTheyAre
<1>2. CASE col = "timestamp"
    <2>1. Len(v) = 1 /\ v[1] \in Int
        BY <1>0, <1>2 DEF IsValue
    <2>2. \E n \in Int : TimeMicros(v) = <<n>>
        BY <1>0, <2>1, TimeMicrosReadsBack
    <2> DEFINE us == Micros(v[1])
               y  == YearOf(us)
    <2>3. us \in Int /\ y \in Int /\ SignOf(y) \in Int /\ us % 2 \in Int
        BY <2>1 DEF Micros, YearOf, SignOf, NoSign, PlusSign, MinusSign
    <2> HIDE DEF us, y
    <2>4. (IF y < 0 THEN -y ELSE y) \in Int
        BY <2>3
    <2>5. <<SignOf(y), IF y < 0 THEN -y ELSE y, us % 2>> \in Seq(Int)
        BY <2>3, <2>4
    <2>6. TimeText(v) \in Seq(Int)
        BY <2>5 DEF TimeText, us, y
    <2> QED
        BY <1>2, <2>2, <2>6
<1>3. CASE col = "decimal"
    <2>1. Len(v) = 2
        BY <1>0, <1>3 DEF IsValue
    <2> QED
        BY <1>0, <1>3, <2>1, NumericReadsBack
<1>4. CASE col = "json"
    <2> DEFINE form == IF v[3] = LargeFloat THEN Plain ELSE v[3]
    <2>1. v[1] \in Int /\ v[3] \in Int
        BY <1>0, <1>4 DEF IsValue
    <2>2. form \in Int
        BY <2>1 DEF Plain
    <2> HIDE DEF form
    <2>3. <<JsonbVersion, v[1], form>> \in Seq(Int)
        BY <2>1, <2>2 DEF JsonbVersion
    <2> QED
        BY <1>0, <1>4, <2>3 DEF JsonText, JsonWire, form
<1>5. CASE col = "array"
    <2>1. \A i \in DOMAIN v : (IF v[i] = NaN THEN Null ELSE v[i]) \in Int
        BY <1>0 DEF Null
    <2>2. ArrayText(v) \in Seq(Int)
        <3>1. Len(v) \in Nat /\ DOMAIN v = 1 .. Len(v)
            BY <1>0
        <3>2. ArrayText(v) \in [1 .. Len(v) -> Int]
            BY <2>1, <3>1 DEF ArrayText
        <3> QED
            BY <3>1, <3>2
    <2> QED
        BY <1>0, <1>5, <2>2 DEF ArrayNative
<1>6. CASE col = "enum"
    <2>1. Label(d, v[1]) \in Nat
        BY <1>6, LabelType DEF Fits
    <2> QED
        BY <1>6, <2>1 DEF EnumLabel
<1> QED
    BY <1>1, <1>2, <1>3, <1>4, <1>5, <1>6 DEF Columns

-----------------------------------------------------------------------------
(* The order of what is stored.                                            *)

\* x and y differ at i, and not before.
Parts(x, y, i) ==
    /\ i \in 1 .. Len(x) /\ i \in 1 .. Len(y)
    /\ x[i] # y[i]
    /\ \A j \in 1 .. i - 1 : x[j] = y[j]

\* x begins y.
Heads(x, y) == Len(x) <= Len(y) /\ \A j \in 1 .. Len(x) : x[j] = y[j]

\* Two cells part somewhere or one begins the other.
LEMMA PartOrHead ==
    ASSUME NEW x \in Seq(Int), NEW y \in Seq(Int)
    PROVE  (\E i \in Nat : Parts(x, y, i)) \/ Heads(x, y) \/ Heads(y, x)
<1> DEFINE Differ == {i \in Nat : i \in 1 .. Len(x) /\ i \in 1 .. Len(y) /\ x[i] # y[i]}
<1>1. CASE Differ = {}
    <2>1. \A j \in Nat : j \in 1 .. Len(x) /\ j \in 1 .. Len(y) => x[j] = y[j]
        BY <1>1
    <2> HIDE DEF Differ
    <2>2. Len(x) \in Nat /\ Len(y) \in Nat
        OBVIOUS
    <2>3. CASE Len(x) <= Len(y)
        <3>1. \A j \in 1 .. Len(x) : j \in Nat /\ j \in 1 .. Len(y)
            BY <2>2, <2>3
        <3> QED
            BY <2>1, <2>3, <3>1 DEF Heads
    <2>4. CASE Len(y) <= Len(x)
        <3>1. \A j \in 1 .. Len(y) : j \in Nat /\ j \in 1 .. Len(x)
            BY <2>2, <2>4
        <3> QED
            BY <2>1, <2>4, <3>1 DEF Heads
    <2> QED
        BY <2>2, <2>3, <2>4
<1>2. CASE Differ # {}
    <2>1. PICK i \in Differ : \A m \in Differ : i <= m
        BY <1>2, Smallest
    <2>2. i \in Nat /\ i \in 1 .. Len(x) /\ i \in 1 .. Len(y) /\ x[i] # y[i]
        OBVIOUS
    <2>3. ASSUME NEW j \in 1 .. i - 1 PROVE x[j] = y[j]
        <3>1. j \in Nat /\ j \in 1 .. Len(x) /\ j \in 1 .. Len(y) /\ ~(i <= j)
            <4> DEFINE lx == Len(x)
                       ly == Len(y)
            <4>1. lx \in Nat /\ ly \in Nat
                OBVIOUS
            <4>2. i \in Nat /\ i \in 1 .. lx /\ i \in 1 .. ly
                BY <2>2
            <4> HIDE DEF Differ, lx, ly
            <4>3. j \in Nat /\ j \in 1 .. lx /\ j \in 1 .. ly /\ ~(i <= j)
                BY <4>1, <4>2
            <4> QED
                BY <4>3 DEF lx, ly
        <3>2. j \notin Differ
            BY <2>1, <3>1
        <3> QED
            BY <3>1, <3>2
    <2>4. Parts(x, y, i)
        BY <2>2, <2>3 DEF Parts
    <2> QED
        BY <2>2, <2>4
<1> QED
    BY <1>1, <1>2

\* The order by the first difference.
LEMMA BeforeWhereParting ==
    ASSUME NEW x \in Seq(Int), NEW y \in Seq(Int), NEW i \in Nat, Parts(x, y, i)
    PROVE  StoredBefore(x, y) <=> x[i] < y[i]
<1> DEFINE Common == DOMAIN x \cap DOMAIN y
           Differ == {k \in Common : x[k] # y[k]}
<1>1. \A k : k \in Common <=> k \in 1 .. Len(x) /\ k \in 1 .. Len(y)
    OBVIOUS
<1>2. i \in Differ
    BY <1>1 DEF Parts
<1>3. \A k \in Differ : k \in Nat /\ i <= k
    <2>1. ASSUME NEW k \in Differ PROVE k \in Nat /\ i <= k
        <3>1. k \in 1 .. Len(x) /\ x[k] # y[k]
            BY <1>1
        <3>2. k \notin 1 .. i - 1
            BY <3>1 DEF Parts
        <3> QED
            BY <3>1, <3>2
    <2> QED
        BY <2>1
<1> HIDE DEF Differ
<1>4. StoredBefore(x, y) <=> \E k \in Differ : x[k] < y[k] /\ \A j \in Differ : k <= j
    BY <1>2 DEF StoredBefore, Differ
<1>5. ASSUME NEW k \in Differ, \A j \in Differ : k <= j PROVE k = i
    BY <1>2, <1>3, <1>5
<1> QED
    BY <1>2, <1>3, <1>4, <1>5

\* The order where there is none.
LEMMA BeforeWhereHeading ==
    ASSUME NEW x \in Seq(Int), NEW y \in Seq(Int), Heads(x, y) \/ Heads(y, x)
    PROVE  StoredBefore(x, y) <=> Len(x) < Len(y)
<1> DEFINE Common == DOMAIN x \cap DOMAIN y
           Differ == {k \in Common : x[k] # y[k]}
<1>1. Differ = {}
    BY DEF Heads
<1> QED
    BY <1>1 DEF StoredBefore

\* Of two cells one is before the other, and only one.
LEMMA StoredTotal ==
    ASSUME NEW x \in Seq(Int), NEW y \in Seq(Int)
    PROVE  /\ x # y => StoredBefore(x, y) \/ StoredBefore(y, x)
           /\ ~(StoredBefore(x, y) /\ StoredBefore(y, x))
<1>1. ASSUME NEW i \in Nat, Parts(x, y, i)
      PROVE  /\ StoredBefore(x, y) \/ StoredBefore(y, x)
             /\ ~(StoredBefore(x, y) /\ StoredBefore(y, x))
    <2>1. Parts(y, x, i) /\ x[i] \in Int /\ y[i] \in Int /\ x[i] # y[i]
        BY <1>1 DEF Parts
    <2> QED
        BY <1>1, <2>1, BeforeWhereParting
<1>2. ASSUME Heads(x, y) \/ Heads(y, x)
      PROVE  /\ x # y => StoredBefore(x, y) \/ StoredBefore(y, x)
             /\ ~(StoredBefore(x, y) /\ StoredBefore(y, x))
    <2>1. (StoredBefore(x, y) <=> Len(x) < Len(y)) /\ (StoredBefore(y, x) <=> Len(y) < Len(x))
        BY <1>2, BeforeWhereHeading
    <2>2. Len(x) = Len(y) => x = y
        BY <1>2 DEF Heads
    <2>3. Len(x) \in Nat /\ Len(y) \in Nat
        OBVIOUS
    <2> QED
        BY <2>1, <2>2, <2>3
<1> QED
    BY <1>1, <1>2, PartOrHead

\* What is before one that is before a third is before the third.
LEMMA StoredTransitive ==
    ASSUME NEW x \in Seq(Int), NEW y \in Seq(Int), NEW z \in Seq(Int),
           StoredBefore(x, y), StoredBefore(y, z)
    PROVE  StoredBefore(x, z)
<1>0. Len(x) \in Nat /\ Len(y) \in Nat /\ Len(z) \in Nat
    OBVIOUS
<1>1. \/ \E i \in Nat : Parts(x, y, i) /\ x[i] < y[i]
      \/ Heads(x, y) /\ Len(x) < Len(y)
    <2>1. Heads(x, y) \/ Heads(y, x) => Heads(x, y) /\ Len(x) < Len(y)
        BY <1>0, BeforeWhereHeading DEF Heads
    <2> QED
        BY <2>1, PartOrHead, BeforeWhereParting
<1>2. \/ \E j \in Nat : Parts(y, z, j) /\ y[j] < z[j]
      \/ Heads(y, z) /\ Len(y) < Len(z)
    <2>1. Heads(y, z) \/ Heads(z, y) => Heads(y, z) /\ Len(y) < Len(z)
        BY <1>0, BeforeWhereHeading DEF Heads
    <2> QED
        BY <2>1, PartOrHead, BeforeWhereParting
<1>3. ASSUME NEW k \in Nat, Parts(x, z, k), x[k] < z[k] PROVE StoredBefore(x, z)
    BY <1>3, BeforeWhereParting
<1>4. ASSUME Heads(x, z), Len(x) < Len(z) PROVE StoredBefore(x, z)
    BY <1>4, BeforeWhereHeading
<1>5. ASSUME NEW i \in Nat, Parts(x, y, i), x[i] < y[i],
             NEW j \in Nat, Parts(y, z, j), y[j] < z[j]
      PROVE  StoredBefore(x, z)
    <2>0. /\ x[i] \in Int /\ y[i] \in Int /\ y[j] \in Int /\ z[j] \in Int
          /\ i >= 1 /\ j >= 1
        BY <1>5 DEF Parts
    <2>1. CASE i < j
        <3>1. i \in 1 .. j - 1
            BY <2>0, <2>1
        <3>2. y[i] = z[i]
            BY <1>5, <3>1 DEF Parts
        <3>3. \A l \in 1 .. i - 1 : l \in 1 .. j - 1
            BY <2>0, <2>1
        <3>4. \A l \in 1 .. i - 1 : x[l] = z[l]
            BY <1>5, <3>3 DEF Parts
        <3>5. i \in 1 .. Len(x) /\ i \in 1 .. Len(z) /\ x[i] # z[i]
            <4>1. i \in 1 .. Len(x) /\ j \in 1 .. Len(z)
                BY <1>5 DEF Parts
            <4>2. x[i] # z[i]
                BY <1>5, <2>0, <3>2
            <4> QED
                BY <1>0, <2>0, <2>1, <4>1, <4>2
        <3>6. Parts(x, z, i)
            BY <3>4, <3>5 DEF Parts
        <3> QED
            BY <1>3, <1>5, <3>2, <3>6
    <2>2. CASE i = j
        <3>1. x[i] < z[i]
            BY <1>5, <2>0, <2>2
        <3>2. i \in 1 .. Len(x) /\ i \in 1 .. Len(z) /\ x[i] # z[i]
            BY <1>5, <2>0, <2>2, <3>1 DEF Parts
        <3>3. \A l \in 1 .. i - 1 : x[l] = y[l] /\ y[l] = z[l]
            BY <1>5, <2>2 DEF Parts
        <3>4. Parts(x, z, i)
            BY <3>2, <3>3 DEF Parts
        <3> QED
            BY <1>3, <3>1, <3>4
    <2>3. CASE j < i
        <3>1. j \in 1 .. i - 1
            BY <2>0, <2>3
        <3>2. x[j] = y[j]
            BY <1>5, <3>1 DEF Parts
        <3>3. \A l \in 1 .. j - 1 : l \in 1 .. i - 1
            BY <2>0, <2>3
        <3>4. \A l \in 1 .. j - 1 : x[l] = z[l]
            BY <1>5, <3>3 DEF Parts
        <3>5. j \in 1 .. Len(x) /\ j \in 1 .. Len(z) /\ x[j] # z[j]
            <4>1. i \in 1 .. Len(x) /\ j \in 1 .. Len(z)
                BY <1>5 DEF Parts
            <4>2. x[j] # z[j]
                BY <1>5, <2>0, <3>2
            <4> QED
                BY <1>0, <2>0, <2>3, <4>1, <4>2
        <3>6. Parts(x, z, j)
            BY <3>4, <3>5 DEF Parts
        <3> QED
            BY <1>3, <1>5, <3>2, <3>6
    <2> QED
        BY <2>1, <2>2, <2>3
<1>6. ASSUME NEW i \in Nat, Parts(x, y, i), x[i] < y[i], Heads(y, z)
      PROVE  StoredBefore(x, z)
    <2>1. y[i] = z[i] /\ i \in 1 .. Len(z)
        BY <1>0, <1>6 DEF Parts, Heads
    <2>2. Parts(x, z, i)
        BY <1>0, <1>6, <2>1 DEF Parts, Heads
    <2> QED
        BY <1>3, <1>6, <2>1, <2>2
<1>7. ASSUME Heads(x, y), Len(x) < Len(y), NEW j \in Nat, Parts(y, z, j), y[j] < z[j]
      PROVE  StoredBefore(x, z)
    <2>1. CASE j <= Len(x)
        <3>1. j \in 1 .. Len(x) /\ x[j] = y[j]
            BY <1>0, <1>7, <2>1 DEF Parts, Heads
        <3>2. Parts(x, z, j)
            BY <1>0, <1>7, <2>1, <3>1 DEF Parts, Heads
        <3> QED
            BY <1>3, <1>7, <3>1, <3>2
    <2>2. CASE ~(j <= Len(x))
        <3>1. Heads(x, z) /\ Len(x) < Len(z)
            BY <1>0, <1>7, <2>2 DEF Parts, Heads
        <3> QED
            BY <1>4, <3>1
    <2> QED
        BY <2>1, <2>2
<1>8. ASSUME Heads(x, y), Len(x) < Len(y), Heads(y, z), Len(y) < Len(z)
      PROVE  StoredBefore(x, z)
    <2>1. Heads(x, z) /\ Len(x) < Len(z)
        BY <1>0, <1>8 DEF Heads
    <2> QED
        BY <1>4, <2>1
<1> QED
    BY <1>1, <1>2, <1>5, <1>6, <1>7, <1>8

-----------------------------------------------------------------------------
(* Ranks.                                                                  *)

\* A finite set in an order has an element at every rank, and no two at one.
LEMMA Ranks ==
    ASSUME NEW S, IsFiniteSet(S), NEW R,
           \A x \in S : <<x, x>> \notin R,
           \A x, y \in S : x # y => <<x, y>> \in R \/ <<y, x>> \in R,
           \A x, y, z \in S : <<x, y>> \in R /\ <<y, z>> \in R => <<x, z>> \in R
    PROVE  \A k \in 1 .. Cardinality(S) :
              \E r \in S : /\ Cardinality({x \in S : <<x, r>> \in R}) = k - 1
                           /\ \A q \in S : Cardinality({x \in S : <<x, q>> \in R}) = k - 1 => q = r
<1> DEFINE Below(r) == {x \in S : <<x, r>> \in R}
           n == Cardinality(S)
           f == [r \in S |-> Cardinality(Below(r)) + 1]
<1>0. n \in Nat
    BY FS_CardinalityType
<1>1. \A r \in S : Below(r) \in SUBSET S /\ Below(r) # S /\ IsFiniteSet(Below(r))
    <2>1. ASSUME NEW r \in S PROVE Below(r) \in SUBSET S /\ r \notin Below(r)
        OBVIOUS
    <2> QED
        BY <2>1, FS_Subset
<1>2. \A r \in S : Cardinality(Below(r)) \in Nat /\ Cardinality(Below(r)) < n
    <2>1. ASSUME NEW r \in S PROVE Cardinality(Below(r)) \in Nat /\ Cardinality(Below(r)) < n
        <3>1. Cardinality(Below(r)) <= n /\ Cardinality(Below(r)) # n
            BY <1>1, FS_Subset
        <3>2. Cardinality(Below(r)) \in Nat
            BY <1>1, FS_CardinalityType
        <3> HIDE DEF Below, n
        <3> QED
            BY <1>0, <3>1, <3>2
    <2> QED
        BY <2>1
<1>3. ASSUME NEW x \in S, NEW y \in S, <<x, y>> \in R
      PROVE  Cardinality(Below(x)) < Cardinality(Below(y))
    <2>1. Below(x) \in SUBSET Below(y)
        BY <1>3
    <2>2. x \in Below(y) /\ x \notin Below(x)
        BY <1>3
    <2>3. /\ Cardinality(Below(x)) <= Cardinality(Below(y))
          /\ Cardinality(Below(x)) # Cardinality(Below(y))
        BY <1>1, <2>1, <2>2, FS_Subset
    <2> HIDE DEF Below
    <2> QED
        BY <1>2, <2>3
<1>4. f \in [S -> 1 .. n]
    <2> HIDE DEF Below, n
    <2>1. \A r \in S : Cardinality(Below(r)) + 1 \in 1 .. n
        BY <1>0, <1>2
    <2> QED
        BY <2>1
<1>5. ASSUME NEW x \in S, NEW y \in S, f[x] = f[y] PROVE x = y
    <2>1. Cardinality(Below(x)) + 1 = Cardinality(Below(y)) + 1
        BY <1>5
    <2> HIDE DEF Below
    <2>2. Cardinality(Below(x)) = Cardinality(Below(y))
        BY <1>2, <2>1
    <2>3. ~(Cardinality(Below(x)) < Cardinality(Below(y)))
        BY <1>2, <2>2
    <2>4. ~(Cardinality(Below(y)) < Cardinality(Below(x)))
        BY <1>2, <2>2
    <2>5. <<x, y>> \notin R /\ <<y, x>> \notin R
        BY <1>3, <2>3, <2>4
    <2> QED
        BY <2>5
<1>6. f \in Injection(S, 1 .. n)
    <2> HIDE DEF f
    <2> QED
        BY <1>4, <1>5 DEF Injection, IsInjective
<1>7. IsFiniteSet(1 .. n) /\ Cardinality(1 .. n) = n
    <2>1. 1 \in Int /\ n \in Int
        BY <1>0
    <2>2. IsFiniteSet(1 .. n) /\ Cardinality(1 .. n) = IF 1 > n THEN 0 ELSE n - 1 + 1
        BY <2>1, FS_Interval
    <2> HIDE DEF n
    <2> QED
        BY <1>0, <2>2
<1>8. f \in Surjection(S, 1 .. n)
    BY <1>6, <1>7, FS_Injection
<1>9. ASSUME NEW k \in 1 .. n
      PROVE  \E r \in S : /\ Cardinality(Below(r)) = k - 1
                          /\ \A q \in S : Cardinality(Below(q)) = k - 1 => q = r
    <2>1. PICK r \in S : f[r] = k
        BY <1>8 DEF Surjection
    <2>2. Cardinality(Below(r)) = k - 1
        <3>1. Cardinality(Below(r)) + 1 = k
            BY <2>1
        <3> HIDE DEF Below
        <3> QED
            BY <1>2, <3>1
    <2>3. ASSUME NEW q \in S, Cardinality(Below(q)) = k - 1 PROVE q = r
        <3>1. f[q] = f[r]
            BY <2>2, <2>3
        <3> QED
            BY <1>5, <3>1
    <2> QED
        BY <2>2, <2>3
<1> QED
    BY <1>9

-----------------------------------------------------------------------------
(* What both databases hold they compare alike.                            *)

\* One number is before another in the cells <<a>> and <<b>>.
LEMMA BeforeOne ==
    ASSUME NEW a \in Int, NEW b \in Int
    PROVE  StoredBefore(<<a>>, <<b>>) <=> a < b
<1> DEFINE x == <<a>>
           y == <<b>>
<1>1. x \in Seq(Int) /\ y \in Seq(Int) /\ Len(x) = 1 /\ Len(y) = 1 /\ x[1] = a /\ y[1] = b
    OBVIOUS
<1> HIDE DEF x, y
<1>2. CASE a = b
    <2>1. Heads(x, y)
        BY <1>1, <1>2 DEF Heads
    <2>2. ~StoredBefore(x, y)
        BY <1>1, <2>1, BeforeWhereHeading
    <2> QED
        BY <1>2, <2>2 DEF x, y
<1>3. CASE a # b
    <2>1. Parts(x, y, 1)
        BY <1>1, <1>3 DEF Parts
    <2>2. StoredBefore(x, y) <=> a < b
        BY <1>1, <2>1, BeforeWhereParting
    <2> QED
        BY <2>2 DEF x, y
<1> QED
    BY <1>2, <1>3

\* The order of texts of one sign.
LEMMA BeforeText ==
    ASSUME NEW s \in Int, NEW a \in Int, NEW b \in Int, NEW f \in Int, NEW g \in Int
    PROVE  StoredBefore(<<s, a, f>>, <<s, b, g>>) <=> a < b \/ (a = b /\ f < g)
<1> DEFINE x == <<s, a, f>>
           y == <<s, b, g>>
<1>1. /\ x \in Seq(Int) /\ y \in Seq(Int) /\ Len(x) = 3 /\ Len(y) = 3
      /\ x[1] = s /\ y[1] = s /\ x[2] = a /\ y[2] = b /\ x[3] = f /\ y[3] = g
    OBVIOUS
<1> HIDE DEF x, y
<1>2. CASE a # b
    <2>1. Parts(x, y, 2)
        BY <1>1, <1>2 DEF Parts
    <2>2. StoredBefore(x, y) <=> a < b
        BY <1>1, <2>1, BeforeWhereParting
    <2> QED
        BY <1>2, <2>2 DEF x, y
<1>3. CASE a = b /\ f # g
    <2>1. Parts(x, y, 3)
        BY <1>1, <1>3 DEF Parts
    <2>2. StoredBefore(x, y) <=> f < g
        BY <1>1, <2>1, BeforeWhereParting
    <2> QED
        BY <1>3, <2>2 DEF x, y
<1>4. CASE a = b /\ f = g
    <2>1. Heads(x, y)
        BY <1>1, <1>4 DEF Heads
    <2>2. ~StoredBefore(x, y)
        BY <1>1, <2>1, BeforeWhereHeading
    <2> QED
        BY <1>4, <2>2 DEF x, y
<1> QED
    BY <1>2, <1>3, <1>4

\* The microsecond us, in either form.
Instant(v, us) ==
    /\ us \in Int
    /\ TimeMicros(v) = <<us>>
    /\ TimeText(v) = <<NoSign, 2000 + us \div 2, us % 2>>

\* An instant that both databases hold is a microsecond.
LEMMA PortableTime ==
    ASSUME NEW v \in Seq(Int), Len(v) = 1, Portable("timestamp", v)
    PROVE  \E us : Instant(v, us)
<1> DEFINE us == Micros(v[1])
<1>1. v[1] \in Int /\ v[1] % 2 = 0 /\ FourDigits(YearOf(us))
    BY DEF Portable
<1>2. us \in Int /\ v[1] = 2 * us
    BY <1>1 DEF Micros
<1>3. TimeMicros(v) = <<us>>
    <2>1. \A k \in Int : (2 * k) \div 2 = k
        OBVIOUS
    <2>2. CASE v[1] >= 0
        <3>1. v[1] \div 2 = us
            BY DEF Micros
        <3> QED
            BY <2>2, <3>1 DEF TimeMicros
    <2>3. CASE ~(v[1] >= 0)
        <3> HIDE DEF us
        <3>1. -v[1] = 2 * (-us) /\ -us \in Int
            BY <1>2
        <3>2. (-v[1]) \div 2 = -us
            BY <2>1, <3>1
        <3>3. -((-v[1]) \div 2) = us
            BY <1>2, <3>2
        <3> QED
            BY <2>3, <3>3 DEF TimeMicros
    <2> QED
        BY <2>2, <2>3
<1>4. TimeText(v) = <<NoSign, YearOf(us), us % 2>>
    <2> DEFINE y == YearOf(us)
    <2>1. y \in Int
        BY <1>2 DEF YearOf
    <2> HIDE DEF y
    <2>2. SignOf(y) = NoSign
        BY <1>1 DEF SignOf, y
    <2>3. ~(y < 0)
        <3>1. FourDigits(y)
            BY <1>1 DEF y
        <3> QED
            BY <2>1, <3>1 DEF FourDigits
    <2>4. TimeText(v) = <<SignOf(y), IF y < 0 THEN -y ELSE y, us % 2>>
        BY DEF TimeText, y
    <2> QED
        BY <2>2, <2>3, <2>4 DEF y
<1> QED
    BY <1>2, <1>3, <1>4 DEF YearOf, Instant

\* What either database orders by the value, both order alike.
LEMMA OrderAlike ==
    ASSUME NEW col \in Ordered, NEW d, NEW v, NEW w, Fits(col, d, v), Fits(col, d, w),
           Portable(col, v), Portable(col, w)
    PROVE  /\ PgToSql(col, d, v) = PgToSql(col, d, w)
                <=> SqliteToSql(col, d, v) = SqliteToSql(col, d, w)
           /\ StoredBefore(PgToSql(col, d, v), PgToSql(col, d, w))
                <=> StoredBefore(SqliteToSql(col, d, v), SqliteToSql(col, d, w))
<1> USE DEF PgToSql, SqliteToSql
<1>1. col \in {"uuid", "bytes", "timestamp"}
    BY DEF Ordered, Columns, SqlType
<1>2. CASE col = "uuid"
    BY <1>2 DEF UuidNative, UuidBlob
<1>3. CASE col = "bytes"
    BY <1>3 DEF BytesAsTheyAre
<1>4. CASE col = "timestamp"
    <2>1. v \in Seq(Int) /\ Len(v) = 1 /\ w \in Seq(Int) /\ Len(w) = 1
        BY <1>4 DEF Fits, IsValue
    <2> HIDE DEF PgToSql, SqliteToSql
    <2>0. Portable("timestamp", v) /\ Portable("timestamp", w)
        BY <1>4
    <2>2. PICK a : Instant(v, a)
        BY <2>0, <2>1, PortableTime
    <2>3. PICK b : Instant(w, b)
        BY <2>0, <2>1, PortableTime
    <2>4. /\ a = 2 * (a \div 2) + (a % 2) /\ a \div 2 \in Int /\ a % 2 \in 0 .. 1
          /\ b = 2 * (b \div 2) + (b % 2) /\ b \div 2 \in Int /\ b % 2 \in 0 .. 1
          /\ a \in Int /\ b \in Int
        BY <2>2, <2>3 DEF Instant
    <2> DEFINE p == 2000 + a \div 2
               q == 2000 + b \div 2
    <2>5. p \in Int /\ q \in Int /\ a % 2 \in Int /\ b % 2 \in Int
        BY <2>4
    <2>6. a = b <=> p = q /\ a % 2 = b % 2
        BY <2>4
    <2>7. a < b <=> p < q \/ (p = q /\ a % 2 < b % 2)
        BY <2>4
    <2> HIDE DEF p, q
    <2>8. StoredBefore(TimeText(v), TimeText(w)) <=> p < q \/ (p = q /\ a % 2 < b % 2)
        BY <2>2, <2>3, <2>5, BeforeText DEF p, q, NoSign, Instant
    <2>9. StoredBefore(TimeMicros(v), TimeMicros(w)) <=> a < b
        BY <2>2, <2>3, BeforeOne DEF Instant
    <2>10. TimeText(v) = TimeText(w) <=> p = q /\ a % 2 = b % 2
        BY <2>2, <2>3 DEF p, q, Instant
    <2>11. TimeMicros(v) = TimeMicros(w) <=> a = b
        BY <2>2, <2>3 DEF Instant
    <2>12. /\ PgToSql(col, d, v) = TimeMicros(v) /\ PgToSql(col, d, w) = TimeMicros(w)
           /\ SqliteToSql(col, d, v) = TimeText(v) /\ SqliteToSql(col, d, w) = TimeText(w)
        BY <1>4 DEF PgToSql, SqliteToSql
    <2> QED
        BY <2>6, <2>7, <2>8, <2>9, <2>10, <2>11, <2>12
<1> QED
    BY <1>1, <1>2, <1>3, <1>4

\* A filter on values written in one way finds the same on both.
LEMMA FilterAlike ==
    ASSUME NEW col \in Columns, NEW d, NEW v, NEW w, Fits(col, d, v), Fits(col, d, w),
           Portable(col, v), Portable(col, w), Canonical(col, v), Canonical(col, w)
    PROVE  StoredEqual("pg", col, PgToSql(col, d, v), PgToSql(col, d, w))
             <=> StoredEqual("sqlite", col, SqliteToSql(col, d, v), SqliteToSql(col, d, w))
<1> USE DEF PgToSql, SqliteToSql, StoredEqual, SqlType
<1>0. v \in Seq(Int) /\ w \in Seq(Int) /\ IsValue(col, v) /\ IsValue(col, w)
    BY DEF Fits
<1>1. CASE col = "uuid"
    BY <1>1 DEF UuidNative, UuidBlob
<1>2. CASE col = "bytes"
    BY <1>2 DEF BytesAsTheyAre
<1>3. CASE col = "timestamp"
    <2>1. col \in Ordered
        BY <1>3 DEF Ordered
    <2> HIDE DEF PgToSql, SqliteToSql
    <2>2. PgToSql(col, d, v) = PgToSql(col, d, w) <=> SqliteToSql(col, d, v) = SqliteToSql(col, d, w)
        BY <2>1, OrderAlike
    <2> QED
        BY <1>3, <2>2
<1>4. CASE col = "decimal"
    <2>1. v = <<v[1], 0>> /\ w = <<w[1], 0>> /\ v[1] \in Int /\ w[1] \in Int
        BY <1>0, <1>4 DEF IsValue, Canonical
    <2>2. DecimalNumeric(v) = v /\ DecimalNumeric(w) = w
        BY <1>4 DEF DecimalNumeric, Canonical
    <2>3. SameNumber(v, w) <=> v[1] = w[1]
        <3>1. v[2] = 0 /\ w[2] = 0
            BY <1>4 DEF Canonical
        <3>2. 0 - 0 = 0 /\ 10 ^ 0 = 1
            OBVIOUS
        <3>3. SameNumber(v, w) <=> v[1] * 10 ^ (0 - 0) = w[1] * 10 ^ (0 - 0)
            BY <3>1 DEF SameNumber
        <3>4. v[1] * 1 = v[1] /\ w[1] * 1 = w[1]
            BY <2>1
        <3> QED
            BY <3>2, <3>3, <3>4
    <2>4. v = w <=> v[1] = w[1]
        BY <2>1
    <2>5. DecimalText(v) = v /\ DecimalText(w) = w
        <3>1. v[2] = 0 /\ w[2] = 0 /\ 0 \notin -TrailingZeros .. -1
            BY <1>4 DEF Canonical, TrailingZeros
        <3> QED
            BY <3>1 DEF DecimalText
    <2> HIDE DEF PgToSql, SqliteToSql, StoredEqual, SqlType
    <2>6. StoredEqual("pg", col, v, w) <=> SameNumber(v, w)
        BY <1>4 DEF StoredEqual, SqlType
    <2>7. StoredEqual("sqlite", col, v, w) <=> v = w
        BY <1>4 DEF StoredEqual, SqlType
    <2>8. PgToSql(col, d, v) = v /\ PgToSql(col, d, w) = w
        BY <1>4, <2>2 DEF PgToSql
    <2>9. SqliteToSql(col, d, v) = v /\ SqliteToSql(col, d, w) = w
        BY <1>4, <2>5 DEF SqliteToSql
    <2> QED
        BY <2>3, <2>4, <2>6, <2>7, <2>8, <2>9
<1>5. CASE col = "json"
    <2>1. v = <<v[1], 0, Plain>> /\ w = <<w[1], 0, Plain>>
        BY <1>0, <1>5 DEF IsValue, Canonical
    <2>2. v = w <=> v[1] = w[1]
        BY <2>1
    <2>3. JsonWire(v)[2] = v[1] /\ JsonWire(w)[2] = w[1]
        BY DEF JsonWire
    <2> QED
        BY <1>5, <2>2, <2>3 DEF JsonText
<1>6. CASE col = "array"
    <2>1. ASSUME NEW u \in Seq(Int), Portable(col, u) PROVE ArrayText(u) = u
        <3>1. ArrayText(u) = [i \in DOMAIN u |-> u[i]]
            BY <1>6, <2>1 DEF ArrayText, Portable
        <3> QED
            BY <3>1
    <2>2. ArrayText(v) = v /\ ArrayText(w) = w
        BY <1>0, <2>1
    <2> QED
        BY <1>6, <2>2 DEF ArrayNative
<1>7. CASE col = "enum"
    BY <1>7
<1> QED
    BY <1>1, <1>2, <1>3, <1>4, <1>5, <1>6, <1>7 DEF Columns

-----------------------------------------------------------------------------
(* The inductive invariant.                                                *)

Stages == {"source", "absent", "generated", "running", "skipped", "failed", "rejected"}

\* What a test runs with is what the program was compiled with.
SettingInOrder ==
    /\ column \in Columns /\ decl \in Decls /\ isAsync \in BOOLEAN
    /\ attr \subseteq Arms \cup {"other"}
    /\ env \in {"unset", "up", "down"}
    /\ test \in [Arms -> Stages]
    /\ test["pg"] = "source" <=> test["sqlite"] = "source"
    /\ \A w \in Arms : test[w] \in {"generated", "running"} /\ column = "enum" => Declares(decl)
    /\ steps \in 0 .. MaxStmts

\* The rows that the body has written, and one that it has not.
Row(w, i) == [id |-> i, cell |-> Bind(w, written[i])]
Rows(w)   == {Row(w, i) : i \in {k \in 1 .. Len(written) : ~Refuses(w, column, written[k])}}
JunkRow   == [id |-> 0, cell |-> Junk]

\* Every running test has written what the body wrote and its database takes; only into SQLite's table
\* another program may have put something else.
TablesInOrder ==
    /\ written \in Seq(Values[column])
    /\ written # <<>> => Running # {}
    /\ table \in [Arms -> SUBSET [id : Nat, cell : Seq(Int)]]
    /\ \A w \in Running :
          \/ table[w] = Rows(w)
          \/ w = "sqlite" /\ column # "bytes" /\ table[w] = Rows(w) \cup {JunkRow}
    /\ \A w \in Arms \ Running : table[w] = {}

\* What is kept is the text of a query that may be.
CachesInOrder ==
    /\ DOMAIN cache = Arms
    /\ \A w \in Arms : \A k \in DOMAIN cache[w] :
          \E q \in {InsertQuery, SelectQuery} : k = CacheKey(q, w) /\ cache[w][k] = Text(q, w)

\* Before the body begins there is nothing to see.
Untold ==
    (\E w \in Arms : test[w] \in {"source", "generated"}) =>
        written = <<>> /\ \A w \in Arms : table[w] = {} /\ answer[w] = NoAnswer

BridgeInv == SettingInOrder /\ TablesInOrder /\ CachesInOrder /\ Untold

-----------------------------------------------------------------------------
(* Steps of the invariant.                                                 *)

\* The values a running body may write fit the declaration it was compiled with.
LEMMA ValuesFit ==
    ASSUME SettingInOrder, Running # {}
    PROVE  \A v \in Values[column] : Fits(column, decl, v)
<1>1. column \in Columns /\ decl \in Decls /\ (column = "enum" => Declares(decl))
    BY DEF SettingInOrder, Running, Arms
<1>2. Values[column] \in SUBSET Seq(Int)
    BY <1>1, BridgeAssumption
<1>3. \A v \in Values[column] : IsValue(column, v)
    BY <1>1, BridgeAssumption
<1>4. column = "enum" => \A v \in Values[column] : v[1] \in DOMAIN decl.variants
    BY <1>1, BridgeAssumption
<1> QED
    BY <1>2, <1>3, <1>4 DEF Fits

LEMMA DeclarationOK ==
    ASSUME SettingInOrder
    PROVE  column \in Columns /\ IsDeclaration(decl)
BY BridgeAssumption DEF SettingInOrder

\* What a running body stores is a cell.
LEMMA BindType ==
    ASSUME SettingInOrder, Running # {}, NEW w \in Arms, NEW v \in Values[column]
    PROVE  Bind(w, v) \in Seq(Int)
<1>1. Fits(column, decl, v)
    BY ValuesFit
<1> QED
    BY <1>1, DeclarationOK, CellType DEF Bind

\* The bridge recognises the lookup of either arm.
LEMMA Recognised ==
    ASSUME SettingInOrder, NEW w \in Arms
    PROVE  FromAny(w, Lookup(w))
<1>1. isAsync \in BOOLEAN
    BY DEF SettingInOrder
<1>2. CASE w = "sqlite"
    BY <1>2 DEF FromAny, Lookup
<1>3. CASE w = "pg" /\ isAsync
    BY <1>3 DEF FromAny, Lookup
<1>4. CASE w = "pg" /\ ~isAsync
    BY <1>4 DEF FromAny, Lookup
<1> QED
    BY <1>2, <1>3, <1>4 DEF Arms

\* The rows of what was written, and of one value more.
LEMMA RowsOfAppended ==
    ASSUME NEW S, written \in Seq(S), NEW v, written' = Append(written, v),
           UNCHANGED <<column, decl>>, NEW w
    PROVE  /\ Len(written') = Len(written) + 1
           /\ Rows(w)' = IF Refuses(w, column, v) THEN Rows(w)
                         ELSE Rows(w) \cup {[id |-> Len(written'), cell |-> Bind(w, v)]}
<1>0. PICK n \in Nat : n = Len(written)
    OBVIOUS
<1>1. /\ Len(written') = n + 1
      /\ \A i \in 1 .. n : written'[i] = written[i]
      /\ written'[n + 1] = v
    <2>1. written \in Seq(S \cup {v}) /\ v \in S \cup {v}
        OBVIOUS
    <2> QED
        BY <1>0, <2>1
<1>2. \A i : Row(w, i)' = [id |-> i, cell |-> Bind(w, written'[i])]
    BY DEF Row, Bind
<1>3. \A i \in 1 .. n : Row(w, i)' = Row(w, i)
    BY <1>1, <1>2 DEF Row
<1>4. Row(w, n + 1)' = [id |-> n + 1, cell |-> Bind(w, v)]
    BY <1>1 DEF Row, Bind
<1>5. ASSUME NEW x
      PROVE  x \in Rows(w)' <=> \E i \in 1 .. n + 1 : ~Refuses(w, column, written'[i]) /\ x = Row(w, i)'
    BY <1>1 DEF Rows
<1>6. ASSUME NEW x
      PROVE  x \in Rows(w) <=> \E i \in 1 .. n : ~Refuses(w, column, written[i]) /\ x = Row(w, i)
    BY <1>0 DEF Rows
<1>7. 1 .. n + 1 = (1 .. n) \cup {n + 1}
    OBVIOUS
<1>8. ASSUME NEW x
      PROVE  x \in Rows(w)' <=> \/ x \in Rows(w)
                               \/ /\ ~Refuses(w, column, v)
                                  /\ x = [id |-> Len(written'), cell |-> Bind(w, v)]
    <2>1. x \in Rows(w)' <=>
              \/ \E i \in 1 .. n : ~Refuses(w, column, written'[i]) /\ x = Row(w, i)'
              \/ ~Refuses(w, column, v) /\ x = Row(w, n + 1)'
        BY <1>1, <1>5, <1>7
    <2>2. x \in Rows(w) <=> \E i \in 1 .. n : ~Refuses(w, column, written'[i]) /\ x = Row(w, i)'
        BY <1>1, <1>3, <1>6
    <2> QED
        BY <1>1, <1>4, <2>1, <2>2
<1>9. CASE Refuses(w, column, v)
    BY <1>0, <1>1, <1>8, <1>9
<1>10. CASE ~Refuses(w, column, v)
    BY <1>0, <1>1, <1>8, <1>10
<1> QED
    BY <1>9, <1>10

\* What the body's statements leave alone.
SameSetting == UNCHANGED <<setting, test>>

LEMMA SettingKept ==
    ASSUME SettingInOrder, SameSetting, steps' \in 0 .. MaxStmts
    PROVE  SettingInOrder' /\ Running' = Running
BY DEF SettingInOrder, SameSetting, setting, Running

\* A value is written into every running test's table that takes it.
LEMMA WrittenKeepsTables ==
    ASSUME SettingInOrder, TablesInOrder, SameSetting, Running # {},
           NEW v \in Values[column], written' = Append(written, v),
           table' = [w \in Arms |->
                        IF w \in Running /\ ~Refuses(w, column, v)
                          THEN table[w] \cup {[id |-> Len(written'), cell |-> Bind(w, v)]}
                          ELSE table[w]]
    PROVE  TablesInOrder'
<1>1. Running' = Running /\ column' = column /\ decl' = decl
    BY DEF SameSetting, setting, Running
<1>2. written \in Seq(Values[column])
    BY DEF TablesInOrder
<1>3. written' \in Seq(Values[column]) /\ Len(written') \in Nat
    BY <1>2
<1>4. ASSUME NEW w \in Arms
      PROVE  Rows(w)' = IF Refuses(w, column, v) THEN Rows(w)
                        ELSE Rows(w) \cup {[id |-> Len(written'), cell |-> Bind(w, v)]}
    BY <1>1, <1>2, RowsOfAppended
<1>5. \A w \in Arms : Bind(w, v) \in Seq(Int)
    BY BindType
<1>6. table' \in [Arms -> SUBSET [id : Nat, cell : Seq(Int)]]
    <2>1. \A w \in Arms : table[w] \in SUBSET [id : Nat, cell : Seq(Int)]
        BY DEF TablesInOrder
    <2>2. \A w \in Arms : [id |-> Len(written'), cell |-> Bind(w, v)] \in [id : Nat, cell : Seq(Int)]
        BY <1>3, <1>5
    <2> QED
        BY <2>1, <2>2
<1>7. ASSUME NEW w \in Running
      PROVE  \/ table'[w] = Rows(w)'
             \/ w = "sqlite" /\ column' # "bytes" /\ table'[w] = Rows(w)' \cup {JunkRow}
    <2>1. w \in Arms
        BY DEF Running
    <2>2. table'[w] = IF Refuses(w, column, v) THEN table[w]
                      ELSE table[w] \cup {[id |-> Len(written'), cell |-> Bind(w, v)]}
        BY <2>1
    <2>3. \/ table[w] = Rows(w)
          \/ w = "sqlite" /\ column # "bytes" /\ table[w] = Rows(w) \cup {JunkRow}
        BY DEF TablesInOrder
    <2>4. Rows(w)' = IF Refuses(w, column, v) THEN Rows(w)
                     ELSE Rows(w) \cup {[id |-> Len(written'), cell |-> Bind(w, v)]}
        BY <1>4, <2>1
    <2> QED
        BY <1>1, <2>2, <2>3, <2>4
<1>8. \A w \in Arms \ Running : table'[w] = {}
    BY DEF TablesInOrder
<1>9. JunkRow' = JunkRow
    BY DEF JunkRow, Junk
<1> QED
    BY <1>1, <1>3, <1>6, <1>7, <1>8, <1>9 DEF TablesInOrder

-----------------------------------------------------------------------------
(* The prepared statements.                                                *)

Queries == {InsertQuery, SelectQuery} \cup {InQuery(n) : n \in Nat}

\* Two queries that may be kept have different keys.
LEMMA KeysDiffer ==
    ASSUME NEW w, NEW p \in {InsertQuery, SelectQuery}, NEW q \in {InsertQuery, SelectQuery},
           CacheKey(p, w) = CacheKey(q, w)
    PROVE  p = q
<1>1. CacheKey(InsertQuery, w).kind = "insert"
    BY DEF CacheKey, Text, InsertQuery
<1>2. CacheKey(SelectQuery, w).kind = "select"
    BY DEF CacheKey, Text, SelectQuery
<1> QED
    BY <1>1, <1>2

\* A query is to be kept if it is one of the two that may be.
LEMMA SafeQueries ==
    ASSUME NEW w, NEW q \in Queries
    PROVE  /\ PushArmSql(q, w).text = Text(q, w)
           /\ PushArmSql(q, w).safe => q \in {InsertQuery, SelectQuery}
           /\ \A n \in Nat : ~PushArmSql(InQuery(n), w).safe
<1>1. \A n \in Nat : ~PushArmSql(InQuery(n), w).safe
    BY DEF PushArmSql, InQuery
<1>2. PushArmSql(q, w).text = Text(q, w)
    BY DEF PushArmSql
<1> QED
    BY <1>1, <1>2 DEF Queries

\* The text that is run is the query's own.
LEMMA OwnText ==
    ASSUME CachesInOrder, NEW w \in Arms, NEW q \in Queries
    PROVE  RunText(w, q) = Text(q, w)
<1> DEFINE key == CacheKey(q, w)
<1>1. CASE PushArmSql(q, w).safe /\ key \in DOMAIN cache[w]
    <2>1. q \in {InsertQuery, SelectQuery}
        BY <1>1, SafeQueries
    <2>2. PICK p \in {InsertQuery, SelectQuery} : key = CacheKey(p, w) /\ cache[w][key] = Text(p, w)
        BY <1>1 DEF CachesInOrder
    <2>3. p = q
        BY <2>1, <2>2, KeysDiffer
    <2> QED
        BY <1>1, <2>2, <2>3 DEF RunText
<1>2. CASE ~(PushArmSql(q, w).safe /\ key \in DOMAIN cache[w])
    BY <1>2, SafeQueries DEF RunText
<1> QED
    BY <1>1, <1>2

\* Keeping a query's text.
LEMMA KeptInOrder ==
    ASSUME CachesInOrder, NEW q \in Queries,
           cache' = [w \in Arms |-> IF w \in Running THEN Kept(w, q) ELSE cache[w]]
    PROVE  CachesInOrder'
<1>1. DOMAIN cache' = Arms
    OBVIOUS
<1>2. ASSUME NEW w \in Arms, NEW k \in DOMAIN cache'[w]
      PROVE  \E p \in {InsertQuery, SelectQuery} : k = CacheKey(p, w) /\ cache'[w][k] = Text(p, w)
    <2>1. CASE k \in DOMAIN cache[w]
        <3>1. \E p \in {InsertQuery, SelectQuery} : k = CacheKey(p, w) /\ cache[w][k] = Text(p, w)
            BY <2>1 DEF CachesInOrder
        <3>2. cache'[w][k] = cache[w][k]
            BY <2>1 DEF Kept
        <3> QED
            BY <3>1, <3>2
    <2>2. CASE k \notin DOMAIN cache[w]
        <3>1. w \in Running /\ cache'[w] = Kept(w, q)
            BY <1>2, <2>2
        <3>2. PushArmSql(q, w).safe
            BY <1>2, <2>2, <3>1 DEF Kept
        <3>3. q \in {InsertQuery, SelectQuery}
            BY <3>2, SafeQueries
        <3>4. /\ DOMAIN Kept(w, q) = DOMAIN cache[w] \cup {CacheKey(q, w)}
              /\ \A j \in DOMAIN Kept(w, q) :
                    Kept(w, q)[j] = IF j \in DOMAIN cache[w] THEN cache[w][j]
                                                             ELSE PushArmSql(q, w).text
            BY <3>2 DEF Kept
        <3>5. k = CacheKey(q, w) /\ cache'[w][k] = Text(q, w)
            BY <1>2, <2>2, <3>1, <3>4, SafeQueries
        <3> QED
            BY <3>3, <3>5
    <2> QED
        BY <2>1, <2>2
<1> QED
    BY <1>1, <1>2 DEF CachesInOrder, CacheKey, Text

-----------------------------------------------------------------------------
(* The invariant holds.                                                    *)

LEMMA BridgeInvInit ==
    Init => BridgeInv
<1> SUFFICES ASSUME Init PROVE BridgeInv
    OBVIOUS
<1>1. \A w \in Arms : test[w] = "source" /\ table[w] = {} /\ answer[w] = NoAnswer
                        /\ cache[w] = [k \in {} |-> NoText]
    BY DEF Init
<1>2. SettingInOrder
    <2>1. decl \in Decls
        BY BridgeAssumption DEF Init
    <2>2. steps \in 0 .. MaxStmts
        BY BridgeAssumption DEF Init
    <2>3. test \in [Arms -> Stages]
        BY DEF Init, Stages
    <2> QED
        BY <1>1, <2>1, <2>2, <2>3 DEF Init, SettingInOrder, Arms
<1>3. Running = {}
    BY <1>1 DEF Running
<1>4. TablesInOrder
    BY <1>1, <1>3 DEF Init, TablesInOrder
<1>5. CachesInOrder
    BY <1>1 DEF Init, CachesInOrder
<1>6. Untold
    BY <1>1 DEF Init, Untold
<1> QED
    BY <1>2, <1>4, <1>5, <1>6 DEF BridgeInv

\* Where no value is written the rows are those of before, for whoever runs.
LEMMA TablesKept ==
    ASSUME TablesInOrder, UNCHANGED <<setting, test, table, written>>
    PROVE  TablesInOrder'
<1>1. Running' = Running /\ column' = column /\ decl' = decl
    BY DEF setting, Running
<1>2. \A w \in Arms : Rows(w)' = Rows(w)
    BY <1>1 DEF Rows, Row, Bind
<1>3. JunkRow' = JunkRow
    BY DEF JunkRow, Junk
<1>4. \A w \in Running : w \in Arms
    BY DEF Running
<1> QED
    BY <1>1, <1>2, <1>3, <1>4 DEF TablesInOrder

LEMMA CompileKeeps ==
    BridgeInv /\ Compile => BridgeInv'
<1> SUFFICES ASSUME BridgeInv, Compile PROVE BridgeInv'
    OBVIOUS
<1> USE DEF BridgeInv
<1>1. \A w \in Arms : test[w] = "source"
    BY DEF Compile
<1>2. Untold /\ written = <<>> /\ \A w \in Arms : table[w] = {} /\ answer[w] = NoAnswer
    BY <1>1 DEF Untold, Arms
<1>3. \A w \in Arms : test'[w] \in {"rejected", "generated", "absent"}
    BY DEF Compile
<1>4. test' \in [Arms -> Stages]
    BY <1>3 DEF Compile, Stages
<1>5. \A w \in Arms : test'[w] = "generated" /\ column = "enum" => Declares(decl)
    <2>1. CASE column = "enum" /\ ~Declares(decl)
        <3>1. ~(ParseBackends(attr) \subseteq Arms) \/ (column = "enum" /\ ~Declares(decl))
            BY <2>1
        <3>2. \A w \in Arms : test'[w] = "rejected"
            BY <3>1 DEF Compile
        <3> QED
            BY <3>2
    <2> QED
        BY <2>1
<1>6. SettingInOrder'
    BY <1>3, <1>4, <1>5 DEF Compile, SettingInOrder, setting, Arms
<1>7. Running' = {}
    BY <1>3 DEF Running
<1>8. written' = <<>> /\ \A w \in Arms : table'[w] = {} /\ answer'[w] = NoAnswer
    BY <1>2 DEF Compile
<1>9. TablesInOrder'
    <2>1. written' \in Seq(Values[column]')
        BY <1>8
    <2>2. table' \in [Arms -> SUBSET [id : Nat, cell : Seq(Int)]]
        BY DEF Compile, TablesInOrder
    <2> QED
        BY <1>7, <1>8, <2>1, <2>2 DEF TablesInOrder
<1>10. CachesInOrder'
    BY DEF Compile, CachesInOrder, CacheKey, Text
<1>11. Untold'
    BY <1>8 DEF Untold, NoAnswer, NoText
<1> QED
    BY <1>6, <1>9, <1>10, <1>11

LEMMA StartKeeps ==
    ASSUME BridgeInv, NEW w \in Arms, Start(w)
    PROVE  BridgeInv'
<1> USE DEF BridgeInv
<1>1. written = <<>> /\ \A u \in Arms : table[u] = {} /\ answer[u] = NoAnswer
    BY DEF Untold, Start
<1>2. /\ \A u \in Arms \ {w} : test'[u] = test[u]
      /\ test'[w] \in {"running", "skipped", "failed"}
      /\ test[w] = "generated"
      /\ test' \in [Arms -> Stages]
    BY DEF Start, SettingInOrder, Stages
<1>3. SettingInOrder'
    BY <1>2 DEF Start, SettingInOrder, setting, Arms
<1>4. written' = <<>> /\ \A u \in Arms : table'[u] = {} /\ answer'[u] = NoAnswer
    BY <1>1 DEF Start
<1>5. \A u \in Arms : Rows(u)' = {}
    BY <1>4 DEF Rows
<1>6. TablesInOrder'
    <2>1. written' \in Seq(Values[column]')
        BY <1>4
    <2>2. table' \in [Arms -> SUBSET [id : Nat, cell : Seq(Int)]]
        BY DEF Start, TablesInOrder
    <2>3. \A u \in Running' : u \in Arms
        BY DEF Running
    <2> QED
        BY <1>4, <1>5, <2>1, <2>2, <2>3 DEF TablesInOrder
<1>7. CachesInOrder'
    BY DEF Start, CachesInOrder, CacheKey, Text
<1>8. Untold'
    BY <1>4 DEF Untold, NoAnswer, NoText
<1> QED
    BY <1>3, <1>6, <1>7, <1>8

\* While the body runs every test has been compiled and started.
Begun == Running # {} /\ \A w \in Arms : test[w] # "generated"

LEMMA BegunNotUntold ==
    ASSUME SettingInOrder, Begun, test' = test
    PROVE  Untold'
<1>1. \A w \in Arms : test[w] \notin {"source", "generated"}
    BY DEF SettingInOrder, Begun, Running, Arms
<1> QED
    BY <1>1 DEF Untold

\* What a statement through the bridge does but for rows and answers.
LEMMA StatementKeeps ==
    ASSUME BridgeInv, NEW q \in Queries, Statement(q)
    PROVE  SettingInOrder' /\ CachesInOrder' /\ Untold' /\ SameSetting /\ Begun
<1> USE DEF BridgeInv
<1>1. SameSetting /\ Begun
    BY DEF Statement, SameSetting, Begun
<1>2. steps' \in 0 .. MaxStmts
    BY BridgeAssumption DEF Statement, SettingInOrder
<1>3. SettingInOrder'
    BY <1>1, <1>2, SettingKept
<1>4. CachesInOrder'
    BY KeptInOrder DEF Statement
<1>5. Untold'
    BY <1>1, BegunNotUntold DEF SameSetting
<1> QED
    BY <1>1, <1>3, <1>4, <1>5

LEMMA InsertKeeps ==
    ASSUME BridgeInv, NEW v \in Values[column], Insert(v)
    PROVE  BridgeInv'
<1> USE DEF BridgeInv
<1>1. SettingInOrder' /\ CachesInOrder' /\ Untold' /\ SameSetting /\ Begun
    BY StatementKeeps DEF Insert, Queries
<1>2. \A w \in Arms : FromAny(w, Lookup(w)) /\ CollectBinds(w, <<v>>)[1] = Bind(w, v)
    BY Recognised DEF CollectBinds
<1>3. table' = [w \in Arms |->
                    IF w \in Running /\ ~Refuses(w, column, v)
                      THEN table[w] \cup {[id |-> Len(written'), cell |-> Bind(w, v)]}
                      ELSE table[w]]
    BY <1>2 DEF Insert
<1>4. TablesInOrder'
    BY <1>1, <1>3, WrittenKeepsTables DEF Insert, Begun
<1> QED
    BY <1>1, <1>4

LEMMA DispatchInsertKeeps ==
    ASSUME BridgeInv, NEW v \in Values[column], DispatchInsert(v)
    PROVE  BridgeInv'
<1> USE DEF BridgeInv
<1>1. SameSetting /\ Begun
    BY DEF DispatchInsert, SameSetting, Begun
<1>2. steps' \in 0 .. MaxStmts
    BY BridgeAssumption DEF DispatchInsert, SettingInOrder
<1>3. SettingInOrder'
    BY <1>1, <1>2, SettingKept
<1>4. TablesInOrder'
    BY <1>1, WrittenKeepsTables DEF DispatchInsert, Begun
<1>5. CachesInOrder'
    BY DEF DispatchInsert, CachesInOrder, CacheKey, Text
<1>6. Untold'
    BY <1>1, BegunNotUntold DEF SameSetting
<1> QED
    BY <1>3, <1>4, <1>5, <1>6

LEMMA SelectKeeps ==
    BridgeInv /\ Select => BridgeInv'
<1> SUFFICES ASSUME BridgeInv, Select PROVE BridgeInv'
    OBVIOUS
<1> USE DEF BridgeInv
<1>1. SettingInOrder' /\ CachesInOrder' /\ Untold' /\ SameSetting
    BY StatementKeeps DEF Select, Queries
<1>2. TablesInOrder'
    BY <1>1, TablesKept DEF Select, SameSetting
<1> QED
    BY <1>1, <1>2

LEMMA SelectInKeeps ==
    ASSUME BridgeInv, NEW S, SelectIn(S)
    PROVE  BridgeInv'
<1> USE DEF BridgeInv
<1>1. Cardinality(S) \in Nat
    BY FS_CardinalityType DEF SelectIn
<1>2. InQuery(Cardinality(S)) \in Queries
    BY <1>1 DEF Queries
<1>3. SettingInOrder' /\ CachesInOrder' /\ Untold' /\ SameSetting
    BY <1>2, StatementKeeps DEF SelectIn
<1>4. TablesInOrder'
    BY <1>3, TablesKept DEF SelectIn, SameSetting
<1> QED
    BY <1>3, <1>4

LEMMA ForeignKeeps ==
    BridgeInv /\ Foreign => BridgeInv'
<1> SUFFICES ASSUME BridgeInv, Foreign PROVE BridgeInv'
    OBVIOUS
<1> USE DEF BridgeInv
<1>1. SameSetting /\ steps' = steps /\ written' = written
    BY DEF Foreign, SameSetting
<1>2. Begun
    BY DEF Foreign, Begun, Running, Arms
<1>3. SettingInOrder' /\ Running' = Running
    BY <1>1, SettingKept DEF SettingInOrder
<1>4. \A w \in Arms : Rows(w)' = Rows(w)
    BY <1>1 DEF Rows, Row, Bind, SameSetting, setting
<1>5. TablesInOrder'
    <2>1. JunkRow \in [id : Nat, cell : Seq(Int)]
        BY DEF JunkRow, Junk
    <2>2. /\ \A w \in Arms : table'[w] = IF w = "sqlite" THEN table[w] \cup {JunkRow} ELSE table[w]
          /\ DOMAIN table' = Arms /\ table' = [w \in Arms |-> table'[w]]
        BY DEF Foreign, TablesInOrder, JunkRow
    <2>3. table' \in [Arms -> SUBSET [id : Nat, cell : Seq(Int)]]
        BY <2>1, <2>2 DEF TablesInOrder
    <2>4. "sqlite" \in Running /\ column # "bytes"
        BY DEF Foreign, Running, Arms
    <2>5. column' = column /\ JunkRow' = JunkRow
        BY <1>1 DEF SameSetting, setting, JunkRow, Junk
    <2>6. \A w \in Running : w \in Arms
        BY DEF Running
    <2>7. ASSUME NEW w \in Running
          PROVE  \/ table'[w] = Rows(w)
                 \/ w = "sqlite" /\ table'[w] = Rows(w) \cup {JunkRow}
        BY <2>2, <2>6 DEF TablesInOrder
    <2>8. \A w \in Arms \ Running : table'[w] = {}
        BY <2>2, <2>4 DEF TablesInOrder
    <2> QED
        BY <1>1, <1>3, <1>4, <2>3, <2>4, <2>5, <2>6, <2>7, <2>8 DEF TablesInOrder
<1>6. CachesInOrder'
    BY DEF Foreign, CachesInOrder, CacheKey, Text
<1>7. Untold'
    BY <1>1, <1>2, BegunNotUntold DEF SameSetting
<1> QED
    BY <1>3, <1>5, <1>6, <1>7

LEMMA StutterKeeps ==
    BridgeInv /\ UNCHANGED vars => BridgeInv'
<1> SUFFICES ASSUME BridgeInv, UNCHANGED vars PROVE BridgeInv'
    OBVIOUS
<1> USE DEF BridgeInv, vars
<1>1. SettingInOrder'
    BY DEF SettingInOrder
<1>2. TablesInOrder'
    BY TablesKept DEF setting
<1>3. CachesInOrder'
    BY DEF CachesInOrder, CacheKey, Text
<1>4. Untold'
    BY DEF Untold, NoAnswer, NoText
<1> QED
    BY <1>1, <1>2, <1>3, <1>4

\* The invariant that the theorems below rest on.
THEOREM BridgeInvHolds == Spec => []BridgeInv
<1>1. BridgeInv /\ [Next]_vars => BridgeInv'
    <2> SUFFICES ASSUME BridgeInv, [Next]_vars PROVE BridgeInv'
        OBVIOUS
    <2>1. CASE Compile
        BY <2>1, CompileKeeps
    <2>2. CASE \E w \in Arms : Start(w)
        BY <2>2, StartKeeps
    <2>3. CASE \E v \in Values[column] : Insert(v) \/ DispatchInsert(v)
        BY <2>3, InsertKeeps, DispatchInsertKeeps
    <2>4. CASE Select
        BY <2>4, SelectKeeps
    <2>5. CASE \E S \in SUBSET Values[column] \ {{}} : SelectIn(S)
        BY <2>5, SelectInKeeps
    <2>6. CASE Foreign
        BY <2>6, ForeignKeeps
    <2>7. CASE Rest \/ UNCHANGED vars
        BY <2>7, StutterKeeps DEF Rest
    <2> QED
        BY <2>1, <2>2, <2>3, <2>4, <2>5, <2>6, <2>7 DEF Next
<1> QED
    BY <1>1, BridgeInvInit, PTL DEF Spec

-----------------------------------------------------------------------------
(* The rows of a load, in order.                                           *)

\* A row is one that the body wrote or the spoilt one, and its key tells which.
LEMMA RowsOfTable ==
    ASSUME BridgeInv, NEW w \in Running
    PROVE  /\ w \in Arms
           /\ IsFiniteSet(table[w])
           /\ \A r \in table[w] : r \in [id : Nat, cell : Seq(Int)]
           /\ \A r \in table[w] :
                 \/ r.id \in 1 .. Len(written) /\ r = Row(w, r.id)
                 \/ r = JunkRow /\ w = "sqlite" /\ column # "bytes"
           /\ \A r, q \in table[w] : r.id = q.id => r = q
<1> USE DEF BridgeInv
<1>0. w \in Arms /\ Len(written) \in Nat
    BY DEF Running, TablesInOrder
<1>1. \/ table[w] = Rows(w)
      \/ w = "sqlite" /\ column # "bytes" /\ table[w] = Rows(w) \cup {JunkRow}
    BY DEF TablesInOrder
<1>2. \A r \in table[w] : r \in [id : Nat, cell : Seq(Int)]
    BY <1>0 DEF TablesInOrder
<1>3. \A i : Row(w, i).id = i
    BY DEF Row
<1>4. JunkRow.id = 0
    BY DEF JunkRow
<1>5. \A r \in Rows(w) : r.id \in 1 .. Len(written) /\ r = Row(w, r.id)
    BY <1>3 DEF Rows
<1>6. IsFiniteSet(Rows(w))
    <2> DEFINE I == {k \in 1 .. Len(written) : ~Refuses(w, column, written[k])}
               f == [i \in I |-> Row(w, i)]
    <2>1. f \in [I -> Rows(w)] /\ \A r \in Rows(w) : \E i \in I : f[i] = r
        BY DEF Rows
    <2>2. f \in Surjection(I, Rows(w))
        BY <2>1 DEF Surjection
    <2>3. IsFiniteSet(I)
        <3>1. IsFiniteSet(1 .. Len(written))
            BY <1>0, FS_Interval
        <3>2. I \in SUBSET (1 .. Len(written))
            OBVIOUS
        <3> HIDE DEF I
        <3> QED
            BY <3>1, <3>2, FS_Subset
    <2> QED
        BY <2>2, <2>3, FS_Surjection
<1>7. IsFiniteSet(table[w])
    BY <1>1, <1>6, FS_AddElement
<1>8. \A r \in table[w] :
          \/ r.id \in 1 .. Len(written) /\ r = Row(w, r.id)
          \/ r = JunkRow /\ w = "sqlite" /\ column # "bytes"
    BY <1>1, <1>5
<1>9. \A r, q \in table[w] : r.id = q.id => r = q
    <2>1. 0 \notin 1 .. Len(written)
        BY <1>0
    <2> QED
        BY <1>4, <1>8, <2>1
<1> QED
    BY <1>0, <1>2, <1>7, <1>8, <1>9

\* Any rows of a table can be put in order in one way.
LEMMA OrderOfRows ==
    ASSUME BridgeInv, NEW w \in Running, NEW rows \in SUBSET table[w]
    PROVE  /\ Cardinality(rows) \in Nat
           /\ \A k \in 1 .. Cardinality(rows) :
                 /\ InOrder(rows)[k] \in rows
                 /\ Cardinality({x \in rows : Before(x, InOrder(rows)[k])}) = k - 1
                 /\ \A q \in rows :
                       Cardinality({x \in rows : Before(x, q)}) = k - 1 => q = InOrder(rows)[k]
<1> DEFINE R == {p \in rows \X rows : Before(p[1], p[2])}
           Place(r, k) == /\ Cardinality({x \in rows : <<x, r>> \in R}) = k - 1
                          /\ \A q \in rows : Cardinality({x \in rows : <<x, q>> \in R}) = k - 1 => q = r
<1>1. \A x, y \in rows : <<x, y>> \in R <=> Before(x, y)
    OBVIOUS
<1>2. \A r \in rows : r.id \in Nat /\ r.cell \in Seq(Int)
    BY RowsOfTable
<1>3. \A r, q \in rows : r.id = q.id => r = q
    BY RowsOfTable
<1>4. IsFiniteSet(rows) /\ Cardinality(rows) \in Nat
    BY RowsOfTable, FS_Subset, FS_CardinalityType
<1>5. \A x \in rows : ~Before(x, x)
    BY <1>2 DEF Before
<1>6. ASSUME NEW x \in rows, NEW y \in rows, x # y PROVE Before(x, y) \/ Before(y, x)
    <2>1. CASE column \in Ordered /\ x.cell # y.cell
        <3>1. StoredBefore(x.cell, y.cell) \/ StoredBefore(y.cell, x.cell)
            BY <1>2, <2>1, StoredTotal
        <3> QED
            BY <2>1, <3>1 DEF Before
    <2>2. CASE ~(column \in Ordered /\ x.cell # y.cell)
        <3>1. x.id < y.id \/ y.id < x.id
            BY <1>2, <1>3, <1>6
        <3> QED
            BY <2>2, <3>1 DEF Before
    <2> QED
        BY <2>1, <2>2
<1>7. ASSUME NEW x \in rows, NEW y \in rows, NEW z \in rows, Before(x, y), Before(y, z)
      PROVE  Before(x, z)
    <2>1. x.id \in Nat /\ y.id \in Nat /\ z.id \in Nat
          /\ x.cell \in Seq(Int) /\ y.cell \in Seq(Int) /\ z.cell \in Seq(Int)
        BY <1>2
    <2>2. CASE column \notin Ordered
        <3>1. x.id < y.id /\ y.id < z.id
            BY <1>7, <2>2 DEF Before
        <3>2. x.id < z.id
            BY <2>1, <3>1
        <3> QED
            BY <2>2, <3>2 DEF Before
    <2>3. CASE column \in Ordered
        <3>1. \/ x.cell = y.cell /\ x.id < y.id
              \/ StoredBefore(x.cell, y.cell)
            BY <1>7, <2>3 DEF Before
        <3>2. \/ y.cell = z.cell /\ y.id < z.id
              \/ StoredBefore(y.cell, z.cell)
            BY <1>7, <2>3 DEF Before
        <3>3. CASE x.cell = y.cell /\ x.id < y.id /\ y.cell = z.cell /\ y.id < z.id
            <4>1. x.cell = z.cell /\ x.id < z.id
                BY <2>1, <3>3
            <4> QED
                BY <4>1 DEF Before
        <3>4. CASE StoredBefore(x.cell, z.cell)
            <4>1. x.cell # z.cell
                BY <2>1, <3>4, StoredTotal
            <4> QED
                BY <2>3, <3>4, <4>1 DEF Before
        <3>5. CASE StoredBefore(x.cell, y.cell) /\ StoredBefore(y.cell, z.cell)
            BY <2>1, <3>4, <3>5, StoredTransitive
        <3> QED
            BY <3>1, <3>2, <3>3, <3>4, <3>5
    <2> QED
        BY <2>2, <2>3
<1> HIDE DEF R
<1>8. \A k \in 1 .. Cardinality(rows) : \E r \in rows : Place(r, k)
    <2>1. \A x \in rows : <<x, x>> \notin R
        BY <1>1, <1>5
    <2>2. \A x, y \in rows : x # y => <<x, y>> \in R \/ <<y, x>> \in R
        BY <1>1, <1>6
    <2>3. \A x, y, z \in rows : <<x, y>> \in R /\ <<y, z>> \in R => <<x, z>> \in R
        BY <1>1, <1>7
    <2> QED
        BY <1>4, <2>1, <2>2, <2>3, Ranks
<1>9. \A r \in rows : {x \in rows : <<x, r>> \in R} = {x \in rows : Before(x, r)}
    BY <1>1
<1>10. ASSUME NEW k \in 1 .. Cardinality(rows)
       PROVE  /\ InOrder(rows)[k] \in rows
              /\ Cardinality({x \in rows : Before(x, InOrder(rows)[k])}) = k - 1
              /\ \A q \in rows :
                    Cardinality({x \in rows : Before(x, q)}) = k - 1 => q = InOrder(rows)[k]
    <2>1. PICK r \in rows : Place(r, k)
        BY <1>8
    <2>2. /\ Cardinality({x \in rows : Before(x, r)}) = k - 1
          /\ \A q \in rows : Cardinality({x \in rows : Before(x, q)}) = k - 1 => q = r
        BY <1>9, <2>1
    <2>3. InOrder(rows)[k] = CHOOSE q \in rows : Cardinality({x \in rows : Before(x, q)}) = k - 1
        BY DEF InOrder
    <2>4. InOrder(rows)[k] = r
        BY <2>2, <2>3
    <2> QED
        BY <2>2, <2>4
<1> QED
    BY <1>4, <1>10

-----------------------------------------------------------------------------
(* What a load answers.                                                    *)

\* A row is read as what was written, or refused for a reason.
LEMMA RowRead ==
    ASSUME BridgeInv, Readable, NEW w \in Running, NEW r \in table[w]
    PROVE  \/ /\ Decoded(RawValue(w, r.cell)) = Fail
              /\ r = JunkRow \/ (r.id \in 1 .. Len(written) /\ ~Portable(column, written[r.id]))
           \/ /\ r.id \in 1 .. Len(written)
              /\ \E u : Decoded(RawValue(w, r.cell)) = Ok(u) /\ Same(w, column, written[r.id], u)
<1> USE DEF BridgeInv
<1>1. column \in Columns /\ IsDeclaration(decl) /\ (column = "enum" => DistinctLabels(decl))
    BY DeclarationOK DEF Readable
<1>2. w \in Arms
    BY RowsOfTable
<1>3. CASE r = JunkRow /\ w = "sqlite" /\ column # "bytes"
    <2>1. r.cell = Junk
        BY <1>3 DEF JunkRow
    <2>2. Decoded(RawValue(w, r.cell)) = SqliteFromSql(column, decl, Junk)
        BY <1>3, <2>1 DEF Decoded, RawValue
    <2>3. SqliteFromSql(column, decl, Junk) = Fail
        BY <1>1, <1>3, JunkRefused
    <2> QED
        BY <1>3, <2>2, <2>3
<1>4. CASE r.id \in 1 .. Len(written) /\ r = Row(w, r.id)
    <2> DEFINE v == written[r.id]
    <2>1. v \in Values[column]
        BY <1>4 DEF TablesInOrder
    <2>2. Fits(column, decl, v)
        BY <2>1, ValuesFit
    <2>3. r.cell = Bind(w, v)
        BY <1>4 DEF Row
    <2> HIDE DEF v
    <2>4. CASE w = "pg"
        <3>1. Decoded(RawValue(w, r.cell)) = PgFromSql(column, decl, PgToSql(column, decl, v))
            BY <2>3, <2>4 DEF Decoded, RawValue, Bind
        <3>2. \E u : Decoded(RawValue(w, r.cell)) = Ok(u) /\ Same("pg", column, v, u)
            BY <1>1, <2>2, <3>1, PgReadsBack
        <3> QED
            BY <1>4, <2>4, <3>2 DEF v
    <2>5. CASE w = "sqlite"
        <3>1. Decoded(RawValue(w, r.cell)) = SqliteFromSql(column, decl, SqliteToSql(column, decl, v))
            BY <2>3, <2>5 DEF Decoded, RawValue, Bind
        <3>2. \/ Decoded(RawValue(w, r.cell)) = Fail /\ ~Portable(column, v)
              \/ \E u : Decoded(RawValue(w, r.cell)) = Ok(u) /\ Same("sqlite", column, v, u)
            BY <1>1, <2>2, <3>1, SqliteReadsBack
        <3> QED
            BY <1>4, <2>5, <3>2 DEF v
    <2> QED
        BY <1>2, <2>4, <2>5 DEF Arms
<1> QED
    BY <1>3, <1>4, RowsOfTable

\* The values that a load decodes, and the keys of their rows.
Read(w, rows) ==
    [i \in 1 .. Cardinality(rows) |-> Decoded(RawValue(w, InOrder(rows)[i].cell))]
Keys(rows) == [i \in 1 .. Cardinality(rows) |-> InOrder(rows)[i].id]

\* A load answers with the query's own text, and either with all its rows or
\* with an error, of the rows or of what it asked; the bridge does not panic.
LEMMA LoadAnswers ==
    ASSUME BridgeInv, NEW w \in Running, NEW q \in Queries, NEW asked, NEW rows
    PROVE  \/ /\ Loaded(w, q, asked, rows) =
                    [query |-> Text(q, w), ran |-> Text(q, w), asked |-> asked,
                     ids |-> <<>>, values |-> <<>>, end |-> "error"]
              /\ \E i \in DOMAIN asked : Refuses(w, column, asked[i])
           \/ /\ Loaded(w, q, asked, rows) =
                    [query |-> Text(q, w), ran |-> Text(q, w), asked |-> asked,
                     ids |-> Keys(rows), values |-> <<>>, end |-> "error"]
              /\ \E i \in 1 .. Cardinality(rows) : ~Read(w, rows)[i].ok
           \/ /\ Loaded(w, q, asked, rows) =
                    [query |-> Text(q, w), ran |-> Text(q, w), asked |-> asked,
                     ids |-> Keys(rows),
                     values |-> [i \in 1 .. Cardinality(rows) |-> Read(w, rows)[i].value],
                     end |-> "ok"]
              /\ ~\E i \in 1 .. Cardinality(rows) : ~Read(w, rows)[i].ok
<1> USE DEF BridgeInv
<1>1. w \in Arms
    BY DEF Running
<1>2. RunText(w, q) = Text(q, w) /\ FromAny(w, Lookup(w))
    BY <1>1, OwnText, Recognised
<1>3. DOMAIN InOrder(rows) = 1 .. Cardinality(rows)
    BY DEF InOrder
<1>4. /\ Read(w, rows) = [i \in DOMAIN InOrder(rows) |-> Decoded(RawValue(w, InOrder(rows)[i].cell))]
      /\ Keys(rows) = [i \in DOMAIN InOrder(rows) |-> InOrder(rows)[i].id]
      /\ DOMAIN Read(w, rows) = 1 .. Cardinality(rows)
    BY <1>3 DEF Read, Keys
<1>5. Loaded(w, q, asked, rows) =
          IF \E i \in DOMAIN asked : Refuses(w, column, asked[i])
            THEN Answer(w, q, asked, <<>>, <<>>, "error")
          ELSE IF \E i \in 1 .. Cardinality(rows) : ~Read(w, rows)[i].ok
            THEN Answer(w, q, asked, Keys(rows), <<>>, "error")
            ELSE Answer(w, q, asked, Keys(rows),
                        [i \in 1 .. Cardinality(rows) |-> Read(w, rows)[i].value], "ok")
    BY <1>2, <1>4 DEF Loaded
<1> QED
    BY <1>2, <1>5 DEF Answer

\* What a database refuses is not portable.
LEMMA RefusedNotPortable ==
    ASSUME NEW w, NEW col, NEW v, Refuses(w, col, v)
    PROVE  ~Portable(col, v)
BY DEF Refuses, Portable

\* A load that succeeds returns what was written; one that fails has met a row
\* that its database does not hold, or asked for a value that it refuses.
LEMMA LoadReads ==
    ASSUME BridgeInv, Readable, NEW w \in Running, NEW q \in Queries, NEW asked,
           NEW rows \in SUBSET table[w]
    PROVE  LET A == Loaded(w, q, asked, rows) IN
           /\ A.end = "ok" =>
                 /\ Len(A.values) = Len(A.ids)
                 /\ \A i \in DOMAIN A.ids : /\ A.ids[i] \in 1 .. Len(written)
                                            /\ Same(w, column, written[A.ids[i]], A.values[i])
           /\ A.end = "error" =>
                 \/ \E i \in DOMAIN asked : ~Portable(column, asked[i])
                 \/ \E r \in rows : \/ r = JunkRow
                                    \/ r.id \in 1 .. Len(written) /\ ~Portable(column, written[r.id])
<1> DEFINE A == Loaded(w, q, asked, rows)
           n == Cardinality(rows)
<1>1. n \in Nat
    BY OrderOfRows
<1>2. ASSUME NEW i \in 1 .. n
      PROVE  /\ InOrder(rows)[i] \in rows
             /\ Keys(rows)[i] = InOrder(rows)[i].id
             /\ Read(w, rows)[i] = Decoded(RawValue(w, InOrder(rows)[i].cell))
    BY OrderOfRows DEF Keys, Read
<1>3. ~Fail.ok /\ \A u : Ok(u).ok /\ Ok(u).value = u
    BY DEF Fail, Ok
<1>4. ASSUME NEW i \in 1 .. n, Read(w, rows)[i].ok
      PROVE  /\ Keys(rows)[i] \in 1 .. Len(written)
             /\ Same(w, column, written[Keys(rows)[i]], Read(w, rows)[i].value)
    <2> DEFINE r == InOrder(rows)[i]
    <2>1. r \in table[w] /\ Keys(rows)[i] = r.id /\ Read(w, rows)[i] = Decoded(RawValue(w, r.cell))
        BY <1>2
    <2> HIDE DEF r
    <2>2. Decoded(RawValue(w, r.cell)) # Fail
        BY <1>3, <1>4, <2>1
    <2>3. r.id \in 1 .. Len(written) /\ \E u : Decoded(RawValue(w, r.cell)) = Ok(u)
                                             /\ Same(w, column, written[r.id], u)
        BY <2>1, <2>2, RowRead
    <2> QED
        BY <1>3, <2>1, <2>3
<1>5. ASSUME NEW i \in 1 .. n, ~Read(w, rows)[i].ok
      PROVE  \E r \in rows : \/ r = JunkRow
                             \/ r.id \in 1 .. Len(written) /\ ~Portable(column, written[r.id])
    <2> DEFINE r == InOrder(rows)[i]
    <2>1. r \in rows /\ r \in table[w] /\ Read(w, rows)[i] = Decoded(RawValue(w, r.cell))
        BY <1>2
    <2> HIDE DEF r
    <2>2. ~\E u : Decoded(RawValue(w, r.cell)) = Ok(u)
        BY <1>3, <1>5, <2>1
    <2> QED
        BY <2>1, <2>2, RowRead
<1>6. CASE \E i \in 1 .. n : ~Read(w, rows)[i].ok
    <2>1. A.end = "error"
        BY <1>6, LoadAnswers
    <2> QED
        BY <1>5, <1>6, <2>1
<1>7. CASE \E i \in DOMAIN asked : Refuses(w, column, asked[i])
    <2>1. \E i \in DOMAIN asked : ~Portable(column, asked[i])
        BY <1>7, RefusedNotPortable
    <2>2. A.end = "error"
        BY <1>2, <1>7, Recognised DEF Loaded, Answer, BridgeInv, Running
    <2> QED
        BY <2>1, <2>2
<1>8. CASE /\ ~\E i \in 1 .. n : ~Read(w, rows)[i].ok
           /\ ~\E i \in DOMAIN asked : Refuses(w, column, asked[i])
    <2>0. A = [query |-> Text(q, w), ran |-> Text(q, w), asked |-> asked, ids |-> Keys(rows),
               values |-> [i \in 1 .. n |-> Read(w, rows)[i].value], end |-> "ok"]
        BY <1>8, LoadAnswers
    <2> HIDE DEF A
    <2>1. /\ A.end = "ok" /\ A.ids = Keys(rows)
          /\ A.values = [i \in 1 .. n |-> Read(w, rows)[i].value]
        BY <2>0
    <2>2. DOMAIN A.ids = 1 .. n /\ Len(A.ids) = n /\ Len(A.values) = n
        BY <1>1, <2>1 DEF Keys
    <2>3. \A i \in 1 .. n : A.ids[i] = Keys(rows)[i] /\ A.values[i] = Read(w, rows)[i].value
        BY <2>1
    <2> HIDE DEF A, n
    <2>4. \A i \in DOMAIN A.ids : A.ids[i] \in 1 .. Len(written)
                                   /\ Same(w, column, written[A.ids[i]], A.values[i])
        BY <1>4, <1>8, <2>2, <2>3
    <2> QED
        BY <2>1, <2>2, <2>4 DEF A
<1> QED
    BY <1>6, <1>7, <1>8

\* A statement through the bridge: what every running test is answered.
Told(q, asked, rows) ==
    /\ SameSetting
    /\ asked \in Seq(Values[column]) /\ Len(asked) = q.width
    /\ \A w \in Running : /\ rows[w] \in SUBSET table[w]
                          /\ answer'[w] = Loaded(w, q, asked, rows[w])
    /\ \A w \in Arms \ Running : answer'[w] = answer[w]
    /\ \/ written' = written /\ table' = table
       \/ \A w \in Running : rows[w] = {}

LEMMA InsertTells ==
    ASSUME BridgeInv, NEW v \in Values[column], Insert(v)
    PROVE  Told(InsertQuery, <<v>>, [w \in Arms |-> {}])
<1>1. \A w \in Running : w \in Arms
    BY DEF Running
<1>2. <<v>> \in Seq(Values[column]) /\ Len(<<v>>) = 1 /\ InsertQuery.width = 1
    <2>1. InsertQuery.width = 1
        BY DEF InsertQuery
    <2>2. \A T : \A u \in T : <<u>> \in Seq(T) /\ Len(<<u>>) = 1
        OBVIOUS
    <2> QED
        BY <2>1, <2>2
<1> QED
    BY <1>1, <1>2 DEF Told, Insert, Statement, Answers, SameSetting

LEMMA SelectTells ==
    ASSUME BridgeInv, Select
    PROVE  Told(SelectQuery, <<>>, table)
<1>1. \A w \in Running : w \in Arms
    BY DEF Running
<1>2. <<>> \in Seq(Values[column]) /\ Len(<<>>) = SelectQuery.width
    BY DEF SelectQuery
<1> QED
    BY <1>1, <1>2 DEF Told, Select, Statement, Answers, SameSetting

\* The list that eq_any makes of a set.
LEMMA ListOfSet ==
    ASSUME NEW S, IsFiniteSet(S)
    PROVE  SetToSeq(S) \in Seq(S) /\ Len(SetToSeq(S)) = Cardinality(S)
<1> DEFINE n == Cardinality(S)
<1>1. n \in Nat /\ ExistsBijection(1 .. n, S)
    BY FS_CardinalityType
<1>2. \E f \in [1 .. n -> S] : IsInjective(f)
    BY <1>1 DEF ExistsBijection, Bijection, Injection
<1>3. SetToSeq(S) \in [1 .. n -> S]
    BY <1>2 DEF SetToSeq
<1> HIDE DEF n
<1>4. SetToSeq(S) \in Seq(S) /\ Len(SetToSeq(S)) = n
    BY <1>1, <1>3
<1> QED
    BY <1>4 DEF n

\* The rows that a filter on some values finds.
Found(w, asked) ==
    {r \in table[w] :
        \E i \in DOMAIN asked : StoredEqual(w, column, r.cell, CollectBinds(w, asked)[i])}

LEMMA SelectInTells ==
    ASSUME BridgeInv, NEW S \in SUBSET Values[column], SelectIn(S)
    PROVE  /\ InQuery(Cardinality(S)) \in Queries
           /\ Told(InQuery(Cardinality(S)), SetToSeq(S), [w \in Arms |-> Found(w, SetToSeq(S))])
<1>1. \A w \in Running : w \in Arms
    BY DEF Running
<1>2. IsFiniteSet(S)
    BY DEF SelectIn
<1>3. Cardinality(S) \in Nat
    BY <1>2, FS_CardinalityType
<1>4. InQuery(Cardinality(S)) \in Queries /\ InQuery(Cardinality(S)).width = Cardinality(S)
    BY <1>3 DEF Queries, InQuery
<1>5. SetToSeq(S) \in Seq(Values[column]) /\ Len(SetToSeq(S)) = Cardinality(S)
    BY <1>2, ListOfSet
<1>6. \A w : Found(w, SetToSeq(S)) \in SUBSET table[w]
    BY DEF Found
<1>7. \A w \in Arms :
          answer'[w] = IF w \in Running
                         THEN Loaded(w, InQuery(Cardinality(S)), SetToSeq(S), Found(w, SetToSeq(S)))
                         ELSE answer[w]
    BY DEF SelectIn, Answers, Found
<1>8. SameSetting /\ written' = written /\ table' = table
    BY DEF SelectIn, Statement, SameSetting
<1> QED
    BY <1>1, <1>4, <1>5, <1>6, <1>7, <1>8 DEF Told

\* A step answers nothing, answers what was asked, or changes nothing.
LEMMA StepTells ==
    ASSUME BridgeInv, [Next]_vars
    PROVE  \/ \A w \in Arms : answer'[w] = NoAnswer
           \/ UNCHANGED vars
           \/ \E q \in Queries : \E asked, rows : Told(q, asked, rows)
<1> USE DEF BridgeInv
<1>1. CASE Compile \/ \E w \in Arms : Start(w)
    BY <1>1 DEF Compile, Start, Untold, Arms
<1>2. ASSUME NEW v \in Values[column], Insert(v)
      PROVE  \E q \in Queries : \E asked, rows : Told(q, asked, rows)
    BY <1>2, InsertTells DEF Queries
<1>3. ASSUME NEW v \in Values[column], DispatchInsert(v)
      PROVE  \A w \in Arms : answer'[w] = NoAnswer
    BY <1>3 DEF DispatchInsert
<1>4. CASE Select
    BY <1>4, SelectTells DEF Queries
<1>5. ASSUME NEW S \in SUBSET Values[column], SelectIn(S)
      PROVE  \E q \in Queries : \E asked, rows : Told(q, asked, rows)
    BY <1>5, SelectInTells
<1>6. CASE Foreign
    BY <1>6 DEF Foreign
<1>7. CASE Rest \/ UNCHANGED vars
    BY <1>7 DEF Rest
<1> QED
    BY <1>1, <1>2, <1>3, <1>4, <1>5, <1>6, <1>7 DEF Next

-----------------------------------------------------------------------------
(* Theorems.                                                               *)

\* An answer is none, rows or an error; the bridge does not panic.
EndsInOrder == \A w \in Arms : answer[w].end \in {"none", "ok", "error"}

LEMMA EndsKept ==
    ASSUME BridgeInv, EndsInOrder, [Next]_vars
    PROVE  EndsInOrder'
<1>1. CASE \A w \in Arms : answer'[w] = NoAnswer
    BY <1>1 DEF EndsInOrder, NoAnswer
<1>2. CASE UNCHANGED vars
    BY <1>2 DEF EndsInOrder, vars
<1>3. ASSUME NEW q \in Queries, NEW asked, NEW rows, Told(q, asked, rows)
      PROVE  EndsInOrder'
    <2>1. \A w \in Running : answer'[w].end \in {"ok", "error"}
        <3>1. ASSUME NEW w \in Running PROVE answer'[w].end \in {"ok", "error"}
            <4>1. answer'[w] = Loaded(w, q, asked, rows[w])
                BY <1>3 DEF Told
            <4>2. Loaded(w, q, asked, rows[w]).end \in {"ok", "error"}
                BY LoadAnswers
            <4> QED
                BY <4>1, <4>2
        <3> QED
            BY <3>1
    <2>2. \A w \in Arms \ Running : answer'[w] = answer[w]
        BY <1>3 DEF Told
    <2> QED
        BY <2>1, <2>2 DEF EndsInOrder
<1> QED
    BY <1>1, <1>2, <1>3, StepTells

\* Every part of the state has its type; in particular no cell is ill-formed
\* and no load panics, whatever lookup the driver hands to the bind pass.
THEOREM BridgeTypesHold == Spec => []TypeOK
<1>1. Init => EndsInOrder
    BY DEF Init, EndsInOrder, NoAnswer
<1>2. BridgeInv /\ EndsInOrder /\ [Next]_vars => EndsInOrder'
    BY EndsKept
<1>3. BridgeInv /\ EndsInOrder => TypeOK
    <2> SUFFICES ASSUME BridgeInv, EndsInOrder PROVE TypeOK
        OBVIOUS
    <2> USE DEF BridgeInv
    <2>1. ASSUME NEW w \in Arms, NEW r \in table[w]
          PROVE  r.id \in 0 .. Len(written) /\ r.cell \in Seq(Int)
        <3>1. w \in Running
            BY <2>1 DEF TablesInOrder
        <3>2. r.id \in 1 .. Len(written) \/ r = JunkRow
            BY <3>1, RowsOfTable
        <3>3. JunkRow.id = 0 /\ Len(written) \in Nat
            BY DEF JunkRow, TablesInOrder
        <3>4. r.cell \in Seq(Int)
            BY <3>1, RowsOfTable
        <3> QED
            BY <3>2, <3>3, <3>4
    <2>2. test \in [Arms -> Stages] /\ written \in Seq(Values[column]) /\ steps \in 0 .. MaxStmts
        BY DEF SettingInOrder, TablesInOrder
    <2> QED
        BY <2>1, <2>2 DEF TypeOK, EndsInOrder, SettingInOrder, Stages
<1> QED
    BY <1>1, <1>2, <1>3, BridgeInvHolds, PTL DEF Spec

\* A connection runs the text of the query at hand, with a bind for each of its
\* placeholders, whatever was prepared before; what must not be kept is not.
THEOREM AlwaysRunsItsOwnText == Spec => []RunsItsOwnText
<1> DEFINE Asked == \A w \in Running : /\ answer[w].ran = answer[w].query
                                       /\ Len(answer[w].asked) = answer[w].ran.width
<1>1. Init => Asked
    BY DEF Init, Running, NoAnswer
<1>2. BridgeInv /\ Asked /\ [Next]_vars => Asked'
    <2> SUFFICES ASSUME BridgeInv, Asked, [Next]_vars PROVE Asked'
        OBVIOUS
    <2>1. CASE \A w \in Arms : answer'[w] = NoAnswer
        BY <2>1 DEF NoAnswer, NoText, Running
    <2>2. CASE UNCHANGED vars
        BY <2>2 DEF vars, Running
    <2>3. ASSUME NEW q \in Queries, NEW asked, NEW rows, Told(q, asked, rows)
          PROVE  Asked'
        <3>1. Running' = Running /\ Len(asked) = q.width
            BY <2>3 DEF Told, SameSetting, Running
        <3>2. ASSUME NEW w \in Running
              PROVE  /\ answer'[w].ran = answer'[w].query
                     /\ Len(answer'[w].asked) = answer'[w].ran.width
            <4>1. answer'[w] = Loaded(w, q, asked, rows[w])
                BY <2>3 DEF Told
            <4>2. /\ answer'[w].ran = Text(q, w) /\ answer'[w].query = Text(q, w)
                  /\ answer'[w].asked = asked
                BY <4>1, LoadAnswers
            <4>3. Text(q, w).width = q.width
                BY DEF Text
            <4> QED
                BY <3>1, <4>2, <4>3
        <3> QED
            BY <3>1, <3>2
    <2> QED
        BY <2>1, <2>2, <2>3, StepTells
<1>3. BridgeInv /\ Asked => RunsItsOwnText
    <2> SUFFICES ASSUME BridgeInv, Asked PROVE RunsItsOwnText
        OBVIOUS
    <2>1. \A w \in Arms : CacheKey(InsertQuery, w).kind = "insert"
                            /\ CacheKey(SelectQuery, w).kind = "select"
        BY DEF CacheKey, Text, InsertQuery, SelectQuery
    <2>2. \A w \in Running : \A k \in DOMAIN cache[w] : k.kind # "in"
        BY <2>1 DEF BridgeInv, CachesInOrder, Running
    <2> QED
        BY <2>2 DEF RunsItsOwnText
<1> QED
    BY <1>1, <1>2, <1>3, BridgeInvHolds, PTL DEF Spec

\* What all of two sequences satisfy, each does.
LEMMA AllOfBoth ==
    ASSUME NEW T, NEW vs \in Seq(T), NEW us \in Seq(T)
    PROVE  /\ All(vs \o us, Portable) =>
                 /\ \A i \in DOMAIN vs : Portable(column, vs[i])
                 /\ \A i \in DOMAIN us : Portable(column, us[i])
           /\ All(vs \o us, Canonical) =>
                 /\ \A i \in DOMAIN vs : Canonical(column, vs[i])
                 /\ \A i \in DOMAIN us : Canonical(column, us[i])
<1>1. /\ \A i \in DOMAIN vs : i \in DOMAIN (vs \o us) /\ (vs \o us)[i] = vs[i]
      /\ \A i \in DOMAIN us : Len(vs) + i \in DOMAIN (vs \o us) /\ (vs \o us)[Len(vs) + i] = us[i]
    OBVIOUS
<1>2. ASSUME All(vs \o us, Portable)
      PROVE  /\ \A i \in DOMAIN vs : Portable(column, vs[i])
             /\ \A i \in DOMAIN us : Portable(column, us[i])
    <2>1. \A i \in DOMAIN (vs \o us) : Portable(column, (vs \o us)[i])
        BY <1>2 DEF All
    <2> QED
        BY <1>1, <2>1
<1>3. ASSUME All(vs \o us, Canonical)
      PROVE  /\ \A i \in DOMAIN vs : Canonical(column, vs[i])
             /\ \A i \in DOMAIN us : Canonical(column, us[i])
    <2>1. \A i \in DOMAIN (vs \o us) : Canonical(column, (vs \o us)[i])
        BY <1>3 DEF All
    <2> QED
        BY <1>1, <2>1
<1> QED
    BY <1>2, <1>3

\* A row reads back, up to Same, as the value it was written as, on either
\* backend and by either route of writing, or is refused; and what both
\* databases hold is never refused.
THEOREM AlwaysReadsWhatWasWritten == Spec => []ReadsWhatWasWritten
<1>1. Init => ReadsWhatWasWritten
    BY DEF Init, ReadsWhatWasWritten, Running
<1>2. BridgeInv /\ BridgeInv' /\ ReadsWhatWasWritten /\ [Next]_vars => ReadsWhatWasWritten'
    <2> SUFFICES ASSUME BridgeInv, BridgeInv', ReadsWhatWasWritten, [Next]_vars
                 PROVE  ReadsWhatWasWritten'
        OBVIOUS
    <2>1. CASE \A w \in Arms : answer'[w] = NoAnswer
        <3>1. \A w \in Running' : w \in Arms
            BY DEF Running
        <3>2. NoAnswer.end = "none"
            BY DEF NoAnswer
        <3> QED
            BY <2>1, <3>1, <3>2 DEF ReadsWhatWasWritten
    <2>2. CASE UNCHANGED vars
        BY <2>2 DEF vars, ReadsWhatWasWritten, Running, Readable, Untouched, All,
                    DistinctLabels, Portable, Same, SameJson, SameFloat
    <2>3. ASSUME NEW q \in Queries, NEW asked, NEW rows, Told(q, asked, rows)
          PROVE  ReadsWhatWasWritten'
        <3>1. Running' = Running /\ column' = column /\ decl' = decl
            BY <2>3 DEF Told, SameSetting, setting, Running
        <3> SUFFICES ASSUME Readable', NEW w \in Running
                     PROVE  /\ answer'[w].end = "ok" =>
                                 /\ Len(answer'[w].values) = Len(answer'[w].ids)
                                 /\ \A i \in DOMAIN answer'[w].ids :
                                       /\ answer'[w].ids[i] # 0
                                       /\ Same(w, column, written'[answer'[w].ids[i]], answer'[w].values[i])
                            /\ Untouched' /\ All(written \o answer[w].asked, Portable)' =>
                                 answer'[w].end # "error"
            BY <3>1 DEF ReadsWhatWasWritten
        <3>2. Readable
            BY <3>1 DEF Readable
        <3>3. answer'[w] = Loaded(w, q, asked, rows[w]) /\ rows[w] \in SUBSET table[w]
            BY <2>3 DEF Told
        <3>4. /\ answer'[w].end = "ok" =>
                    /\ Len(answer'[w].values) = Len(answer'[w].ids)
                    /\ \A i \in DOMAIN answer'[w].ids :
                          /\ answer'[w].ids[i] \in 1 .. Len(written)
                          /\ Same(w, column, written[answer'[w].ids[i]], answer'[w].values[i])
              /\ answer'[w].end = "error" =>
                    \/ \E i \in DOMAIN asked : ~Portable(column, asked[i])
                    \/ \E r \in rows[w] : \/ r = JunkRow
                                          \/ r.id \in 1 .. Len(written) /\ ~Portable(column, written[r.id])
            BY <3>2, <3>3, LoadReads
        <3>5. Len(written) \in Nat /\ DOMAIN written = 1 .. Len(written)
            BY DEF BridgeInv, TablesInOrder
        <3>6. ASSUME All(written \o answer[w].asked, Portable)'
              PROVE  /\ \A i \in DOMAIN written' : Portable(column, written'[i])
                     /\ \A i \in DOMAIN asked : Portable(column, asked[i])
            <4>1. answer'[w].asked = asked
                BY <3>3, LoadAnswers
            <4>2. All(written' \o asked, Portable)
                BY <3>1, <3>6, <4>1 DEF All
            <4>3. written' \in Seq(Values[column]) /\ asked \in Seq(Values[column])
                BY <2>3, <3>1 DEF BridgeInv, TablesInOrder, Told
            <4> QED
                BY <4>2, <4>3, AllOfBoth
        <3>7. CASE written' = written /\ table' = table
            <4>1. Untouched' => JunkRow \notin table[w]
                BY <3>7 DEF Untouched, JunkRow, Running
            <4>2. All(written \o answer[w].asked, Portable)' =>
                      /\ \A i \in 1 .. Len(written) : Portable(column, written[i])
                      /\ ~\E i \in DOMAIN asked : ~Portable(column, asked[i])
                BY <3>5, <3>7, <3>6
            <4>3. ASSUME Untouched', All(written \o answer[w].asked, Portable)',
                         answer'[w].end = "error"
                  PROVE  FALSE
                <5>1. PICK r \in rows[w] : \/ r = JunkRow
                                           \/ r.id \in 1 .. Len(written) /\ ~Portable(column, written[r.id])
                    BY <3>4, <4>2, <4>3
                <5>2. r # JunkRow
                    BY <3>3, <4>1, <4>3
                <5>3. r.id \in 1 .. Len(written) => Portable(column, written[r.id])
                    BY <4>2, <4>3
                <5> QED
                    BY <5>1, <5>2, <5>3
            <4>4. 0 \notin 1 .. Len(written)
                BY <3>5
            <4>5. answer'[w].end = "ok" =>
                    /\ Len(answer'[w].values) = Len(answer'[w].ids)
                    /\ \A i \in DOMAIN answer'[w].ids :
                          /\ answer'[w].ids[i] # 0
                          /\ Same(w, column, written'[answer'[w].ids[i]], answer'[w].values[i])
                BY <3>4, <3>7, <4>4
            <4> QED
                BY <4>3, <4>5
        <3>8. CASE rows[w] = {}
            <4>1. answer'[w].end = "ok" => answer'[w].ids = Keys({})
                BY <3>3, <3>8, LoadAnswers
            <4>2. answer'[w].end = "ok" => DOMAIN answer'[w].ids = {}
                BY <4>1, FS_EmptySet DEF Keys
            <4>3. All(written \o answer[w].asked, Portable)' => answer'[w].end # "error"
                BY <3>4, <3>8, <3>6
            <4> QED
                BY <3>4, <4>2, <4>3
        <3> QED
            BY <2>3, <3>7, <3>8 DEF Told
    <2> QED
        BY <2>1, <2>2, <2>3, StepTells
<1> QED
    BY <1>1, <1>2, BridgeInvHolds, PTL DEF Spec

-----------------------------------------------------------------------------
(* The two tests agree.                                                    *)

\* The rows of the same keys in the two tables.
RowsAt(w, I) == {Row(w, i) : i \in I}

LEMMA AsManyRows ==
    ASSUME NEW I, IsFiniteSet(I), NEW w
    PROVE  Cardinality(RowsAt(w, I)) = Cardinality(I)
<1> DEFINE f == [i \in I |-> Row(w, i)]
<1>1. \A i, j : Row(w, i) = Row(w, j) => i = j
    <2>1. \A i : Row(w, i).id = i
        BY DEF Row
    <2> QED
        BY <2>1
<1>2. f \in [I -> RowsAt(w, I)] /\ \A r \in RowsAt(w, I) : \E i \in I : f[i] = r
    BY DEF RowsAt
<1>3. \A i, j \in I : f[i] = f[j] => i = j
    BY <1>1
<1> HIDE DEF f
<1>4. f \in Bijection(I, RowsAt(w, I))
    BY <1>2, <1>3 DEF Bijection, Injection, Surjection, IsInjective
<1> QED
    BY <1>4, FS_Bijection DEF ExistsBijection

\* Values that both databases hold are ordered alike.
LEMMA RowsOrderedAlike ==
    ASSUME BridgeInv, Running # {}, NEW i \in 1 .. Len(written), NEW j \in 1 .. Len(written),
           Portable(column, written[i]), Portable(column, written[j])
    PROVE  Before(Row("pg", i), Row("pg", j)) <=> Before(Row("sqlite", i), Row("sqlite", j))
<1> DEFINE v == written[i]
           u == written[j]
<1>1. v \in Values[column] /\ u \in Values[column]
    BY DEF BridgeInv, TablesInOrder
<1>2. Fits(column, decl, v) /\ Fits(column, decl, u)
    BY <1>1, ValuesFit DEF BridgeInv
<1>3. \A w : /\ Row(w, i).id = i /\ Row(w, i).cell = Bind(w, v)
             /\ Row(w, j).id = j /\ Row(w, j).cell = Bind(w, u)
    BY DEF Row
<1> HIDE DEF v, u
<1>4. CASE column \in Ordered
    <2>1. /\ PgToSql(column, decl, v) = PgToSql(column, decl, u)
                <=> SqliteToSql(column, decl, v) = SqliteToSql(column, decl, u)
          /\ StoredBefore(PgToSql(column, decl, v), PgToSql(column, decl, u))
                <=> StoredBefore(SqliteToSql(column, decl, v), SqliteToSql(column, decl, u))
        BY <1>2, <1>4, OrderAlike DEF v, u
    <2>2. /\ \A x : Bind("pg", x) = PgToSql(column, decl, x)
          /\ \A x : Bind("sqlite", x) = SqliteToSql(column, decl, x)
        BY DEF Bind
    <2> QED
        BY <1>3, <2>1, <2>2 DEF Before
<1>5. CASE column \notin Ordered
    BY <1>3, <1>5 DEF Before
<1> QED
    BY <1>4, <1>5

\* Loads of the same keys see them in the same order.
LEMMA KeysAlike ==
    ASSUME BridgeInv, Running = Arms, NEW I \in SUBSET (1 .. Len(written)),
           \A i \in 1 .. Len(written) : Portable(column, written[i]),
           RowsAt("pg", I) \in SUBSET table["pg"],
           RowsAt("sqlite", I) \in SUBSET table["sqlite"]
    PROVE  Keys(RowsAt("pg", I)) = Keys(RowsAt("sqlite", I))
<1> DEFINE P == RowsAt("pg", I)
           Q == RowsAt("sqlite", I)
           n == Cardinality(I)
<1>0. "pg" \in Running /\ "sqlite" \in Running
    BY DEF Arms
<1>1. Len(written) \in Nat
    BY DEF BridgeInv, TablesInOrder
<1>2. IsFiniteSet(1 .. Len(written))
    BY <1>1, FS_Interval
<1>3. \A J \in SUBSET I : IsFiniteSet(J)
    BY <1>2, FS_Subset
<1>4. Cardinality(P) = n /\ Cardinality(Q) = n
    BY <1>3, AsManyRows
<1>5. ASSUME NEW k \in 1 .. n
      PROVE  InOrder(P)[k].id = InOrder(Q)[k].id
    <2>1. /\ InOrder(P)[k] \in P
          /\ Cardinality({x \in P : Before(x, InOrder(P)[k])}) = k - 1
        BY <1>0, <1>4, OrderOfRows
    <2>2. PICK j \in I : InOrder(P)[k] = Row("pg", j)
        BY <2>1 DEF RowsAt
    <2> DEFINE J == {i \in I : Before(Row("pg", i), Row("pg", j))}
    <2>3. {x \in P : Before(x, Row("pg", j))} = RowsAt("pg", J)
        BY DEF RowsAt
    <2>4. \A i \in I : Before(Row("pg", i), Row("pg", j)) <=> Before(Row("sqlite", i), Row("sqlite", j))
        BY <1>0, RowsOrderedAlike
    <2>5. {x \in Q : Before(x, Row("sqlite", j))} = RowsAt("sqlite", J)
        BY <2>4 DEF RowsAt
    <2>6. Cardinality(RowsAt("pg", J)) = Cardinality(RowsAt("sqlite", J))
        BY <1>3, AsManyRows
    <2>7. Cardinality({x \in Q : Before(x, Row("sqlite", j))}) = k - 1
        BY <2>1, <2>2, <2>3, <2>5, <2>6
    <2>8. Row("sqlite", j) \in Q
        BY DEF RowsAt
    <2>9. InOrder(Q)[k] = Row("sqlite", j)
        BY <1>0, <1>4, <2>7, <2>8, OrderOfRows
    <2> QED
        BY <2>2, <2>9 DEF Row
<1> HIDE DEF P, Q, n
<1>6. Keys(P) = [k \in 1 .. n |-> InOrder(P)[k].id] /\ Keys(Q) = [k \in 1 .. n |-> InOrder(Q)[k].id]
    BY <1>4 DEF Keys
<1>7. Keys(P) = Keys(Q)
    BY <1>5, <1>6
<1> QED
    BY <1>7 DEF P, Q

\* Tables that nobody else touched hold the rows of what was written, if both
\* databases hold it.
LEMMA UntouchedTables ==
    ASSUME BridgeInv, Running = Arms, Untouched,
           \A i \in 1 .. Len(written) : Portable(column, written[i])
    PROVE  /\ table["pg"] = RowsAt("pg", 1 .. Len(written))
           /\ table["sqlite"] = RowsAt("sqlite", 1 .. Len(written))
<1>1. \A w \in Arms : table[w] = Rows(w) \/ table[w] = Rows(w) \cup {JunkRow}
    BY DEF BridgeInv, TablesInOrder
<1>2. \A w \in Arms : JunkRow \notin table[w]
    BY DEF Untouched, JunkRow
<1>3. \A w \in Arms : table[w] = Rows(w)
    BY <1>1, <1>2
<1>4. \A w : {k \in 1 .. Len(written) : ~Refuses(w, column, written[k])} = 1 .. Len(written)
    BY RefusedNotPortable
<1> QED
    BY <1>3, <1>4 DEF Rows, RowsAt, Arms

\* What the two loads are to see: rows of the same keys.
LEMMA LoadsAgree ==
    ASSUME BridgeInv, Running = Arms, Readable, Untouched,
           \A i \in 1 .. Len(written) : Portable(column, written[i]),
           NEW q \in Queries, NEW asked, \A i \in DOMAIN asked : Portable(column, asked[i]),
           NEW I \in SUBSET (1 .. Len(written))
    PROVE  LET A == Loaded("pg", q, asked, RowsAt("pg", I))
               B == Loaded("sqlite", q, asked, RowsAt("sqlite", I))
           IN  A.end = B.end /\ A.ids = B.ids
<1>0. "pg" \in Running /\ "sqlite" \in Running
    BY DEF Arms
<1>1. RowsAt("pg", I) \in SUBSET table["pg"] /\ RowsAt("sqlite", I) \in SUBSET table["sqlite"]
    BY UntouchedTables DEF RowsAt
<1>2. ASSUME NEW w \in Arms PROVE Loaded(w, q, asked, RowsAt(w, I)).end = "ok"
                                  /\ Loaded(w, q, asked, RowsAt(w, I)).ids = Keys(RowsAt(w, I))
    <2>1. w \in Running /\ RowsAt(w, I) \in SUBSET table[w]
        BY <1>0, <1>1 DEF Arms
    <2>2. \A r \in RowsAt(w, I) : r # JunkRow
        BY <2>1 DEF Untouched, JunkRow
    <2>3. \A r \in RowsAt(w, I) : r.id \in 1 .. Len(written)
        BY DEF RowsAt, Row
    <2>4. Loaded(w, q, asked, RowsAt(w, I)).end # "error"
        BY <2>1, <2>2, <2>3, LoadReads
    <2>5. ~\E i \in DOMAIN asked : Refuses(w, column, asked[i])
        BY RefusedNotPortable
    <2> QED
        BY <2>1, <2>4, <2>5, LoadAnswers
<1>3. Keys(RowsAt("pg", I)) = Keys(RowsAt("sqlite", I))
    BY <1>1, KeysAlike
<1> QED
    BY <1>2, <1>3 DEF Arms

\* A filter finds the rows of the same keys in both tables.
LEMMA FoundAlike ==
    ASSUME BridgeInv, Running = Arms, Untouched, NEW asked \in Seq(Values[column]),
           \A i \in DOMAIN written : Portable(column, written[i]) /\ Canonical(column, written[i]),
           \A i \in DOMAIN asked : Portable(column, asked[i]) /\ Canonical(column, asked[i])
    PROVE  \E I \in SUBSET (1 .. Len(written)) :
              Found("pg", asked) = RowsAt("pg", I) /\ Found("sqlite", asked) = RowsAt("sqlite", I)
<1> DEFINE n == Len(written)
           Finds(w, i) == \E j \in DOMAIN asked :
                             StoredEqual(w, column, Bind(w, written[i]), Bind(w, asked[j]))
           I == {i \in 1 .. n : Finds("pg", i)}
<1>1. DOMAIN written = 1 .. n /\ \A i \in 1 .. n : written[i] \in Values[column]
    BY DEF BridgeInv, TablesInOrder
<1>2. \A j \in DOMAIN asked : asked[j] \in Values[column]
    OBVIOUS
<1>3. \A w : \A j \in DOMAIN asked : CollectBinds(w, asked)[j] = Bind(w, asked[j])
    BY DEF CollectBinds
<1>4. \A w, i : Row(w, i).cell = Bind(w, written[i])
    BY DEF Row
<1>5. \A w \in Arms : table[w] = RowsAt(w, 1 .. n)
    BY <1>1, UntouchedTables DEF Arms
<1>6. ASSUME NEW w \in Arms
      PROVE  Found(w, asked) = RowsAt(w, {i \in 1 .. n : Finds(w, i)})
    BY <1>3, <1>4, <1>5 DEF Found, RowsAt
<1>7. ASSUME NEW i \in 1 .. n, NEW j \in DOMAIN asked
      PROVE  StoredEqual("pg", column, Bind("pg", written[i]), Bind("pg", asked[j]))
               <=> StoredEqual("sqlite", column, Bind("sqlite", written[i]), Bind("sqlite", asked[j]))
    <2>1. column \in Columns
        BY DEF BridgeInv, SettingInOrder
    <2>2. Fits(column, decl, written[i]) /\ Fits(column, decl, asked[j])
        BY <1>1, <1>2, ValuesFit DEF BridgeInv, Arms
    <2>3. StoredEqual("pg", column, PgToSql(column, decl, written[i]), PgToSql(column, decl, asked[j]))
            <=> StoredEqual("sqlite", column, SqliteToSql(column, decl, written[i]),
                                              SqliteToSql(column, decl, asked[j]))
        BY <1>1, <2>1, <2>2, FilterAlike
    <2> QED
        BY <2>3 DEF Bind
<1>8. \A i \in 1 .. n : Finds("pg", i) <=> Finds("sqlite", i)
    BY <1>7
<1>9. {i \in 1 .. n : Finds("sqlite", i)} = I
    BY <1>8
<1>10. Found("pg", asked) = RowsAt("pg", I) /\ Found("sqlite", asked) = RowsAt("sqlite", I)
    BY <1>6, <1>9 DEF Arms
<1> QED
    BY <1>10

\* As long as the body keeps to values both databases hold, its two tests see
\* the same rows in the same order.
THEOREM ConnectionsAlwaysAgree == Spec => []ConnectionsAgree
<1>1. Init => ConnectionsAgree
    BY DEF Init, ConnectionsAgree, Running, Arms
<1>2. BridgeInv /\ BridgeInv' /\ ConnectionsAgree /\ [Next]_vars => ConnectionsAgree'
    <2> SUFFICES ASSUME BridgeInv, BridgeInv', ConnectionsAgree, [Next]_vars
                 PROVE  ConnectionsAgree'
        OBVIOUS
    <2>1. ASSUME \A w \in Arms : answer'[w] = NoAnswer PROVE ConnectionsAgree'
        BY <2>1 DEF ConnectionsAgree, Arms
    <2>2. CASE Compile \/ (\E w \in Arms : Start(w)) \/ Foreign
                 \/ \E v \in Values[column] : DispatchInsert(v)
        <3>1. \A w \in Arms : answer'[w] = NoAnswer
            BY <2>2 DEF BridgeInv, Compile, Start, Foreign, DispatchInsert, Untold, Arms
        <3> QED
            BY <2>1, <3>1
    <2>3. CASE Rest \/ UNCHANGED vars
        BY <2>3 DEF Rest, vars, ConnectionsAgree, Running, Readable, Untouched, All,
                    DistinctLabels, Portable, Canonical
    <2>4. ASSUME NEW v \in Values[column], Insert(v) PROVE ConnectionsAgree'
        <3> SUFFICES ASSUME Running' = Arms, All(written \o answer["pg"].asked, Portable)'
                     PROVE  answer'["pg"].end = answer'["sqlite"].end
                            /\ answer'["pg"].ids = answer'["sqlite"].ids
            BY DEF ConnectionsAgree
        <3>1. Told(InsertQuery, <<v>>, [w \in Arms |-> {}])
            BY <2>4, InsertTells
        <3>2. Running = Arms /\ column' = column
            BY <3>1 DEF Told, SameSetting, Running, setting
        <3>3. ~\E i \in DOMAIN <<v>> : \E w : Refuses(w, column, <<v>>[i])
            <4>1. "pg" \in Running /\ InsertQuery \in Queries
                BY <3>2 DEF Arms, Queries
            <4>2. answer'["pg"] = Loaded("pg", InsertQuery, <<v>>, {})
                BY <3>1, <4>1 DEF Told, Arms
            <4>3. answer'["pg"].asked = <<v>>
                BY <4>1, <4>2, LoadAnswers
            <4>4. written' \in Seq(Values[column]) /\ <<v>> \in Seq(Values[column])
                BY <3>1, <3>2 DEF BridgeInv, TablesInOrder, Told
            <4>5. All(written' \o <<v>>, Portable)
                BY <3>2, <4>3 DEF All
            <4>6. \A i \in DOMAIN <<v>> : Portable(column, <<v>>[i])
                BY <4>4, <4>5, AllOfBoth
            <4> QED
                BY <4>6, RefusedNotPortable
        <3>4. ASSUME NEW w \in Arms
              PROVE  answer'[w].end = "ok" /\ answer'[w].ids = Keys({})
            <4>1. answer'[w] = Loaded(w, InsertQuery, <<v>>, {})
                BY <3>1, <3>2 DEF Told
            <4>2. ~\E i \in 1 .. Cardinality({}) : ~Read(w, {})[i].ok
                BY FS_EmptySet
            <4>3. w \in Running /\ InsertQuery \in Queries
                BY <3>2 DEF Queries
            <4>4. /\ Loaded(w, InsertQuery, <<v>>, {}).end = "ok"
                  /\ Loaded(w, InsertQuery, <<v>>, {}).ids = Keys({})
                BY <3>3, <4>2, <4>3, LoadAnswers
            <4> QED
                BY <4>1, <4>4
        <3> QED
            BY <3>4 DEF Arms
    <2>5. ASSUME NEW q \in Queries, NEW asked, NEW rows, Told(q, asked, rows),
                 written' = written, table' = table,
                 \/ \A w \in Arms : rows[w] = table[w]
                 \/ q.kind = "in" /\ \A w \in Arms : rows[w] = Found(w, asked)
          PROVE  ConnectionsAgree'
        <3>1. Running' = Running /\ column' = column /\ decl' = decl
            BY <2>5 DEF Told, SameSetting, setting, Running
        <3> SUFFICES ASSUME Running = Arms, Readable, Untouched,
                            All(written \o answer'["pg"].asked, Portable),
                            answer'["pg"].query.kind = "in" =>
                                All(written \o answer'["pg"].asked, Canonical)
                     PROVE  answer'["pg"].end = answer'["sqlite"].end
                            /\ answer'["pg"].ids = answer'["sqlite"].ids
            BY <2>5, <3>1 DEF ConnectionsAgree, Readable, Untouched, All, DistinctLabels
        <3>2. \A w \in Arms : answer'[w] = Loaded(w, q, asked, rows[w])
            BY <2>5 DEF Told
        <3>3. answer'["pg"].asked = asked /\ answer'["pg"].query.kind = q.kind
            <4>1. "pg" \in Arms
                BY DEF Arms
            <4>2. Text(q, "pg").kind = q.kind
                BY DEF Text
            <4> QED
                BY <3>2, <4>1, <4>2, LoadAnswers
        <3>4. asked \in Seq(Values[column]) /\ written \in Seq(Values[column])
            BY <2>5 DEF Told, BridgeInv, TablesInOrder
        <3>5. /\ \A i \in DOMAIN written : Portable(column, written[i])
              /\ \A i \in DOMAIN asked : Portable(column, asked[i])
              /\ q.kind = "in" => /\ \A i \in DOMAIN written : Canonical(column, written[i])
                                  /\ \A i \in DOMAIN asked : Canonical(column, asked[i])
            BY <3>3, <3>4, AllOfBoth
        <3>6. DOMAIN written = 1 .. Len(written)
            BY <3>4
        <3>7. \E I \in SUBSET (1 .. Len(written)) :
                  rows["pg"] = RowsAt("pg", I) /\ rows["sqlite"] = RowsAt("sqlite", I)
            <4>1. CASE \A w \in Arms : rows[w] = table[w]
                BY <3>5, <3>6, <4>1, UntouchedTables DEF Arms
            <4>2. CASE q.kind = "in" /\ \A w \in Arms : rows[w] = Found(w, asked)
                BY <3>4, <3>5, <4>2, FoundAlike DEF Arms
            <4> QED
                BY <2>5, <4>1, <4>2
        <3>8. PICK I \in SUBSET (1 .. Len(written)) :
                  rows["pg"] = RowsAt("pg", I) /\ rows["sqlite"] = RowsAt("sqlite", I)
            BY <3>7
        <3>9. /\ Loaded("pg", q, asked, RowsAt("pg", I)).end = Loaded("sqlite", q, asked, RowsAt("sqlite", I)).end
              /\ Loaded("pg", q, asked, RowsAt("pg", I)).ids = Loaded("sqlite", q, asked, RowsAt("sqlite", I)).ids
            BY <3>5, <3>6, LoadsAgree
        <3> QED
            BY <3>2, <3>8, <3>9 DEF Arms
    <2>6. CASE Select
        <3>1. Told(SelectQuery, <<>>, table) /\ written' = written /\ table' = table
            BY <2>6, SelectTells DEF Select
        <3> QED
            BY <2>5, <3>1 DEF Queries
    <2>7. ASSUME NEW S \in SUBSET Values[column], SelectIn(S) PROVE ConnectionsAgree'
        <3> DEFINE rows == [w \in Arms |-> Found(w, SetToSeq(S))]
        <3>1. /\ InQuery(Cardinality(S)) \in Queries
              /\ Told(InQuery(Cardinality(S)), SetToSeq(S), rows)
              /\ written' = written /\ table' = table
            BY <2>7, SelectInTells DEF SelectIn
        <3>2. InQuery(Cardinality(S)).kind = "in" /\ \A w \in Arms : rows[w] = Found(w, SetToSeq(S))
            BY DEF InQuery
        <3> HIDE DEF rows
        <3> QED
            BY <2>5, <3>1, <3>2
    <2> QED
        BY <2>2, <2>3, <2>4, <2>6, <2>7 DEF Next
<1> QED
    BY <1>1, <1>2, BridgeInvHolds, PTL DEF Spec

=============================================================================
