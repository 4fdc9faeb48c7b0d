------------------------------- MODULE Codecs -------------------------------
(***************************************************************************)
(* The portable value types: what each writes on the wire of PostgreSQL    *)
(* and into a SQLite cell, what it makes of what it reads, and how the two *)
(* databases compare and order what is stored.                             *)
(*                                                                         *)
(* Values, cells and wire forms are sequences of integers:                 *)
(*   uuid       the two halves of its sixteen bytes                        *)
(*   bytes      the bytes                                                  *)
(*   timestamp  half microseconds since 2000, years two microseconds long  *)
(*   decimal    the unscaled value and the scale                           *)
(*   json       the content, the order its keys are written in, its form   *)
(*   array      the elements, floating-point numbers                       *)
(*   enum       the position of the variant                                *)
(***************************************************************************)
EXTENDS Integers, Sequences

CONSTANTS
    Misread,    \* Misread[arm]: the floats whose text serde_json misses, as stored by arm
    LastBits    \* how far it misses them

ASSUME FloatAssumption ==
    /\ LastBits \in Nat
    /\ \A arm \in {"pg", "sqlite"} : \A n \in DOMAIN Misread[arm] :
          n \in Int /\ Misread[arm][n] \in Int /\ n - Misread[arm][n] \in -LastBits .. LastBits

Columns == {"uuid", "bytes", "timestamp", "decimal", "json", "array", "enum"}

\* What from_sql returns.
Ok(v) == [ok |-> TRUE, value |-> v]
Fail  == [ok |-> FALSE, value |-> <<>>]

\* A cell that no value of any type but bytes writes.
Junk == <<-1>>

\* The floating-point numbers that are none, in an array and in its text.
NaN == 9
Null == 8

\* The form of a JSON content: a float; a float that is written with an
\* exponent though a 64-bit integer could hold it, such as 1e16; a text with a
\* U+0000 in it; or none of these.
Plain == 0
Float == 1
LargeFloat == 2
WithNul == 3

\* The values of a type, the position of a variant up to the declaration.
IsValue(col, v) ==
    CASE col \in {"uuid", "decimal"}   -> Len(v) = 2
      [] col = "json"                  -> Len(v) = 3
      [] col \in {"timestamp", "enum"} -> Len(v) = 1
      [] col = "array"                 -> \A i \in DOMAIN v : v[i] \notin {Null, -1}
      [] col = "bytes"                 -> \A i \in DOMAIN v : v[i] \in 0 .. 255

\* What jsonb cannot hold: PostgreSQL refuses the statement that brings it.
Refuses(arm, col, v) == arm = "pg" /\ col = "json" /\ v[3] = WithNul

\* The marker types: what a column is declared as.
SqlType(arm, col) ==
    LET types == CASE col = "uuid"      -> <<"uuid", "Binary">>
                   [] col = "bytes"     -> <<"bytea", "Binary">>
                   [] col = "timestamp" -> <<"timestamptz", "Text">>
                   [] col = "decimal"   -> <<"numeric", "Text">>
                   [] col = "json"      -> <<"jsonb", "Text">>
                   [] col = "array"     -> <<"float8[]", "Text">>
                   [] col = "enum"      -> <<"pg_type", "Text">>
    IN IF arm = "pg" THEN types[1] ELSE types[2]

-----------------------------------------------------------------------------
(* uuid.rs, bytes.rs *)

\* The sixteen bytes; a blob may be of any length.
UuidBlob(v) == v
ReadUuidBlob(d) == IF Len(d) = 2 THEN Ok(d) ELSE Fail

UuidNative(v) == v
ReadUuidNative(d) == Ok(d)

BytesAsTheyAre(v) == v
ReadBytes(d) == Ok(d)

-----------------------------------------------------------------------------
(* timestamp.rs *)

Micros(n) == n \div 2                       \* whole microseconds, downwards
YearOf(us) == 2000 + us \div 2
FourDigits(y) == y \in 0 .. 9999

\* The sign chrono puts before a year that is not of four digits; the codes
\* are in the order of the characters: "+" before "-" before a digit.
PlusSign == 0
MinusSign == 1
NoSign == 2
SignOf(y) == IF FourDigits(y) THEN NoSign ELSE IF y < 0 THEN MinusSign ELSE PlusSign

\* SQLITE_FORMAT: the year, what follows it, six digits of the second.
TimeText(v) ==
    LET us == Micros(v[1])
        y  == YearOf(us)
    IN <<SignOf(y), IF y < 0 THEN -y ELSE y, us % 2>>

\* parse_from_rfc3339 takes four digits and no sign.
ReadTimeText(d) ==
    IF Len(d) = 3 /\ d[1] = NoSign THEN Ok(<<2 * (2 * (d[2] - 2000) + d[3])>>) ELSE Fail

\* timestamptz: diesel counts the microseconds from 2000, towards it.
TimeMicros(v) == IF v[1] >= 0 THEN <<v[1] \div 2>> ELSE <<-((-v[1]) \div 2)>>
ReadTimeMicros(d) == Ok(<<2 * d[1]>>)

-----------------------------------------------------------------------------
(* decimal.rs, json.rs, array.rs *)

\* BigDecimal's to_string: up to fifteen zeros are written out, and with more
\* the number keeps its exponent.
TrailingZeros == 15
DecimalText(v) ==
    IF v[2] \in -TrailingZeros .. -1 THEN <<v[1] * 10 ^ (-v[2]), 0>> ELSE v
ReadDecimalText(d) == IF Len(d) = 2 THEN Ok(d) ELSE Fail

\* numeric has no negative scale.
DecimalNumeric(v) == IF v[2] < 0 THEN <<v[1] * 10 ^ (-v[2]), 0>> ELSE v
ReadNumeric(d) == Ok(d)

\* Two numbers, brought to the larger of their scales, are equal.
SameNumber(v, w) ==
    LET scale == IF v[2] > w[2] THEN v[2] ELSE w[2]
    IN  v[1] * 10 ^ (scale - v[2]) = w[1] * 10 ^ (scale - w[2])

\* serde_json, without its feature float_roundtrip, reads the text of a float
\* as that float or as one next to it.
ParsedFloat(arm, n) == IF n \in DOMAIN Misread[arm] THEN Misread[arm][n] ELSE n

JsonContent(arm, n, form) == IF form \in {Float, LargeFloat} THEN ParsedFloat(arm, n) ELSE n

JsonText(v) == v
ReadJsonText(d) ==
    IF Len(d) = 3 THEN Ok(<<JsonContent("sqlite", d[1], d[3]), d[2], d[3]>>) ELSE Fail

\* jsonb behind its version byte; it does not keep the order of the keys, and
\* writes the digits of a number out, so that 1e16 comes back as an integer.
JsonbVersion == 1
JsonWire(v) == <<JsonbVersion, v[1], IF v[3] = LargeFloat THEN Plain ELSE v[3]>>
ReadJsonWire(d) ==
    IF d[1] = JsonbVersion THEN Ok(<<JsonContent("pg", d[2], d[3]), 0, d[3]>>) ELSE Fail

\* serde_json writes NaN as null, and reads no number from it.
ArrayText(v) == [i \in DOMAIN v |-> IF v[i] = NaN THEN Null ELSE v[i]]
ReadArrayText(d) ==
    IF \E i \in DOMAIN d : d[i] \in {Null, -1} THEN Fail
    ELSE Ok([i \in DOMAIN d |-> ParsedFloat("sqlite", d[i])])

ArrayNative(v) == v
ReadArrayNative(d) == Ok(d)

-----------------------------------------------------------------------------
(* #[derive(DualEnum)]: from the declaration to the labels and back.       *)

\* The label of a variant is its identifier unless it is renamed; the i-th
\* identifier is written 10 + i.
Identifier(i) == 10 + i
NotRenamed == 0

IsDeclaration(d) ==
    d \in [enum : BOOLEAN, variants : Seq([unit : BOOLEAN, rename : Nat])]

Declares(d) == d.enum /\ d.variants # <<>> /\ \A i \in DOMAIN d.variants : d.variants[i].unit

Label(d, i) ==
    IF d.variants[i].rename = NotRenamed THEN Identifier(i) ELSE d.variants[i].rename

EnumLabel(d, v) == <<Label(d, v[1])>>

\* Mutant: the arms that read a label do not know of renaming.
FromIdentifier(d, s) ==
    LET Named == {i \in DOMAIN d.variants : Len(s) = 1 /\ Identifier(i) = s[1]} IN
    IF Named = {} THEN Fail ELSE Ok(<<CHOOSE i \in Named : TRUE>>)

\* The arms of the match are tried in the order of the variants.
FromLabel(d, s) ==
    LET Named == {i \in DOMAIN d.variants : Len(s) = 1 /\ Label(d, i) = s[1]} IN
    IF Named = {} THEN Fail ELSE Ok(<<CHOOSE i \in Named : \A j \in Named : i <= j>>)

DistinctLabels(d) ==
    \A i, j \in DOMAIN d.variants : Label(d, i) = Label(d, j) => i = j

-----------------------------------------------------------------------------
(* The two backends' ToSql and FromSql, for a column and a declaration.    *)

SqliteToSql(col, d, v) ==
    CASE col = "uuid"      -> UuidBlob(v)
      [] col = "bytes"     -> BytesAsTheyAre(v)
      [] col = "timestamp" -> TimeText(v)
      [] col = "decimal"   -> DecimalText(v)
      [] col = "json"      -> JsonText(v)
      [] col = "array"     -> ArrayText(v)
      [] col = "enum"      -> EnumLabel(d, v)

SqliteFromSql(col, d, cell) ==
    CASE col = "uuid"      -> ReadUuidBlob(cell)
      [] col = "bytes"     -> ReadBytes(cell)
      [] col = "timestamp" -> ReadTimeText(cell)
      [] col = "decimal"   -> ReadDecimalText(cell)
      [] col = "json"      -> ReadJsonText(cell)
      [] col = "array"     -> ReadArrayText(cell)
      [] col = "enum"      -> FromLabel(d, cell)

PgToSql(col, d, v) ==
    CASE col = "uuid"      -> UuidNative(v)
      [] col = "bytes"     -> BytesAsTheyAre(v)
      [] col = "timestamp" -> TimeMicros(v)
      [] col = "decimal"   -> DecimalNumeric(v)
      [] col = "json"      -> JsonWire(v)
      [] col = "array"     -> ArrayNative(v)
      [] col = "enum"      -> EnumLabel(d, v)

PgFromSql(col, d, cell) ==
    CASE col = "uuid"      -> ReadUuidNative(cell)
      [] col = "bytes"     -> ReadBytes(cell)
      [] col = "timestamp" -> ReadTimeMicros(cell)
      [] col = "decimal"   -> ReadNumeric(cell)
      [] col = "json"      -> ReadJsonWire(cell)
      [] col = "array"     -> ReadArrayNative(cell)
      [] col = "enum"      -> FromLabel(d, cell)

-----------------------------------------------------------------------------
(* Comparison.                                                             *)

\* What stands in a cell, compared by the database: numerics as numbers, jsonb
\* by its content, where a number is a number, all else as it is written.
StoredEqual(arm, col, x, y) ==
    CASE SqlType(arm, col) = "numeric" -> SameNumber(x, y)
      [] SqlType(arm, col) = "jsonb"   -> x[2] = y[2]
      [] OTHER                         -> x = y

\* memcmp, the text collation and the order of timestamptz.
StoredBefore(x, y) ==
    LET Common == DOMAIN x \cap DOMAIN y
        Differ == {i \in Common : x[i] # y[i]}
    IN IF Differ = {} THEN Len(x) < Len(y)
       ELSE \E i \in Differ : x[i] < y[i] /\ \A j \in Differ : i <= j

\* The columns that either database keeps in the order of their values.
Ordered == {col \in Columns : SqlType("pg", col) \in {"uuid", "bytea", "timestamptz"}}

\* A float that serde_json parsed is the one written, but for its last bits if
\* it is one that serde_json misses.
SameFloat(arm, n, m) ==
    n = m \/ (n \in DOMAIN Misread[arm] /\ n - m \in -LastBits .. LastBits)

\* A JSON content is the one written, the order of keys aside; on PostgreSQL a
\* large float may have become the integer of the same digits.
SameJson(arm, v, w) ==
    \/ v[3] = w[3] /\ v[1] = w[1]
    \/ v[3] = w[3] /\ v[3] \in {Float, LargeFloat} /\ SameFloat(arm, v[1], w[1])
    \/ arm = "pg" /\ v[3] = LargeFloat /\ w[3] = Plain /\ v[1] = w[1]

\* What an arm reads, w, is what was written, v: a decimal as a number, a
\* timestamp up to what is below a microsecond, a float up to serde_json.
Same(arm, col, v, w) ==
    CASE col = "decimal"                    -> SameNumber(v, w)
      [] col = "json"                       -> SameJson(arm, v, w)
      [] col = "timestamp"                  -> v[1] - w[1] \in -1 .. 1
      [] col = "array" /\ arm = "sqlite"    ->
            Len(v) = Len(w) /\ \A i \in DOMAIN v : SameFloat(arm, v[i], w[i])
      [] OTHER                              -> v = w

\* A value both databases hold: in years of four digits and in whole
\* microseconds, without NaN, without U+0000.
Portable(col, v) ==
    CASE col = "timestamp" -> v[1] % 2 = 0 /\ FourDigits(YearOf(Micros(v[1])))
      [] col = "array"     -> \A i \in DOMAIN v : v[i] # NaN
      [] col = "json"      -> v[3] # WithNul
      [] OTHER             -> TRUE

\* A value written in one way only: SQLite compares the text.
Canonical(col, v) ==
    CASE col = "decimal" -> v[2] = 0
      [] col = "json"    -> v[2] = 0 /\ v[3] = Plain
      [] OTHER           -> TRUE
=============================================================================
