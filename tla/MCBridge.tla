------------------------------ MODULE MCBridge ------------------------------
(* Bridge on small instances, for TLC. *)
EXTENDS Bridge

\* The half microsecond at which year y begins.
YearStart(y) == 4 * (y - 2000)

\* For each type: values next to each other in order, values that are equal and
\* written differently, and those at the edge of what is portable.
SomeValues ==
    [col \in Columns |->
        CASE col = "uuid"      -> {<<0, 1>>, <<1, 0>>}
          [] col = "bytes"     -> {<<>>, <<0>>, <<0, 1>>, <<1>>}
          [] col = "timestamp" -> {<<YearStart(0)>>, <<-4>>, <<-2>>, <<-1>>,
                                   <<YearStart(10000)>>}
          [] col = "decimal"   -> {<<10, 1>>, <<1, 0>>, <<1, -1>>}
          [] col = "json"      -> {<<1, 0, Plain>>, <<1, 1, LargeFloat>>, <<5, 0, Float>>,
                                   <<5, 0, WithNul>>}
          [] col = "array"     -> {<<>>, <<0, 5>>, <<NaN>>}
          [] col = "enum"      -> {<<1>>, <<2>>}]

\* The text of the float 5 is missed by one, wherever it is parsed.
SomeMisread == [arm \in {"pg", "sqlite"} |-> [n \in {5} |-> 6]]

\* 31.245270191439438 is read as 31.24527019143944, its neighbour: over these
\* values TLC refutes what README.md says, that the value round-trips
\* identically through a DualConnection.
Floats == [col \in Columns |-> IF col = "array" THEN {<<5>>} ELSE {}]
RoundTripsIdentically ==
    \A w \in Running : answer[w].end = "ok" =>
        \A i \in DOMAIN answer[w].ids : answer[w].values[i] = written[answer[w].ids[i]]

Instants ==
    [col \in Columns |->
        IF col = "timestamp" THEN {<<YearStart(9999)>>, <<YearStart(10000)>>} ELSE {}]

Variant(u, r) == [unit |-> u, rename |-> r]

\* Plain, renamed, one label twice, one variant with a field, a struct.
SomeDecls ==
    {[enum |-> TRUE, variants |-> <<Variant(TRUE, NotRenamed), Variant(TRUE, NotRenamed)>>],
     [enum |-> TRUE, variants |-> <<Variant(TRUE, 12), Variant(TRUE, 1)>>],
     [enum |-> TRUE, variants |-> <<Variant(TRUE, NotRenamed), Variant(TRUE, 11)>>],
     [enum |-> TRUE, variants |-> <<Variant(TRUE, NotRenamed), Variant(FALSE, NotRenamed)>>],
     [enum |-> FALSE, variants |-> <<>>]}
=============================================================================
