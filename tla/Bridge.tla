------------------------------- MODULE Bridge -------------------------------
(***************************************************************************)
(* One body of code over a portable column, run on either backend: the     *)
(* test macro that sets it up, the queries it issues through the           *)
(* MultiBackend bridge or through dispatch, and the rows it reads back.    *)
(*                                                                         *)
(* The body is the same for every generated test, and the tests share      *)
(* nothing: they are run in step here, so that their answers can be        *)
(* compared.  A query is rendered for the arm, looked up in the prepared   *)
(* statements of the connection, its binds are collected by the arm's      *)
(* collector, and its rows are decoded by the arm they came from.          *)
(***************************************************************************)
EXTENDS Codecs, FiniteSets, SequencesExt

CONSTANTS
    Values,     \* Values[col]: the values the body may write
    Decls,      \* the declarations an enum column may derive DualEnum from
    MaxStmts    \* bound on the statements of the body

ASSUME BridgeAssumption ==
    /\ Values \in [Columns -> SUBSET Seq(Int)]
    /\ \A col \in Columns : \A v \in Values[col] : IsValue(col, v)
    /\ Decls # {} /\ \A d \in Decls : IsDeclaration(d)
    /\ \A d \in Decls : Declares(d) =>
          \A v \in Values["enum"] : v[1] \in DOMAIN d.variants
    /\ MaxStmts \in Nat

Arms == {"pg", "sqlite"}

VARIABLES
    column,     \* the type of the table's portable column
    decl,       \* the enum's declaration
    attr,       \* the arguments of #[diesel_dualdb::test]
    isAsync,    \* whether the body is an async fn
    env,        \* DUALDB_PG_URL: unset, or the server it names is up or down
    test,       \* test[w]: the generated test for backend w
    table,      \* table[w]: its rows
    cache,      \* cache[w]: its prepared statements
    answer,     \* answer[w]: what its last statement came to
    written,    \* the values the body has inserted, in order
    steps       \* statements the body has issued

vars == <<column, decl, attr, isAsync, env, test, table, cache, answer, written, steps>>
setting == <<column, decl, attr, isAsync, env>>

-----------------------------------------------------------------------------
(* Queries.                                                                *)

\* A query, as diesel's query builder types it: how many binds it takes,
\* whether its type alone determines the text, and whether the prepared
\* statement may be kept.
InsertQuery == [kind |-> "insert", width |-> 1, static |-> TRUE,  safe |-> TRUE]
SelectQuery == [kind |-> "select", width |-> 0, static |-> TRUE,  safe |-> TRUE]
InQuery(n)  == [kind |-> "in",     width |-> n, static |-> FALSE, safe |-> FALSE]

\* The text an arm's query builder writes; the placeholders are the arm's.
Text(q, w) == [kind |-> q.kind, width |-> q.width, style |-> IF w = "pg" THEN "$" ELSE "?"]
NoText     == [kind |-> "none", width |-> 0, style |-> "none"]

\* Mutant: the walk forgets that the inner query must not be kept.
PushArmSqlKept(q, w) == [text |-> Text(q, w), safe |-> TRUE]

\* push_arm_sql: the arm's text, and whether the pass stays cacheable.
PushArmSql(q, w) == [text |-> Text(q, w), safe |-> q.safe]

\* QueryId for ArmQuery: the inner query's, where it has one.
CacheKey(q, w) == IF q.static THEN [Text(q, w) EXCEPT !.width = 0] ELSE Text(q, w)

\* The drivers' caches: what is run, and what is kept.
RunText(w, q) ==
    LET arm == PushArmSql(q, w) IN
    IF arm.safe /\ CacheKey(q, w) \in DOMAIN cache[w] THEN cache[w][CacheKey(q, w)] ELSE arm.text

Kept(w, q) ==
    LET arm == PushArmSql(q, w) IN
    IF arm.safe THEN [k \in DOMAIN cache[w] \cup {CacheKey(q, w)} |->
                        IF k \in DOMAIN cache[w] THEN cache[w][k] ELSE arm.text]
                ELSE cache[w]

\* The type lookup handed to the bind pass: to_any of the sync arms, or the
\* wrapper that ArmQuery puts around the async driver's.
Lookup(w) ==
    CASE w = "sqlite"           -> "SqliteConnection"
      [] w = "pg" /\ isAsync    -> "ForeignPgLookup"
      [] w = "pg" /\ ~isAsync   -> "PgConnection"

\* Mutant: only a sync connection is recognised.
FromAnySyncOnly(w, lookup) ==
    lookup = IF w = "pg" THEN "PgConnection" ELSE "SqliteConnection"

\* MultiConnectionHelper::from_any of the arm; the bridge panics on a stranger.
FromAny(w, lookup) ==
    IF w = "pg" THEN lookup \in {"PgConnection", "ForeignPgLookup"} ELSE lookup = "SqliteConnection"

\* ToSql<_, MultiBackend> leaves it to the collector of the arm.
Bind(w, v) ==
    IF w = "pg" THEN PgToSql(column, decl, v) ELSE SqliteToSql(column, decl, v)

CollectBinds(w, vs) == [i \in DOMAIN vs |-> Bind(w, vs[i])]

\* Mutant: every row is taken for one of the SQLite arm.
RawValueSqlite(w, cell) == [arm |-> "sqlite", cell |-> cell]

\* AsyncDualField::value: the raw value of the row's arm.
RawValue(w, cell) == [arm |-> w, cell |-> cell]

\* FromSql<_, MultiBackend> goes by the arm of the raw value.
Decoded(raw) ==
    IF raw.arm = "pg" THEN PgFromSql(column, decl, raw.cell)
                      ELSE SqliteFromSql(column, decl, raw.cell)

-----------------------------------------------------------------------------
(* Answers.                                                                *)

Answer(w, q, asked, ids, values, end) ==
    [query |-> Text(q, w), ran |-> RunText(w, q), asked |-> asked,
     ids |-> ids, values |-> values, end |-> end]

NoAnswer == [query |-> NoText, ran |-> NoText, asked |-> <<>>, ids |-> <<>>, values |-> <<>>,
             end |-> "none"]

\* The order of the column, where that order means something, and of the keys.
Before(x, y) ==
    IF column \in Ordered /\ x.cell # y.cell THEN StoredBefore(x.cell, y.cell) ELSE x.id < y.id

\* The k-th row is the one that k - 1 rows come before.
InOrder(rows) ==
    [k \in 1 .. Cardinality(rows) |->
        CHOOSE r \in rows : Cardinality({x \in rows : Before(x, r)}) = k - 1]

\* A load that asks with some values: binds that have types want the lookup,
\* the database may refuse one of them, and the load fails as a whole when one
\* row cannot be decoded.
Loaded(w, q, asked, rows) ==
    LET sorted  == InOrder(rows)
        decoded == [i \in DOMAIN sorted |-> Decoded(RawValue(w, sorted[i].cell))]
        ids     == [i \in DOMAIN sorted |-> sorted[i].id]
    IN IF asked # <<>> /\ ~FromAny(w, Lookup(w))
         THEN Answer(w, q, asked, <<>>, <<>>, "panic")
       ELSE IF \E i \in DOMAIN asked : Refuses(w, column, asked[i])
         THEN Answer(w, q, asked, <<>>, <<>>, "error")
       ELSE IF \E i \in DOMAIN decoded : ~decoded[i].ok
         THEN Answer(w, q, asked, ids, <<>>, "error")
       ELSE Answer(w, q, asked, ids, [i \in DOMAIN decoded |-> decoded[i].value], "ok")

Running == {w \in Arms : test[w] = "running"}

-----------------------------------------------------------------------------
(* The test macro.                                                         *)

TypeOK ==
    /\ column \in Columns /\ isAsync \in BOOLEAN
    /\ attr \subseteq Arms \cup {"other"}
    /\ env \in {"unset", "up", "down"}
    /\ test \in [Arms -> {"source", "absent", "generated", "running", "skipped", "failed",
                          "rejected"}]
    /\ \A w \in Arms : \A r \in table[w] : r.id \in 0 .. Len(written) /\ r.cell \in Seq(Int)
    /\ \A w \in Arms : answer[w].end \in {"none", "ok", "error"}
    /\ written \in Seq(Values[column]) /\ steps \in 0 .. MaxStmts

Init ==
    /\ column \in Columns
    /\ decl \in IF column = "enum" THEN Decls ELSE {CHOOSE d \in Decls : TRUE}
    /\ attr \in SUBSET (Arms \cup {"other"})
    /\ isAsync \in BOOLEAN
    /\ env \in {"unset", "up", "down"}
    /\ test = [w \in Arms |-> "source"]
    /\ table = [w \in Arms |-> {}]
    /\ cache = [w \in Arms |-> [k \in {} |-> NoText]]
    /\ answer = [w \in Arms |-> NoAnswer]
    /\ written = <<>> /\ steps = 0

\* parse_backends: nothing means both.
ParseBackends(args) == IF args = {} THEN Arms ELSE args

\* Both macros run, or the crate does not compile.
Compile ==
    /\ test = [w \in Arms |-> "source"]
    /\ LET backends == ParseBackends(attr) IN
       test' = [w \in Arms |->
          IF ~(backends \subseteq Arms) \/ (column = "enum" /\ ~Declares(decl)) THEN "rejected"
          ELSE IF w \in backends THEN "generated"
          ELSE "absent"]
    /\ UNCHANGED <<setting, table, cache, answer, written, steps>>

\* name_sqlite opens a database in memory; name_pg the server of the
\* environment, if it names one.
Start(w) ==
    /\ test[w] = "generated"
    /\ test' = [test EXCEPT ![w] =
          CASE w = "sqlite" \/ env = "up" -> "running"
            [] w = "pg" /\ env = "unset"  -> "skipped"
            [] OTHER                      -> "failed"]
    /\ UNCHANGED <<setting, table, cache, answer, written, steps>>

-----------------------------------------------------------------------------
(* The body.                                                               *)

\* The body's next statement, in every test that runs it.
Statement(q) ==
    /\ Running # {} /\ \A w \in Arms : test[w] # "generated"
    /\ steps < MaxStmts
    /\ steps' = steps + 1
    /\ cache' = [w \in Arms |-> IF w \in Running THEN Kept(w, q) ELSE cache[w]]
    /\ UNCHANGED <<setting, test>>

Answers(f) == answer' = [w \in Arms |-> IF w \in Running THEN f[w] ELSE answer[w]]

Insert(v) ==
    /\ Statement(InsertQuery)
    /\ written' = Append(written, v)
    /\ table' = [w \in Arms |->
          IF w \in Running /\ FromAny(w, Lookup(w)) /\ ~Refuses(w, column, v)
            THEN table[w] \cup {[id |-> Len(written'), cell |-> CollectBinds(w, <<v>>)[1]]}
            ELSE table[w]]
    /\ Answers([w \in Arms |-> Loaded(w, InsertQuery, <<v>>, {})])

\* dispatch: the closure of the active arm, on that arm's own connection and
\* its own ToSql; its text is kept under its own key.
DispatchInsert(v) ==
    /\ ~isAsync
    /\ Running # {} /\ \A w \in Arms : test[w] # "generated"
    /\ steps < MaxStmts
    /\ steps' = steps + 1
    /\ written' = Append(written, v)
    /\ table' = [w \in Arms |->
          IF w \in Running /\ ~Refuses(w, column, v)
            THEN table[w] \cup {[id |-> Len(written'), cell |-> Bind(w, v)]} ELSE table[w]]
    /\ answer' = [w \in Arms |-> NoAnswer]
    /\ UNCHANGED <<setting, test, cache>>

Select ==
    /\ Statement(SelectQuery)
    /\ Answers([w \in Arms |-> Loaded(w, SelectQuery, <<>>, table[w])])
    /\ UNCHANGED <<table, written>>

\* eq_any over the values of S.
SelectIn(S) ==
    /\ IsFiniteSet(S)
    /\ Statement(InQuery(Cardinality(S)))
    /\ LET asked    == SetToSeq(S)
           found(w) == {r \in table[w] : \E i \in DOMAIN asked :
                            StoredEqual(w, column, r.cell, CollectBinds(w, asked)[i])}
       IN Answers([w \in Arms |-> Loaded(w, InQuery(Cardinality(S)), asked, found(w))])
    /\ UNCHANGED <<table, written>>

\* Another program puts something else into the SQLite cell, which takes it.
Foreign ==
    /\ test["sqlite"] = "running" /\ test["pg"] # "generated" /\ column # "bytes"
    /\ table' = [table EXCEPT !["sqlite"] = @ \cup {[id |-> 0, cell |-> Junk]}]
    /\ answer' = [w \in Arms |-> NoAnswer]
    /\ UNCHANGED <<setting, test, cache, written, steps>>

\* The body is through, or never ran.
Rest ==
    /\ \A w \in Arms : test[w] \notin {"source", "generated"}
    /\ UNCHANGED vars

Next ==
    \/ Compile
    \/ \E w \in Arms : Start(w)
    \/ \E v \in Values[column] : Insert(v) \/ DispatchInsert(v)
    \/ Select
    \/ \E S \in SUBSET Values[column] \ {{}} : SelectIn(S)
    \/ Foreign
    \/ Rest

Spec == Init /\ [][Next]_vars

-----------------------------------------------------------------------------
(* Properties.                                                             *)

All(vs, P(_, _)) == \A i \in DOMAIN vs : P(column, vs[i])
Untouched == \A w \in Arms : \A r \in table[w] : r.id # 0
Readable  == column = "enum" => DistinctLabels(decl)

\* No row reads back as a value it was not written as, on either backend,
\* whatever route the write took, but for what Same allows: the last bits of a
\* float that serde_json misses, half a microsecond, a large JSON float that
\* jsonb makes an integer.  A cell that no value writes is refused.  A value
\* both databases hold is never refused.
ReadsWhatWasWritten ==
    Readable => \A w \in Running :
        /\ answer[w].end = "ok" =>
              /\ Len(answer[w].values) = Len(answer[w].ids)
              /\ \A i \in DOMAIN answer[w].ids :
                    /\ answer[w].ids[i] # 0
                    /\ Same(w, column, written[answer[w].ids[i]], answer[w].values[i])
        /\ Untouched /\ All(written \o answer[w].asked, Portable) => answer[w].end # "error"

\* Write once: as long as the body keeps to values both databases hold, the two
\* tests see the same rows in the same order, whether the statements go through
\* the sync or the async connection or through dispatch; a filter on values
\* that have several spellings is the exception.
ConnectionsAgree ==
    /\ Running = Arms /\ Readable /\ Untouched
    /\ All(written \o answer["pg"].asked, Portable)
    /\ answer["pg"].query.kind = "in" => All(written \o answer["pg"].asked, Canonical)
    => /\ answer["pg"].end = answer["sqlite"].end
       /\ answer["pg"].ids = answer["sqlite"].ids

\* What a connection runs is the text of the query at hand with a bind for each
\* placeholder, and nothing is kept among its prepared statements that the
\* query forbade to keep: the cache is bounded by the queries of the program.
RunsItsOwnText ==
    \A w \in Running :
        /\ answer[w].ran = answer[w].query
        /\ Len(answer[w].asked) = answer[w].ran.width
        /\ \A k \in DOMAIN cache[w] : k.kind # "in"

\* timestamp.rs: the fixed width makes lexicographic order match chronological
\* order, for every stored value.
TextOrderIsTimeOrder ==
    \A w \in Running :
        column = "timestamp" /\ answer[w].query.kind = "select" /\ Untouched =>
            \A i, j \in DOMAIN answer[w].ids : i < j =>
                Micros(written[answer[w].ids[i]][1]) <= Micros(written[answer[w].ids[j]][1])
=============================================================================
