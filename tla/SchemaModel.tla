---------------------------- MODULE SchemaModel ----------------------------
(***************************************************************************)
(* The model behind schema.rs (Model::apply and render_schema_rs in        *)
(* diesel-dualdb-cli/src/lib.rs), followed statement by statement next to  *)
(* the databases that run the same statements, each with its native types. *)
(*                                                                         *)
(* A step is one statement of a logical migration, one that every database *)
(* of the team accepts: it moves the databases' catalogs (external, what   *)
(* PostgreSQL and SQLite do with DDL) and the generator's model.           *)
(***************************************************************************)
EXTENDS Naturals, Sequences, FiniteSets, SequencesExt

CONSTANTS
    Statements,     \* the statements a migration may hold
    Teams,          \* each a set of databases that a team runs its migrations on
    MaxStatements   \* bound on the statements of all migrations

VARIABLES
    model,      \* the generator's tables, in order of creation
    catalog,    \* catalog[b]: the tables of database b
    hatch,      \* the tables created inside tagged blocks
    current,    \* the statements of the migration being written
    before,     \* the catalogs when that migration began
    count,      \* statements so far
    failed      \* generate has returned an error

vars == <<model, catalog, hatch, current, before, count, failed>>

-----------------------------------------------------------------------------
(* Logical types. *)

Mapped(pg, sqlite, marker) == [postgres |-> pg, sqlite |-> sqlite, marker |-> marker]

MappedTypes ==
    [UUID      |-> Mapped("UUID", "BLOB", "Uuid"),
     TIMESTAMP |-> Mapped("TIMESTAMPTZ", "TEXT", "Timestamp"),
     JSON      |-> Mapped("JSONB", "TEXT", "Json"),
     BYTEA     |-> Mapped("BYTEA", "BLOB", "Bytes"),
     NUMERIC   |-> Mapped("NUMERIC", "TEXT", "Decimal"),
     TEXT      |-> Mapped("TEXT", "TEXT", "Text"),
     SMALLINT  |-> Mapped("SMALLINT", "SMALLINT", "SmallInt"),
     INTEGER   |-> Mapped("INTEGER", "INTEGER", "Integer"),
     BIGINT    |-> Mapped("BIGINT", "BIGINT", "BigInt"),
     REAL      |-> Mapped("REAL", "REAL", "Float"),
     BOOLEAN   |-> Mapped("BOOLEAN", "INTEGER", "Bool")]

HasMapping(type) == type \in DOMAIN MappedTypes

\* rewrite_types: the native type that stands in backend b's statement.
NativeType(type, b) == MappedTypes[type][b]

-----------------------------------------------------------------------------
(* Statements, as the parser delivers them.                                 *)

NoTable == "none"

\* A column: its options, and the table a REFERENCES clause names.
Column(name, type, notNull, primary, ref) ==
    [name |-> name, type |-> type, notNull |-> notNull, primary |-> primary, ref |-> ref]

\* key: a PRIMARY KEY constraint; fks: FOREIGN KEY constraints.
CreateStmt(table, columns, key, fks) ==
    [kind |-> "create", table |-> table, columns |-> columns, key |-> key, fks |-> fks]

ForeignKey(columns, parent) == [columns |-> columns, parent |-> parent]

AddColumnStmt(table, column)     == [kind |-> "add_column", table |-> table, column |-> column]
DropColumnStmt(table, name)      == [kind |-> "drop_column", table |-> table, name |-> name]
AddForeignKeyStmt(table, fk)     == [kind |-> "add_foreign_key", table |-> table, fk |-> fk]
DropTableStmt(table)             == [kind |-> "drop_table", table |-> table]

\* The same statement inside tagged blocks, one for each backend.
HatchStmt(s) == [kind |-> "hatch", table |-> s.table, body |-> s]

ColumnDefs  == [name : STRING, type : STRING, notNull : BOOLEAN, primary : BOOLEAN, ref : STRING]
ForeignKeys == [columns : Seq(STRING) \ {<<>>}, parent : STRING]
CreateStmts == [kind : {"create"}, table : STRING, columns : Seq(ColumnDefs), key : Seq(STRING),
                fks : Seq(ForeignKeys)]

IsStatement(s) ==
    \/ s \in CreateStmts
    \/ s \in [kind : {"add_column"}, table : STRING, column : ColumnDefs]
    \/ s \in [kind : {"drop_column"}, table : STRING, name : STRING]
    \/ s \in [kind : {"add_foreign_key"}, table : STRING, fk : ForeignKeys]
    \/ s \in [kind : {"drop_table"}, table : STRING]
    \/ s \in [kind : {"hatch"}, table : STRING, body : CreateStmts] /\ s.table = s.body.table

ASSUME SchemaAssumption ==
    /\ Teams \subseteq SUBSET {"postgres", "sqlite"}
    /\ {} \notin Teams
    /\ MaxStatements \in Nat
    /\ \A s \in Statements : IsStatement(s)

\* What is in S of a sequence, in order: a SelectSeq that proofs can be about.
Where(seq, S) ==
    FlattenSeq([i \in DOMAIN seq |-> IF seq[i] \in S THEN <<seq[i]>> ELSE <<>>])

Names(columns) == [i \in DOMAIN columns |-> columns[i].name]

Without(columns, name) == Where(columns, {c \in ToSet(columns) : c.name # name})

PrimaryNames(s) == Names(Where(s.columns, {c \in ToSet(s.columns) : c.primary}))

References(s) == Where(s.columns, {c \in ToSet(s.columns) : c.ref # NoTable})

\* A constraint replaces the key the column options spelled out.
KeyOf(s) == IF s.key # <<>> THEN s.key ELSE PrimaryNames(s)

-----------------------------------------------------------------------------
(* The generator: Model::apply.                                             *)

\* Mutant: the native type stands for the marker.
ModelColumnNative(c, nullable) ==
    [name |-> c.name, marker |-> MappedTypes[c.type].sqlite, nullable |-> nullable]

ModelColumn(c, nullable) ==
    [name |-> c.name, marker |-> MappedTypes[c.type].marker, nullable |-> nullable]

OwnEntries(s) == [i \in DOMAIN References(s) |-> <<References(s)[i].name, References(s)[i].ref>>]

\* Every column of a FOREIGN KEY constraint makes an entry of its own.
Entries(fk) == [j \in DOMAIN fk.columns |-> <<fk.columns[j], fk.parent>>]

KeyEntries(s) == FlattenSeq([i \in DOMAIN s.fks |-> Entries(s.fks[i])])

ModelTable(s) ==
    [name         |-> s.table,
     columns      |-> [i \in DOMAIN s.columns |->
                         ModelColumn(s.columns[i], ~s.columns[i].notNull /\ ~s.columns[i].primary)],
     primary_key  |-> KeyOf(s),
     foreign_keys |-> OwnEntries(s) \o KeyEntries(s)]

\* table_mut: the first table of the name, 0 if there is none.
TableMut(m, name) == SelectInSeq(m, LAMBDA t : t.name = name)

AppliedCreate(m, s) == Append(m, ModelTable(s))

\* Mutant: an added column is taken to be nullable.
AppliedAddNullable(m, s) ==
    [m EXCEPT ![TableMut(m, s.table)].columns = Append(@, ModelColumn(s.column, TRUE))]

\* Of an added column only the type and NOT NULL are read.
AppliedAddColumn(m, s) ==
    [m EXCEPT ![TableMut(m, s.table)].columns =
        Append(@, ModelColumn(s.column, ~s.column.notNull))]

\* Mutant: the statement passes the model by.
AddForeignKeyIgnored(m, s) == m

AppliedDropColumn(m, s) ==
    IF TableMut(m, s.table) = 0 THEN m
    ELSE [m EXCEPT ![TableMut(m, s.table)].columns = Without(@, s.name)]

AppliedAddForeignKey(m, s) ==
    IF TableMut(m, s.table) = 0 THEN m
    ELSE [m EXCEPT ![TableMut(m, s.table)].foreign_keys = @ \o Entries(s.fk)]

\* An unmapped type, or a column added to a table the model does not have.
IsRefused(m, s) ==
    \/ s.kind = "create" /\ \E i \in DOMAIN s.columns : ~HasMapping(s.columns[i].type)
    \/ s.kind = "add_column" /\ (~HasMapping(s.column.type) \/ TableMut(m, s.table) = 0)

\* primary_key_cols: with no key, diesel is told the first column.
PrimaryKeyCols(t) ==
    IF t.primary_key = <<>> /\ t.columns # <<>> THEN <<t.columns[1].name>> ELSE t.primary_key

\* Mutant: the two halves of an entry change places.
JoinablesSwapped(m) ==
    FlattenSeq([i \in DOMAIN m |->
        [j \in DOMAIN m[i].foreign_keys |->
            [child  |-> m[i].name,
             parent |-> m[i].foreign_keys[j][1],
             column |-> m[i].foreign_keys[j][2]]]])

\* render_schema_rs: a table! for each table, a joinable! for each entry.
Joinables(m) ==
    FlattenSeq([i \in DOMAIN m |->
        [j \in DOMAIN m[i].foreign_keys |->
            [child  |-> m[i].name,
             parent |-> m[i].foreign_keys[j][2],
             column |-> m[i].foreign_keys[j][1]]]])

Created(stmts) == Where(stmts, {s \in ToSet(stmts) : s.kind = "create"})

\* Mutant: in the order of creation.
DeriveDownForward(stmts) == [i \in DOMAIN Created(stmts) |-> Created(stmts)[i].table]

\* derive_down: the tables the shared statements create, last one first.
DeriveDown(stmts) == Reverse([i \in DOMAIN Created(stmts) |-> Created(stmts)[i].table])

-----------------------------------------------------------------------------
(* The databases. *)

\* A key makes its columns NOT NULL on PostgreSQL only.
CatalogTable(s, b) ==
    [columns |-> [i \in DOMAIN s.columns |->
                    [name    |-> s.columns[i].name,
                     native  |-> IF HasMapping(s.columns[i].type)
                                   THEN NativeType(s.columns[i].type, b)
                                   ELSE s.columns[i].type,
                     notNull |-> \/ s.columns[i].notNull
                                 \/ b = "postgres" /\ Contains(KeyOf(s), s.columns[i].name)]],
     key     |-> KeyOf(s),
     fks     |-> {ForeignKey(<<References(s)[i].name>>, References(s)[i].ref)
                    : i \in DOMAIN References(s)} \cup ToSet(s.fks)]

ColumnNames(t) == ToSet(Names(t.columns))

ReferencedByOthers(cat, table) ==
    \E u \in DOMAIN cat \ {table} : \E fk \in cat[u].fks : fk.parent = table

AcceptsCreate(cat, s) ==
    LET names == ToSet(Names(s.columns))
    IN  /\ s.table \notin DOMAIN cat
        /\ Cardinality(names) = Len(s.columns)
        /\ Len(PrimaryNames(s)) + (IF s.key = <<>> THEN 0 ELSE 1) <= 1
        /\ ToSet(s.key) \subseteq names
        /\ \A i \in DOMAIN References(s) : References(s)[i].ref \in DOMAIN cat \cup {s.table}
        /\ \A i \in DOMAIN s.fks :
              /\ ToSet(s.fks[i].columns) \subseteq names
              /\ s.fks[i].parent \in DOMAIN cat \cup {s.table}

AcceptsAddColumn(cat, b, s) ==
    /\ s.table \in DOMAIN cat
    /\ s.column.name \notin ColumnNames(cat[s.table])
    /\ s.column.primary => b = "postgres" /\ cat[s.table].key = <<>>
    /\ s.column.ref \in DOMAIN cat \cup {NoTable}

\* SQLite drops no column of a key or of a foreign key, and not the last one;
\* PostgreSQL drops the column's own constraints with it.
AcceptsDropColumn(cat, b, s) ==
    /\ s.table \in DOMAIN cat
    /\ s.name \in ColumnNames(cat[s.table])
    /\ Len(cat[s.table].columns) > 1
    /\ Contains(cat[s.table].key, s.name) =>
          b = "postgres" /\ ~ReferencedByOthers(cat, s.table)
    /\ b = "sqlite" => \A fk \in cat[s.table].fks : ~Contains(fk.columns, s.name)

Accepts(cat, b, s) ==
    \/ s.kind = "create" /\ AcceptsCreate(cat, s)
    \/ s.kind = "hatch" /\ AcceptsCreate(cat, s.body)
    \/ s.kind = "add_column" /\ AcceptsAddColumn(cat, b, s)
    \/ s.kind = "drop_column" /\ AcceptsDropColumn(cat, b, s)
    \/ /\ s.kind = "add_foreign_key" /\ b = "postgres"
       /\ s.table \in DOMAIN cat /\ s.fk.parent \in DOMAIN cat
       /\ ToSet(s.fk.columns) \subseteq ColumnNames(cat[s.table])
    \/ s.kind = "drop_table" /\ s.table \in DOMAIN cat /\ ~ReferencedByOthers(cat, s.table)

WithTable(cat, name, t) == [u \in DOMAIN cat \cup {name} |-> IF u = name THEN t ELSE cat[u]]
WithoutTable(cat, name) == [u \in DOMAIN cat \ {name} |-> cat[u]]

CreatedIn(cat, b, s) == WithTable(cat, s.table, CatalogTable(s, b))

AddedIn(cat, b, s) ==
    LET c == s.column
        one == CatalogTable(CreateStmt(s.table, <<c>>, <<>>, <<>>), b)
    IN  [cat EXCEPT ![s.table] =
            [columns |-> @.columns \o one.columns,
             key     |-> @.key \o one.key,
             fks     |-> @.fks \cup one.fks]]

DroppedIn(cat, s) ==
    [cat EXCEPT ![s.table] =
        [columns |-> Without(@.columns, s.name),
         key     |-> IF Contains(@.key, s.name) THEN <<>> ELSE @.key,
         fks     |-> {fk \in @.fks : ~Contains(fk.columns, s.name)}]]

Executed(cat, b, s) ==
    CASE s.kind = "create"          -> CreatedIn(cat, b, s)
      [] s.kind = "hatch"           -> CreatedIn(cat, b, s.body)
      [] s.kind = "add_column"      -> AddedIn(cat, b, s)
      [] s.kind = "drop_column"     -> DroppedIn(cat, s)
      [] s.kind = "add_foreign_key" -> [cat EXCEPT ![s.table].fks = @ \cup {s.fk}]
      [] s.kind = "drop_table"      -> WithoutTable(cat, s.table)

-----------------------------------------------------------------------------
EmptyCatalog == [u \in {} |-> u]

\* The databases of the team at hand.
Backends == DOMAIN catalog

Init ==
    /\ model = <<>>
    /\ \E team \in Teams : catalog = [b \in team |-> EmptyCatalog]
    /\ hatch = {}
    /\ current = <<>>
    /\ before = catalog
    /\ count = 0
    /\ failed = FALSE

\* The next statement of the migration, run by every database.
Run(s) ==
    /\ ~failed
    /\ count < MaxStatements
    /\ count' = count + 1
    /\ \A b \in Backends : Accepts(catalog[b], b, s)
    /\ current' = Append(current, s)
    /\ catalog' = [b \in Backends |-> Executed(catalog[b], b, s)]
    /\ UNCHANGED before

CreateTable(s) ==
    /\ s.kind = "create"
    /\ ~IsRefused(model, s)
    /\ Run(s)
    /\ model' = AppliedCreate(model, s)
    /\ UNCHANGED <<hatch, failed>>

AddColumn(s) ==
    /\ s.kind = "add_column"
    /\ ~IsRefused(model, s)
    /\ Run(s)
    /\ model' = AppliedAddColumn(model, s)
    /\ UNCHANGED <<hatch, failed>>

DropColumn(s) ==
    /\ s.kind = "drop_column"
    /\ Run(s)
    /\ model' = AppliedDropColumn(model, s)
    /\ UNCHANGED <<hatch, failed>>

AddForeignKey(s) ==
    /\ s.kind = "add_foreign_key"
    /\ Run(s)
    /\ model' = AppliedAddForeignKey(model, s)
    /\ UNCHANGED <<hatch, failed>>

\* Every other statement passes the model by.
DropTable(s) ==
    /\ s.kind = "drop_table"
    /\ Run(s)
    /\ UNCHANGED <<model, hatch, failed>>

\* Mutant: the model is built from tagged blocks too.
EscapeHatchSeen(s) ==
    /\ s.kind = "hatch"
    /\ Run(s)
    /\ hatch' = hatch \cup {s.table}
    /\ model' = AppliedCreate(model, s.body)
    /\ UNCHANGED failed

\* A statement in tagged blocks is not shown to the model.
EscapeHatch(s) ==
    /\ s.kind = "hatch"
    /\ Run(s)
    /\ hatch' = hatch \cup {s.table}
    /\ UNCHANGED <<model, failed>>

\* generate stops with an error, and nothing is written.
Refuse(s) ==
    /\ IsRefused(model, s)
    /\ Run(s)
    /\ failed' = TRUE
    /\ UNCHANGED <<model, hatch>>

NextMigration ==
    /\ current # <<>>
    /\ ~failed
    /\ current' = <<>>
    /\ before' = catalog
    /\ UNCHANGED <<model, catalog, hatch, count, failed>>

Next ==
    \/ \E s \in Statements :
          CreateTable(s) \/ AddColumn(s) \/ DropColumn(s) \/ AddForeignKey(s)
            \/ DropTable(s) \/ EscapeHatch(s) \/ Refuse(s)
    \/ NextMigration

Spec == Init /\ [][Next]_vars

-----------------------------------------------------------------------------
(* Properties: schema.rs against the databases. *)

ModelColumns == [name : STRING, marker : {MappedTypes[ty].marker : ty \in DOMAIN MappedTypes},
                 nullable : BOOLEAN]
ModelTables  == [name : STRING, columns : Seq(ModelColumns), primary_key : Seq(STRING),
                 foreign_keys : Seq(STRING \X STRING)]

NativeTypes    == {NativeType(ty, b) : ty \in DOMAIN MappedTypes, b \in {"postgres", "sqlite"}}
CatalogColumns == [name : STRING, native : NativeTypes \cup STRING, notNull : BOOLEAN]
CatalogTables  == [columns : Seq(CatalogColumns), key : Seq(STRING), fks : SUBSET ForeignKeys]

IsCatalog(cat) == DOMAIN cat \subseteq STRING /\ cat \in [DOMAIN cat -> CatalogTables]

TypeOK ==
    /\ model \in Seq(ModelTables)
    /\ Backends \in Teams /\ \A b \in Backends : IsCatalog(catalog[b])
    /\ DOMAIN before = Backends /\ \A b \in Backends : IsCatalog(before[b])
    /\ hatch \subseteq STRING
    /\ current \in Seq(Statements)
    /\ count \in 0 .. MaxStatements
    /\ failed \in BOOLEAN

\* The tables schema.rs declares, and those it should: all but the ones that
\* only tagged blocks create.
Declared == {model[i].name : i \in DOMAIN model}

\* Column by column, as a query built from schema.rs meets it in database b.
ColumnFits(c, d, b) ==
    /\ c.name = d.name
    /\ \E ty \in DOMAIN MappedTypes :
          c.marker = MappedTypes[ty].marker /\ d.native = NativeType(ty, b)
    /\ c.nullable = ~d.notNull

TableFits(t, u, b) ==
    /\ Len(t.columns) = Len(u.columns)
    /\ \A i \in DOMAIN t.columns : ColumnFits(t.columns[i], u.columns[i], b)
    /\ u.key # <<>> => PrimaryKeyCols(t) = u.key

\* Through any history of CREATE TABLE, ADD COLUMN and DROP COLUMN, each table!
\* of schema.rs lists the columns that both databases have, in their order,
\* with a marker for the native type found there, Nullable where the database
\* admits NULL and nowhere else, and the databases' key: a positional row read
\* through it finds the column it names, and fits it, on either backend.
SchemaFits ==
    ~failed => \A i \in DOMAIN model : \A b \in Backends :
        model[i].name \in DOMAIN catalog[b] => TableFits(model[i], catalog[b][model[i].name], b)

\* "They can't drift": schema.rs declares each table of the databases once and
\* no other (tables made by tagged blocks are not its business).
TablesFollow ==
    ~failed =>
        /\ \A i, j \in DOMAIN model : model[i].name = model[j].name => i = j
        /\ \A b \in Backends : Declared = DOMAIN catalog[b] \ hatch

\* A joinable! names a column that its table! still has, and a declared parent.
JoinsNameColumns ==
    ~failed => \A k \in DOMAIN Joinables(model) :
        LET j == Joinables(model)[k]
        IN  /\ \E i \in DOMAIN model :
                  model[i].name = j.child /\ Contains(Names(model[i].columns), j.column)
            /\ j.parent \in Declared \cup hatch

\* A foreign key of the databases has its joinable!.
ForeignKeysJoin ==
    ~failed => \A b \in Backends : \A t \in Declared \cap DOMAIN catalog[b] :
        \A fk \in catalog[b][t].fks : \E k \in DOMAIN Joinables(model) :
            Joinables(model)[k].child = t /\ Joinables(model)[k].parent = fk.parent

\* Of which migrations schema.rs keeps up with the databases: a table of the
\* shared statements is not dropped,
TablesStay ==
    \A s, d \in Statements : s.kind = "create" /\ d.kind = "drop_table" => d.table # s.table

\* a key is that of its CREATE TABLE,
KeysStay ==
    /\ \A a \in Statements : a.kind = "add_column" => ~a.column.primary
    /\ \A s, d \in Statements :
          s.kind = "create" /\ d.kind = "drop_column" /\ d.table = s.table
             => ~Contains(KeyOf(s), d.name)

\* and each of its columns says NOT NULL itself,
KeysNotNull ==
    \A s \in Statements : s.kind = "create" =>
        \A c \in ToSet(s.columns) : c.primary \/ Contains(KeyOf(s), c.name) => c.notNull

\* a column that refers to a table is not dropped,
RefersFrom(table, column) ==
    \E s \in Statements :
        /\ s.kind \in {"create", "add_foreign_key"} /\ s.table = table
        /\ s.kind = "create" => \E e \in ToSet(OwnEntries(s) \o KeyEntries(s)) : e[1] = column
        /\ s.kind = "add_foreign_key" => Contains(s.fk.columns, column)

ReferencesStay ==
    \A d \in Statements : d.kind = "drop_column" => ~RefersFrom(d.table, d.name)

\* and none is added.
NoReferenceAdded == \A a \in Statements : a.kind = "add_column" => a.column.ref = NoTable

\* What a database is left with after the derived down.sql; a DROP TABLE of a
\* table that another one references is an error.
DropIfExists(at, name) ==
    IF ~at.ok \/ name \notin DOMAIN at.cat THEN at
    ELSE [ok |-> ~ReferencedByOthers(at.cat, name), cat |-> WithoutTable(at.cat, name)]

RunDown(cat, names) ==
    LET run[k \in 0 .. Len(names)] ==
            IF k = 0 THEN [ok |-> TRUE, cat |-> cat] ELSE DropIfExists(run[k - 1], names[k])
    IN  run[Len(names)]

\* For a migration of shared CREATE TABLEs the derived down.sql runs, whatever
\* foreign keys its tables hold, and leaves each database as it was before.
DownUndoesCreates ==
    (\A i \in DOMAIN current : current[i].kind = "create") => \A b \in Backends :
        LET down == RunDown(catalog[b], DeriveDown(current))
        IN  down.ok /\ down.cat = before[b]
=============================================================================
