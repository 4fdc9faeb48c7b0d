--------------------------- MODULE MCSchemaModel ---------------------------
(* SchemaModel over a small vocabulary of statements, for TLC. *)
EXTENDS SchemaModel

Id      == Column("id", "UUID", TRUE, TRUE, NoTable)
Author  == Column("author", "UUID", TRUE, FALSE, "users")
Body    == Column("body", "JSON", FALSE, FALSE, NoTable)
Seen    == Column("seen", "TIMESTAMP", TRUE, FALSE, NoTable)
Day     == Column("day", "DATE", FALSE, FALSE, NoTable)
Part    == Column("part", "INTEGER", FALSE, FALSE, NoTable)

Users     == CreateStmt("users", <<Id, Body>>, <<>>, <<>>)
Posts     == CreateStmt("posts", <<Id, Author, Body>>, <<>>, <<>>)
PostsKey  == CreateStmt("posts", <<Seen, Author, Body>>, <<"author", "seen">>,
                        <<ForeignKey(<<"seen">>, "tags")>>)
Tags      == CreateStmt("tags", <<Seen, Part>>, <<>>, <<>>)
TagsOfDay == CreateStmt("tags", <<Id, Day>>, <<>>, <<>>)

Audit     == CreateStmt("audit", <<Seen, Body>>, <<>>, <<>>)

Creates == {Users, Posts, PostsKey, Tags}
Adds    == {AddColumnStmt(t, c) : t \in {"users", "posts", "tags"}, c \in {Part, Seen}}
Drops   == {DropColumnStmt(t, c) : t \in {"users", "tags"}, c \in {"body", "seen", "part"}}
              \cup {DropColumnStmt("posts", c) : c \in {"body", "part"}}

\* What schema.rs follows: of dropped tables those that tagged blocks made, of
\* dropped columns those of no foreign key.
Supported == Creates \cup Adds \cup Drops
                \cup {TagsOfDay, AddColumnStmt("users", Day),
                      AddForeignKeyStmt("posts", ForeignKey(<<"id">>, "tags")),
                      HatchStmt(Users), HatchStmt(Tags), HatchStmt(Audit), DropTableStmt("audit")}

ASSUME KeepsUp ==
    Statements = Supported =>
        TablesStay /\ KeysStay /\ KeysNotNull /\ ReferencesStay /\ NoReferenceAdded

\* One kind of statement more: a shared table is dropped.
WithDropTable == {Users, Posts, Tags, DropTableStmt("posts"), DropTableStmt("users")}

\* Others of one kind more, over which TLC refutes SchemaFits, JoinsNameColumns
\* and ForeignKeysJoin, in this order:
\* a column of a PRIMARY KEY constraint does not say NOT NULL itself,
PartsKey == CreateStmt("parts", <<Seen, Part>>, <<"seen", "part">>, <<>>)
WithNullableKey == {Users, Tags, PartsKey, AddColumnStmt("users", Part)}

\* the column of a foreign key is dropped,
WithDropReference == {Users, Posts, Tags, AddColumnStmt("users", Part),
                      DropColumnStmt("posts", "author"), DropColumnStmt("posts", "body")}

\* a column with a REFERENCES clause is added.
Owner == Column("owner", "UUID", FALSE, FALSE, "users")
WithAddReference == {Users, Posts, Tags, AddColumnStmt("tags", Owner), AddColumnStmt("users", Part)}

\* The teams of one database, and the one of both.
EveryTeam == SUBSET {"postgres", "sqlite"} \ {{}}
Both      == {{"postgres", "sqlite"}}
=============================================================================
