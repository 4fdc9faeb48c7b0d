------------------------------ MODULE DualUrl ------------------------------
(***************************************************************************)
(* From a database URL to the database that is opened: detect_backend and  *)
(* the connects of the two pools.  A URL is its head (the scheme, or what  *)
(* else detection looks at), whether the head is written with capitals,    *)
(* and the blanks around the whole.                                        *)
(***************************************************************************)
PgHeads == {"postgres://", "postgresql://"}
Heads   == PgHeads \cup {"sqlite://", "other://", "file:", ":memory:", "path"}

Url == {u \in [head : Heads, capitals : BOOLEAN, blanks : {"none", "before", "after"}] :
            u.head = "path" => ~u.capitals}

Plain(h) == [head |-> h, capitals |-> FALSE, blanks |-> "none"]

\* str::starts_with and ==, case-sensitive and blind to nothing.
StartsWith(u, h) == u.head = h /\ ~u.capitals /\ u.blanks # "before"
Equals(u, h)     == u = Plain(h)

\* trim().to_ascii_lowercase()
Lowered(u) == Plain(u.head)

DetectBackend(u) ==
    LET lower == Lowered(u) IN
    CASE \E h \in PgHeads : StartsWith(lower, h)                    -> "pg"
      [] StartsWith(lower, "sqlite://") \/ StartsWith(lower, "file:")
           \/ Equals(lower, ":memory:")                             -> "sqlite"
      [] lower.head = "other://"                                    -> "unknown"
      [] OTHER                                                      -> "sqlite"

-----------------------------------------------------------------------------
(* What the drivers open.  A file is the text that names it.               *)

Server  == [kind |-> "server", text |-> Plain("path")]
Memory  == [kind |-> "memory", text |-> Plain("path")]
File(u) == [kind |-> "file",   text |-> u]
Refused == [kind |-> "refused", text |-> Plain("path")]

\* libpq and tokio-postgres: the scheme must stand there as it is; a database
\* whose name ends in a blank does not exist.
PgOpens(u) ==
    IF u.blanks = "none" /\ \E h \in PgHeads : StartsWith(u, h) THEN Server ELSE Refused

\* SQLite: ":memory:" exactly, a file: URI, or a file of that very name.
SqliteOpens(u) ==
    CASE Equals(u, ":memory:")  -> Memory
      [] StartsWith(u, "file:") -> File([u EXCEPT !.head = "path"])
      [] OTHER                  -> File(u)

\* strip_prefix("sqlite://"), of the text as the caller wrote it.
Stripped(u) == IF StartsWith(u, "sqlite://") THEN [u EXCEPT !.head = "path"] ELSE u

\* Mutant: the scheme is handed to SQLite.
OpensUnstripped(u) == IF DetectBackend(u) = "pg" THEN PgOpens(u) ELSE SqliteOpens(u)

\* DualConnectionManager::connect, for the backend detected when it was built.
Opens(u) == IF DetectBackend(u) = "pg" THEN PgOpens(u) ELSE SqliteOpens(Stripped(u))

\* AsyncDualConnection::establish detects and strips on its own.
AsyncOpens(u) ==
    CASE DetectBackend(u) = "pg"     -> PgOpens(u)
      [] DetectBackend(u) = "sqlite" -> SqliteOpens(Stripped(u))
      [] OTHER                       -> Refused

\* The database that the documentation of detect_backend has u mean.
Named(u) ==
    CASE DetectBackend(u) = "pg" -> Server
      [] u.head = ":memory:"     -> Memory
      [] OTHER                   -> File(Plain("path"))

\* Detection trims and lowers, opening does neither.
Loose(u) == u.capitals \/ u.blanks # "none"
=============================================================================
