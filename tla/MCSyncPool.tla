----------------------------- MODULE MCSyncPool -----------------------------
(* SyncPool on a small instance, for TLC. *)
EXTENDS SyncPool

\* A server, a server no driver finds, three files and an unknown scheme.
SomeUrls ==
    {Plain("postgres://"), [Plain("postgresql://") EXCEPT !.blanks = "before"],
     Plain("sqlite://"), [Plain("sqlite://") EXCEPT !.capitals = TRUE],
     Plain("other://")}
=============================================================================
