----------------------------- MODULE SchemaGen -----------------------------
(***************************************************************************)
(* A run of diesel-dualdb-schema, from the migrations directory to the     *)
(* output directory (main.rs, read_migrations, generate and write_outputs  *)
(* of diesel-dualdb-cli), again and again while developers edit, add and   *)
(* remove logical migrations and any file operation may fail or be cut.    *)
(*                                                                         *)
(* The text of a migration is its revision: the number of the edit that    *)
(* wrote it.  Some revisions are malformed (no parse, an unmapped type, a  *)
(* misplaced directive) and make generate fail.  A generated file is the   *)
(* run that wrote it and the revision it was made from.                    *)
(***************************************************************************)
EXTENDS Naturals

CONSTANTS
    MaxDir,     \* the migrations are numbered in their sorted order
    MaxEdits,   \* bound on the edits
    MaxRuns     \* bound on the runs of the generator

ASSUME GenAssumption ==
    /\ MaxDir \in Nat \ {0}
    /\ MaxEdits \in Nat
    /\ MaxRuns \in Nat

Dir     == 1 .. MaxDir
Rev     == 0 .. MaxEdits            \* 0: there is no such migration
File    == {"up.sql", "down.sql"}
Tree    == {"migrations-postgres", "migrations-sqlite"}
Written == [run : 0 .. MaxRuns, rev : Rev, torn : BOOLEAN]

SchemaRs == [tree |-> "schema.rs", dir |-> 0, file |-> "schema.rs"]
Places   == [tree : Tree, dir : Dir, file : File] \cup {SchemaRs}

NoFile == [run |-> 0, rev |-> 0, torn |-> FALSE]

VARIABLES
    logical,    \* logical[d]: the revision in the migrations directory
    malformed,  \* the revisions that generate refuses
    edits,      \* edits so far
    phase,      \* where the generator stands
    run,        \* runs so far
    toRead,     \* the listed migrations still to be read
    migrations, \* migrations[d]: the revision this run has read
    toWrite,    \* the files this run has still to write
    tree,       \* tree[b][d][f]: the generated migration file
    schema,     \* the generated schema.rs
    removed     \* history: the migrations that were ever removed

logicalVars == <<logical, malformed, edits, removed>>
diskVars    == <<tree, schema>>
vars == <<logical, malformed, edits, removed, phase, run, toRead, migrations,
          toWrite, tree, schema>>

Phases == {"idle", "reading", "generating", "writing", "ok", "failed"}

TypeOK ==
    /\ logical \in [Dir -> Rev]
    /\ malformed \subseteq Rev
    /\ edits \in Rev
    /\ phase \in Phases
    /\ run \in 0 .. MaxRuns
    /\ toRead \subseteq Dir
    /\ migrations \in [Dir -> Rev]
    /\ toWrite \subseteq Places
    /\ tree \in [Tree -> [Dir -> [File -> Written]]]
    /\ schema \in [run : 0 .. MaxRuns, torn : BOOLEAN, made : [Dir -> Rev]]
    /\ removed \subseteq Dir

Nothing == [d \in Dir |-> 0]

Init ==
    /\ logical = Nothing
    /\ malformed = {}
    /\ edits = 0
    /\ phase = "idle"
    /\ run = 0
    /\ toRead = {}
    /\ migrations = Nothing
    /\ toWrite = {}
    /\ tree = [b \in Tree |-> [d \in Dir |-> [f \in File |-> NoFile]]]
    /\ schema = [run |-> 0, torn |-> FALSE, made |-> Nothing]
    /\ removed = {}

-----------------------------------------------------------------------------
(* The developers, at any time. *)

Edit(d) ==
    /\ edits < MaxEdits
    /\ edits' = edits + 1
    /\ logical' = [logical EXCEPT ![d] = edits + 1]
    /\ malformed' \in {malformed, malformed \cup {edits + 1}}
    /\ UNCHANGED <<removed, phase, run, toRead, migrations, toWrite, diskVars>>

Remove(d) ==
    /\ logical[d] # 0
    /\ logical' = [logical EXCEPT ![d] = 0]
    /\ removed' = removed \cup {d}
    /\ UNCHANGED <<malformed, edits, phase, run, toRead, migrations, toWrite, diskVars>>

-----------------------------------------------------------------------------
(* The generator. *)

\* read_migrations lists the directory first, then reads one by one.
Start ==
    /\ phase \in {"idle", "ok", "failed"}
    /\ run < MaxRuns
    /\ run' = run + 1
    /\ phase' = "reading"
    /\ toRead' = {d \in Dir : logical[d] # 0}
    /\ migrations' = Nothing
    /\ toWrite' = {}
    /\ UNCHANGED <<logicalVars, diskVars>>

\* The next of the sorted list.  A directory that has lost its up.sql since is
\* passed over.
ReadMigration(d) ==
    /\ phase = "reading"
    /\ d \in toRead
    /\ \A e \in toRead : d <= e
    /\ migrations' = [migrations EXCEPT ![d] = logical[d]]
    /\ toRead' = toRead \ {d}
    /\ UNCHANGED <<logicalVars, phase, run, toWrite, diskVars>>

AllRead ==
    /\ phase = "reading"
    /\ toRead = {}
    /\ phase' = "generating"
    /\ UNCHANGED <<logicalVars, run, toRead, migrations, toWrite, diskVars>>

\* Mutant: an error path of its own.
StopPanicked == phase' = "panicked"

Stop == phase' = "failed"

\* A directory that cannot be listed or a file that cannot be read ends the run.
ReadFails ==
    /\ phase = "reading"
    /\ toRead # {} \/ migrations = Nothing
    /\ Stop
    /\ UNCHANGED <<logicalVars, run, toRead, migrations, toWrite, diskVars>>

Read == {d \in Dir : migrations[d] # 0}

\* The first malformed migration ends the run, before anything is written.
GenerateFails ==
    /\ phase = "generating"
    /\ \E d \in Read : migrations[d] \in malformed
    /\ Stop
    /\ UNCHANGED <<logicalVars, run, toRead, migrations, toWrite, diskVars>>

\* Mutant: schema.rs comes first.
PrecedesSchemaFirst(v, w) ==
    \/ v = SchemaRs
    \/ /\ w # SchemaRs
       /\ \/ v.tree = "migrations-postgres" /\ w.tree = "migrations-sqlite"
          \/ v.tree = w.tree /\ v.dir < w.dir
          \/ v.tree = w.tree /\ v.dir = w.dir /\ v.file = "up.sql"

\* The order of write_outputs: the Postgres tree, the SQLite tree, schema.rs; in
\* a tree by migration, and of a migration up.sql before down.sql.
Precedes(v, w) ==
    \/ w = SchemaRs
    \/ /\ v # SchemaRs
       /\ \/ v.tree = "migrations-postgres" /\ w.tree = "migrations-sqlite"
          \/ v.tree = w.tree /\ v.dir < w.dir
          \/ v.tree = w.tree /\ v.dir = w.dir /\ v.file = "up.sql"

FilesOf(ds) == [tree : Tree, dir : ds, file : File]

\* Mutant: a malformed migration is not noticed before the files are written.
GenerateUnchecked ==
    /\ phase = "generating"
    /\ phase' = "writing"
    /\ toWrite' = FilesOf(Read) \cup {SchemaRs}
    /\ UNCHANGED <<logicalVars, run, toRead, migrations, diskVars>>

Generate ==
    /\ phase = "generating"
    /\ \A d \in Read : migrations[d] \notin malformed
    /\ phase' = "writing"
    /\ toWrite' = FilesOf(Read) \cup {SchemaRs}
    /\ UNCHANGED <<logicalVars, run, toRead, migrations, diskVars>>

\* The next file, whole or cut short.
Put(w, torn) ==
    /\ phase = "writing"
    /\ w \in toWrite
    /\ \A v \in toWrite \ {w} : Precedes(w, v)
    /\ IF w = SchemaRs
         THEN /\ schema' = [run |-> run, torn |-> torn, made |-> migrations]
              /\ UNCHANGED tree
         ELSE /\ tree' = [tree EXCEPT ![w.tree][w.dir][w.file] =
                             [run |-> run, rev |-> migrations[w.dir], torn |-> torn]]
              /\ UNCHANGED schema

Write(w) ==
    /\ Put(w, FALSE)
    /\ toWrite' = toWrite \ {w}
    /\ UNCHANGED <<logicalVars, phase, run, toRead, migrations>>

\* Mutant: the error of a write is swallowed and the next file written.
WriteCutSilently(w) ==
    /\ Put(w, TRUE)
    /\ toWrite' = toWrite \ {w}
    /\ UNCHANGED <<logicalVars, phase, run, toRead, migrations>>

\* The write fails, or the process is killed, in the middle of a file: it is
\* torn, and the files written so far stay.
WriteCut(w) ==
    /\ Put(w, TRUE)
    /\ Stop
    /\ UNCHANGED <<logicalVars, run, toRead, migrations, toWrite>>

\* The file cannot be opened, or the process is killed between two files.
WriteFails ==
    /\ phase = "writing"
    /\ toWrite # {}
    /\ Stop
    /\ UNCHANGED <<logicalVars, run, toRead, migrations, toWrite, diskVars>>

Succeed ==
    /\ phase = "writing"
    /\ toWrite = {}
    /\ phase' = "ok"
    /\ UNCHANGED <<logicalVars, run, toRead, migrations, toWrite, diskVars>>

Generator ==
    \/ Start
    \/ \E d \in Dir : ReadMigration(d)
    \/ AllRead
    \/ ReadFails
    \/ Generate
    \/ GenerateFails
    \/ \E w \in toWrite : Write(w) \/ WriteCut(w)
    \/ WriteFails
    \/ Succeed

Next == Generator \/ \E d \in Dir : Edit(d) \/ Remove(d)

Spec == Init /\ [][Next]_vars

-----------------------------------------------------------------------------
(* Properties. *)

\* schema.rs is never ahead of the migrations: a whole schema.rs made by a run
\* implies that the run, or a later one, has written both backends' files of
\* every migration it speaks of, whatever failed before or after.
SchemaNeverAhead ==
    ~schema.torn => \A d \in Dir, b \in Tree, f \in File :
        schema.made[d] # 0 => tree[b][d][f].run >= schema.run

\* A run that reports success leaves both trees and schema.rs made from the one
\* reading of the migrations, with no file torn by an earlier run left in them;
\* any other migration in the trees is one that was removed.
SuccessIsWhole ==
    phase = "ok" =>
        /\ schema = [run |-> run, torn |-> FALSE, made |-> migrations]
        /\ \A d \in Read, b \in Tree, f \in File :
              tree[b][d][f] = [run |-> run, rev |-> migrations[d], torn |-> FALSE]
        /\ \A d \in Dir \ Read, b \in Tree, f \in File :
              tree[b][d][f] # NoFile => d \in removed

\* A run that meets a malformed migration changes no file, not even those of the
\* migrations before it.
AllOrNothing ==
    [][diskVars' # diskVars => \A d \in Dir : migrations[d] \notin malformed]_vars
=============================================================================
