-------------------------- MODULE SchemaGenProofs --------------------------
(***************************************************************************)
(* Proofs about SchemaGen, for any number of migrations, edits and runs:   *)
(* types, schema.rs never ahead of the trees, a run that succeeds leaves   *)
(* everything whole, and one that meets a malformed migration nothing.     *)
(***************************************************************************)
EXTENDS SchemaGen, TLAPS

Whole(d) == [run |-> run, rev |-> migrations[d], torn |-> FALSE]

\* Revisions are those of the edits so far, and no migration's absence is
\* malformed.
Edited ==
    /\ malformed \subseteq 1 .. edits
    /\ \A d \in Dir : logical[d] <= edits /\ migrations[d] <= edits

\* What a run has left to read and to write at each phase.
Progress ==
    /\ phase \in {"generating", "writing", "ok"} => toRead = {}
    /\ phase \in {"writing", "ok"} => toWrite \subseteq FilesOf(Read) \cup {SchemaRs}
    /\ phase = "ok" => toWrite = {}

\* Nothing is written of a run that has read a malformed migration.
Checked ==
    phase \in {"writing", "ok"} => \A d \in Dir : migrations[d] \notin malformed

\* Of the files of a run that writes or has succeeded, those not left to write
\* are whole.
Done ==
    phase \in {"writing", "ok"} =>
        /\ \A d \in Read, b \in Tree, f \in File :
              \/ [tree |-> b, dir |-> d, file |-> f] \in toWrite
              \/ tree[b][d][f] = Whole(d)
        /\ \/ SchemaRs \in toWrite
           \/ schema = [run |-> run, torn |-> FALSE, made |-> migrations]

\* A generated file that this run does not replace is that of a migration that
\* was removed.
Leftover(d) == \A b \in Tree, f \in File : tree[b][d][f] # NoFile => d \in removed

Leftovers ==
    \A d \in Dir :
        /\ migrations[d] # 0 => logical[d] # 0 \/ d \in removed
        /\ logical[d] # 0 \/ Leftover(d)
        /\ d \in toRead \/ migrations[d] # 0 \/ Leftover(d)

GenInv ==
    /\ TypeOK
    /\ Edited
    /\ Progress
    /\ Checked
    /\ Done
    /\ Leftovers
    /\ schema.run <= run
    /\ SchemaNeverAhead

Place(b, d, f) == [tree |-> b, dir |-> d, file |-> f]

-----------------------------------------------------------------------------
(* What one file written does to the output directory. *)

LEMMA PlaceIsFile ==
    ASSUME NEW w \in Places
    PROVE  /\ w # SchemaRs => w \in [tree : Tree, dir : Dir, file : File]
           /\ \A b \in Tree, d \in Dir, f \in File : Place(b, d, f) # SchemaRs
    BY DEF Places, SchemaRs, Place, Tree, File

\* A generated migration's file is the only one that changes.
LEMMA PutsFile ==
    ASSUME TypeOK, NEW w \in Places, NEW torn \in BOOLEAN, Put(w, torn), w # SchemaRs
    PROVE  /\ schema' = schema
           /\ tree' \in [Tree -> [Dir -> [File -> Written]]]
           /\ \A b \in Tree, d \in Dir, f \in File :
                 tree'[b][d][f] =
                    IF Place(b, d, f) = w
                      THEN [run |-> run, rev |-> migrations[d], torn |-> torn]
                      ELSE tree[b][d][f]
<1> DEFINE new == [run |-> run, rev |-> migrations[w.dir], torn |-> torn]
<1>1. w \in [tree : Tree, dir : Dir, file : File]
    BY PlaceIsFile
<1>2. /\ schema' = schema
      /\ tree' = [tree EXCEPT ![w.tree][w.dir][w.file] = new]
    BY DEF Put
<1>3. new \in Written
    BY <1>1 DEF TypeOK, Written
<1> HIDE DEF new
<1>4. w.tree \in Tree /\ w.dir \in Dir /\ w.file \in File
    BY <1>1
<1>5. tree \in [Tree -> [Dir -> [File -> Written]]]
    BY DEF TypeOK
<1>6. tree' \in [Tree -> [Dir -> [File -> Written]]]
    BY <1>2, <1>3, <1>4, <1>5
<1>7. ASSUME NEW b \in Tree, NEW d \in Dir, NEW f \in File
      PROVE  tree'[b][d][f] = IF b = w.tree /\ d = w.dir /\ f = w.file
                                THEN new ELSE tree[b][d][f]
    BY <1>2, <1>4, <1>5, <1>7
<1>8. ASSUME NEW b \in Tree, NEW d \in Dir, NEW f \in File
      PROVE  Place(b, d, f) = w <=> b = w.tree /\ d = w.dir /\ f = w.file
    BY <1>1 DEF Place
<1>9. ASSUME NEW b \in Tree, NEW d \in Dir, NEW f \in File
      PROVE  tree'[b][d][f] =
                IF Place(b, d, f) = w
                  THEN [run |-> run, rev |-> migrations[d], torn |-> torn]
                  ELSE tree[b][d][f]
    BY <1>7, <1>8 DEF new
<1> QED
    BY <1>2, <1>6, <1>9

\* schema.rs is the last file of a run.
LEMMA PutsSchema ==
    ASSUME GenInv, NEW w \in Places, NEW torn \in BOOLEAN, Put(w, torn), w = SchemaRs
    PROVE  /\ tree' = tree
           /\ schema' = [run |-> run, torn |-> torn, made |-> migrations]
           /\ toWrite = {SchemaRs}
           /\ \A d \in Read, b \in Tree, f \in File : tree[b][d][f] = Whole(d)
<1>1. /\ tree' = tree
      /\ schema' = [run |-> run, torn |-> torn, made |-> migrations]
      /\ phase = "writing"
      /\ SchemaRs \in toWrite
      /\ \A v \in toWrite \ {SchemaRs} : Precedes(SchemaRs, v)
    BY DEF Put
<1>2. ASSUME NEW v, v # SchemaRs PROVE ~Precedes(SchemaRs, v)
    BY <1>2 DEF Precedes
<1>3. toWrite = {SchemaRs}
    BY <1>1, <1>2
<1>4. ASSUME NEW d \in Read, NEW b \in Tree, NEW f \in File
      PROVE  tree[b][d][f] = Whole(d)
    <2>1. \/ Place(b, d, f) \in toWrite
          \/ tree[b][d][f] = Whole(d)
        BY <1>1 DEF GenInv, Done, Place
    <2>2. Place(b, d, f) # SchemaRs
        BY PlaceIsFile DEF Read
    <2> QED
        BY <2>1, <2>2, <1>3
<1> QED
    BY <1>1, <1>3, <1>4

-----------------------------------------------------------------------------
(* The invariant, step by step. *)

LEMMA GenInvInit == Init => GenInv
<1> SUFFICES ASSUME Init PROVE GenInv
    OBVIOUS
<1>1. TypeOK
    BY GenAssumption DEF Init, TypeOK, Dir, Rev, File, Tree, Written, NoFile, Nothing, Phases
<1>2. Edited
    BY DEF Init, Edited, Nothing
<1>3. Progress /\ Checked /\ Done
    BY DEF Init, Progress, Checked, Done
<1>4. Leftovers
    BY DEF Init, Leftovers, Leftover, Nothing
<1>5. schema.run <= run /\ SchemaNeverAhead
    BY DEF Init, SchemaNeverAhead, Nothing
<1> QED
    BY <1>1, <1>2, <1>3, <1>4, <1>5 DEF GenInv

\* What a step that leaves the output directory alone keeps.
LEMMA DiskKept ==
    ASSUME GenInv, UNCHANGED diskVars, run' \in 0 .. MaxRuns, run' >= run
    PROVE  /\ tree' \in [Tree -> [Dir -> [File -> Written]]]
           /\ schema' \in [run : 0 .. MaxRuns, torn : BOOLEAN, made : [Dir -> Rev]]
           /\ schema'.run <= run'
           /\ SchemaNeverAhead'
<1>1. tree' = tree /\ schema' = schema
    BY DEF diskVars
<1>2. schema.run \in Nat /\ run \in Nat /\ schema.run <= run
    BY GenAssumption DEF GenInv, TypeOK
<1>3. SchemaNeverAhead'
    BY <1>1 DEF GenInv, SchemaNeverAhead
<1> QED
    BY <1>1, <1>2, <1>3 DEF GenInv, TypeOK

LEMMA EditKeeps ==
    ASSUME GenInv, NEW d \in Dir, Edit(d)
    PROVE  GenInv'
<1>1. /\ edits < MaxEdits
      /\ edits' = edits + 1
      /\ logical' = [logical EXCEPT ![d] = edits + 1]
      /\ malformed' \in {malformed, malformed \cup {edits + 1}}
      /\ UNCHANGED <<removed, phase, run, toRead, migrations, toWrite, tree, schema>>
    BY DEF Edit, diskVars
<1>2. edits \in Nat /\ edits' \in Rev /\ run' \in 0 .. MaxRuns /\ run' >= run
    BY <1>1, GenAssumption DEF GenInv, TypeOK, Rev
<1>3. /\ tree' \in [Tree -> [Dir -> [File -> Written]]]
      /\ schema' \in [run : 0 .. MaxRuns, torn : BOOLEAN, made : [Dir -> Rev]]
      /\ schema'.run <= run'
      /\ SchemaNeverAhead'
    BY <1>1, <1>2, DiskKept DEF diskVars
<1>4. logical' \in [Dir -> Rev] /\ malformed' \subseteq Rev
    BY <1>1, <1>2 DEF GenInv, TypeOK
<1>5. TypeOK'
    BY <1>1, <1>2, <1>3, <1>4 DEF GenInv, TypeOK
<1>6. Edited'
    BY <1>1, <1>2 DEF GenInv, Edited, TypeOK, Rev
<1>7. Progress' /\ Done'
    BY <1>1 DEF GenInv, Progress, Done, Read, FilesOf, Whole
<1>8. Checked'
    BY <1>1, <1>2 DEF GenInv, Checked, Edited, TypeOK, Rev
<1>9. Leftovers'
    BY <1>1, <1>2 DEF GenInv, Leftovers, Leftover, TypeOK
<1> QED
    BY <1>3, <1>5, <1>6, <1>7, <1>8, <1>9 DEF GenInv

LEMMA RemoveKeeps ==
    ASSUME GenInv, NEW d \in Dir, Remove(d)
    PROVE  GenInv'
<1>1. /\ logical[d] # 0
      /\ logical' = [logical EXCEPT ![d] = 0]
      /\ removed' = removed \cup {d}
      /\ UNCHANGED <<malformed, edits, phase, run, toRead, migrations, toWrite, tree, schema>>
    BY DEF Remove, diskVars
<1>2. edits \in Nat /\ run' \in 0 .. MaxRuns /\ run' >= run /\ 0 \in Rev
    BY <1>1, GenAssumption DEF GenInv, TypeOK, Rev
<1>3. /\ tree' \in [Tree -> [Dir -> [File -> Written]]]
      /\ schema' \in [run : 0 .. MaxRuns, torn : BOOLEAN, made : [Dir -> Rev]]
      /\ schema'.run <= run'
      /\ SchemaNeverAhead'
    BY <1>1, <1>2, DiskKept DEF diskVars
<1>4. logical' \in [Dir -> Rev] /\ removed' \subseteq Dir
    BY <1>1, <1>2 DEF GenInv, TypeOK
<1>5. TypeOK'
    BY <1>1, <1>2, <1>3, <1>4 DEF GenInv, TypeOK
<1>6. Edited'
    BY <1>1, <1>2 DEF GenInv, Edited, TypeOK, Rev
<1>7. Progress' /\ Done' /\ Checked'
    BY <1>1 DEF GenInv, Progress, Done, Checked, Read, FilesOf, Whole
<1>9. Leftovers'
    BY <1>1, <1>2 DEF GenInv, Leftovers, Leftover, TypeOK
<1> QED
    BY <1>3, <1>5, <1>6, <1>7, <1>9 DEF GenInv

\* A step of the generator that writes no file.
LEMMA ReadingKeeps ==
    ASSUME GenInv, UNCHANGED <<logicalVars, diskVars>>,
           \/ Start \/ (\E d \in Dir : ReadMigration(d)) \/ AllRead \/ ReadFails
           \/ Generate \/ GenerateFails \/ WriteFails \/ Succeed
    PROVE  GenInv'
<1>1. UNCHANGED <<logical, malformed, edits, removed, tree, schema>>
    BY DEF logicalVars, diskVars
<1>2. /\ edits \in Nat /\ run \in Nat /\ 0 \in Rev
      /\ run' \in 0 .. MaxRuns /\ run' >= run
    BY GenAssumption DEF GenInv, TypeOK, Rev, Start, ReadMigration, AllRead, ReadFails,
       Generate, GenerateFails, WriteFails, Succeed
<1>3. /\ tree' \in [Tree -> [Dir -> [File -> Written]]]
      /\ schema' \in [run : 0 .. MaxRuns, torn : BOOLEAN, made : [Dir -> Rev]]
      /\ schema'.run <= run'
      /\ SchemaNeverAhead'
    BY <1>1, <1>2, DiskKept DEF diskVars
<1>4. /\ phase' \in Phases /\ toRead' \subseteq Dir
      /\ migrations' \in [Dir -> Rev] /\ toWrite' \subseteq Places
      /\ Edited' /\ Progress' /\ Checked' /\ Done' /\ Leftovers'
    <2> USE DEF GenInv
    <2>1. CASE Start
        <3>1. /\ phase' = "reading"
              /\ toRead' = {d \in Dir : logical[d] # 0}
              /\ migrations' = Nothing
              /\ toWrite' = {}
            BY <2>1 DEF Start
        <3>2. migrations' \in [Dir -> Rev] /\ \A d \in Dir : migrations'[d] = 0
            BY <3>1, <1>2 DEF Nothing
        <3>3. phase' \in Phases /\ toRead' \subseteq Dir /\ toWrite' \subseteq Places
            BY <3>1 DEF Phases
        <3>4. Edited' /\ Progress' /\ Checked' /\ Done'
            BY <1>1, <1>2, <3>1, <3>2 DEF Edited, Progress, Checked, Done
        <3>5. Leftovers'
            BY <1>1, <3>1, <3>2 DEF Leftovers, Leftover
        <3> QED
            BY <3>2, <3>3, <3>4, <3>5
    <2>2. ASSUME NEW d \in Dir, ReadMigration(d)
          PROVE  /\ phase' \in Phases /\ toRead' \subseteq Dir
                 /\ migrations' \in [Dir -> Rev] /\ toWrite' \subseteq Places
                 /\ Edited' /\ Progress' /\ Checked' /\ Done' /\ Leftovers'
        <3>1. /\ phase = "reading" /\ phase' = "reading"
              /\ migrations' = [migrations EXCEPT ![d] = logical[d]]
              /\ toRead' = toRead \ {d}
              /\ toWrite' = toWrite
            BY <2>2 DEF ReadMigration
        <3>2. migrations' \in [Dir -> Rev]
            BY <3>1 DEF TypeOK
        <3>3. phase' \in Phases /\ toRead' \subseteq Dir /\ toWrite' \subseteq Places
            BY <3>1 DEF TypeOK
        <3>4. Edited' /\ Progress' /\ Checked' /\ Done'
            BY <1>1, <3>1, <3>2 DEF Edited, Progress, Checked, Done, TypeOK
        <3>5. Leftovers'
            BY <1>1, <3>1, <3>2 DEF Leftovers, Leftover, TypeOK
        <3> QED
            BY <3>2, <3>3, <3>4, <3>5
    <2>3. CASE AllRead
        BY <1>1, <2>3 DEF AllRead, TypeOK, Phases, Edited, Progress, Checked, Done,
           Leftovers, Leftover
    <2>4. CASE ReadFails \/ GenerateFails \/ WriteFails
        BY <1>1, <2>4 DEF ReadFails, GenerateFails, WriteFails, Stop, TypeOK, Phases,
           Edited, Progress, Checked, Done, Leftovers, Leftover
    <2>5. CASE Generate
        <3>1. /\ phase = "generating" /\ phase' = "writing"
              /\ \A d \in Read : migrations[d] \notin malformed
              /\ toWrite' = FilesOf(Read) \cup {SchemaRs}
              /\ UNCHANGED <<run, toRead, migrations>>
            BY <2>5 DEF Generate
        <3>2. toWrite' \subseteq Places
            BY <3>1 DEF Places, FilesOf, Read
        <3>3. Read' = Read
            BY <3>1 DEF Read
        <3>4. phase' \in Phases /\ Edited' /\ Progress'
            BY <1>1, <3>1, <3>3 DEF Phases, Edited, Progress, FilesOf
        <3>5. Checked'
            BY <1>1, <1>2, <3>1 DEF Checked, Edited, Read
        <3>6. Done'
            BY <3>1, <3>3 DEF Done, FilesOf
        <3>7. Leftovers'
            BY <1>1, <3>1 DEF Leftovers, Leftover
        <3> QED
            BY <3>1, <3>2, <3>4, <3>5, <3>6, <3>7 DEF TypeOK
    <2>6. CASE Succeed
        BY <1>1, <2>6 DEF Succeed, TypeOK, Phases, Edited, Progress, Checked, Done,
           Leftovers, Leftover, Read, FilesOf, Whole
    <2> QED
        BY <2>1, <2>2, <2>3, <2>4, <2>5, <2>6
<1>5. TypeOK'
    BY <1>1, <1>2, <1>3, <1>4 DEF GenInv, TypeOK
<1> QED
    BY <1>3, <1>4, <1>5 DEF GenInv

\* A migration's file, whole or torn: the step that stays in the run keeps the
\* file among those that are whole, the one that tears it ends the run.
LEMMA FileKeeps ==
    ASSUME GenInv, NEW w \in toWrite, w # SchemaRs, Write(w) \/ WriteCut(w)
    PROVE  GenInv'
<1>1. w \in Places
    BY DEF GenInv, TypeOK
<1>2. PICK t \in BOOLEAN : Put(w, t) /\ (~t => Write(w)) /\ (t => WriteCut(w))
    BY DEF Write, WriteCut
<1>3. /\ phase = "writing"
      /\ UNCHANGED <<logical, malformed, edits, removed, run, toRead, migrations>>
      /\ ~t => phase' = phase /\ toWrite' = toWrite \ {w}
      /\ t => phase' = "failed" /\ toWrite' = toWrite
    BY <1>2 DEF Put, Write, WriteCut, Stop, logicalVars
<1>4. /\ schema' = schema
      /\ tree' \in [Tree -> [Dir -> [File -> Written]]]
      /\ \A b \in Tree, d \in Dir, f \in File :
            tree'[b][d][f] = IF Place(b, d, f) = w
                               THEN [run |-> run, rev |-> migrations[d], torn |-> t]
                               ELSE tree[b][d][f]
    BY <1>1, <1>2, PutsFile DEF GenInv
<1>5. w \in FilesOf(Read)
    BY <1>3 DEF GenInv, Progress
<1>6. run \in Nat /\ schema.run \in Nat /\ schema.run <= run
    BY GenAssumption DEF GenInv, TypeOK
<1>7. TypeOK'
    BY <1>3, <1>4 DEF GenInv, TypeOK, Phases
<1>8. Edited' /\ Checked' /\ Progress' /\ schema'.run <= run'
    BY <1>3, <1>4, <1>6 DEF GenInv, Edited, Checked, Progress, FilesOf, Read
<1>9. Done'
    <2>1. CASE t
        BY <1>3, <2>1 DEF Done
    <2>2. CASE ~t
        <3>1. /\ phase' = "writing" /\ toWrite' = toWrite \ {w}
              /\ Read' = Read /\ migrations' = migrations /\ run' = run
            BY <1>3, <2>2 DEF Read
        <3>2. ASSUME NEW d \in Read, NEW b \in Tree, NEW f \in File
              PROVE  \/ Place(b, d, f) \in toWrite'
                     \/ tree'[b][d][f] = Whole(d)'
            <4>1. d \in Dir
                BY DEF Read
            <4>2. CASE Place(b, d, f) = w
                <5>1. tree'[b][d][f] = [run |-> run, rev |-> migrations[d], torn |-> t]
                    BY <1>4, <4>1, <4>2
                <5>2. t = FALSE
                    BY <2>2
                <5> QED
                    BY <5>1, <5>2, <3>1 DEF Whole
            <4>3. CASE Place(b, d, f) # w
                <5>1. \/ Place(b, d, f) \in toWrite
                      \/ tree[b][d][f] = Whole(d)
                    BY <1>3 DEF GenInv, Done, Place
                <5> QED
                    BY <5>1, <1>4, <3>1, <4>1, <4>3 DEF Whole
            <4> QED
                BY <4>2, <4>3
        <3>3. \/ SchemaRs \in toWrite'
              \/ schema' = [run |-> run', torn |-> FALSE, made |-> migrations']
            BY <1>3, <1>4, <3>1 DEF GenInv, Done
        <3> QED
            BY <3>1, <3>2, <3>3 DEF Done, Place
    <2> QED
        BY <2>1, <2>2
<1>10. Leftovers'
    <2>1. ASSUME NEW d \in Dir, Leftover(d), migrations[d] = 0
          PROVE  Leftover(d)'
        <3>1. w.dir \in Read /\ d \notin Read
            BY <1>5, <2>1 DEF FilesOf, Read
        <3>2. \A b \in Tree, f \in File : Place(b, d, f) # w
            BY <3>1 DEF Place
        <3>3. \A b \in Tree, f \in File : tree'[b][d][f] = tree[b][d][f]
            BY <1>4, <3>2
        <3> QED
            BY <1>3, <2>1, <3>3 DEF Leftover
    <2>2. ASSUME NEW d \in Dir
          PROVE  /\ migrations'[d] # 0 => logical'[d] # 0 \/ d \in removed'
                 /\ logical'[d] # 0 \/ Leftover(d)'
                 /\ d \in toRead' \/ migrations'[d] # 0 \/ Leftover(d)'
        <3>1. /\ migrations[d] # 0 => logical[d] # 0 \/ d \in removed
              /\ logical[d] # 0 \/ Leftover(d)
              /\ d \in toRead \/ migrations[d] # 0 \/ Leftover(d)
            BY DEF GenInv, Leftovers
        <3>2. d \in removed => Leftover(d)'
            BY <1>3 DEF Leftover
        <3> QED
            BY <1>3, <2>1, <3>1, <3>2
    <2> QED
        BY <2>2 DEF Leftovers
<1>11. SchemaNeverAhead'
    <2>1. ASSUME ~schema.torn, NEW d \in Dir, NEW b \in Tree, NEW f \in File,
                 schema.made[d] # 0
          PROVE  tree'[b][d][f].run >= schema.run
        <3>1. tree[b][d][f].run >= schema.run
            BY <2>1 DEF GenInv, SchemaNeverAhead
        <3>2. CASE Place(b, d, f) = w
            <4>1. tree'[b][d][f] = [run |-> run, rev |-> migrations[d], torn |-> t]
                BY <1>4, <3>2
            <4> QED
                BY <4>1, <1>6
        <3>3. CASE Place(b, d, f) # w
            BY <1>4, <3>1, <3>3
        <3> QED
            BY <3>2, <3>3
    <2> QED
        BY <1>4, <2>1 DEF SchemaNeverAhead
<1> QED
    BY <1>7, <1>8, <1>9, <1>10, <1>11 DEF GenInv

\* schema.rs: by then every file it speaks of is this run's.
LEMMA SchemaKeeps ==
    ASSUME GenInv, NEW w \in toWrite, w = SchemaRs, Write(w) \/ WriteCut(w)
    PROVE  GenInv'
<1>1. w \in Places
    BY DEF GenInv, TypeOK
<1>2. PICK t \in BOOLEAN : Put(w, t) /\ (~t => Write(w)) /\ (t => WriteCut(w))
    BY DEF Write, WriteCut
<1>3. /\ phase = "writing"
      /\ UNCHANGED <<logical, malformed, edits, removed, run, toRead, migrations>>
      /\ ~t => phase' = phase /\ toWrite' = toWrite \ {w}
      /\ t => phase' = "failed" /\ toWrite' = toWrite
    BY <1>2 DEF Put, Write, WriteCut, Stop, logicalVars
<1>4. /\ tree' = tree
      /\ schema' = [run |-> run, torn |-> t, made |-> migrations]
      /\ toWrite = {SchemaRs}
      /\ \A d \in Read, b \in Tree, f \in File : tree[b][d][f] = Whole(d)
    BY <1>1, <1>2, PutsSchema
<1>5. run \in Nat
    BY GenAssumption DEF GenInv, TypeOK
<1>6. TypeOK'
    BY <1>3, <1>4 DEF GenInv, TypeOK, Phases
<1>7. Edited' /\ Checked' /\ Progress' /\ schema'.run <= run'
    BY <1>3, <1>4, <1>5 DEF GenInv, Edited, Checked, Progress, FilesOf, Read
<1>8. Done'
    <2>1. CASE t
        BY <1>3, <2>1 DEF Done
    <2>2. CASE ~t
        <3>1. t = FALSE /\ Read' = Read
            BY <2>2, <1>3 DEF Read
        <3>2. schema' = [run |-> run', torn |-> FALSE, made |-> migrations']
            BY <1>3, <1>4, <3>1
        <3>3. \A d \in Read', b \in Tree, f \in File : tree'[b][d][f] = Whole(d)'
            BY <1>3, <1>4, <3>1 DEF Whole
        <3> QED
            BY <3>2, <3>3 DEF Done
    <2> QED
        BY <2>1, <2>2
<1>9. Leftovers'
    BY <1>3, <1>4 DEF GenInv, Leftovers, Leftover
<1>10. SchemaNeverAhead'
    <2>1. ASSUME NEW d \in Dir, NEW b \in Tree, NEW f \in File, schema'.made[d] # 0
          PROVE  tree'[b][d][f].run >= schema'.run
        <3>1. d \in Read
            BY <1>4, <2>1 DEF Read
        <3>2. tree'[b][d][f] = Whole(d)
            BY <1>4, <3>1
        <3> QED
            BY <1>4, <1>5, <3>2 DEF Whole
    <2> QED
        BY <2>1 DEF SchemaNeverAhead
<1> QED
    BY <1>6, <1>7, <1>8, <1>9, <1>10 DEF GenInv

LEMMA GenInvNext == GenInv /\ [Next]_vars => GenInv'
<1> SUFFICES ASSUME GenInv, [Next]_vars PROVE GenInv'
    OBVIOUS
<1>1. ASSUME NEW d \in Dir, Edit(d) \/ Remove(d) PROVE GenInv'
    BY <1>1, EditKeeps, RemoveKeeps
<1>2. ASSUME NEW w \in toWrite, Write(w) \/ WriteCut(w) PROVE GenInv'
    BY <1>2, FileKeeps, SchemaKeeps
<1>3. CASE \/ Start \/ (\E d \in Dir : ReadMigration(d)) \/ AllRead \/ ReadFails
           \/ Generate \/ GenerateFails \/ WriteFails \/ Succeed
    <2>1. UNCHANGED <<logicalVars, diskVars>>
        BY <1>3 DEF Start, ReadMigration, AllRead, ReadFails, Generate, GenerateFails,
           WriteFails, Succeed
    <2> QED
        BY <1>3, <2>1, ReadingKeeps
<1>4. CASE UNCHANGED vars
    <2>1. UNCHANGED <<logical, malformed, edits, removed, phase, run, toRead, migrations,
                      toWrite, tree, schema>>
        BY <1>4 DEF vars
    <2> QED
        BY <2>1 DEF GenInv, TypeOK, Edited, Progress, Checked, Done, Leftovers, Leftover,
           SchemaNeverAhead, Read, Whole
<1> QED
    BY <1>1, <1>2, <1>3, <1>4 DEF Next, Generator

-----------------------------------------------------------------------------
(* The results. *)

\* The inductive invariant of the generator's runs: what a run has read, what it
\* has left to write, and what the files are that it has written, at each phase.
THEOREM GenInvHolds == Spec => []GenInv
    BY GenInvInit, GenInvNext, PTL DEF Spec

\* Every variable of the generator stays in its type: revisions are those of
\* edits, and what is left to write are places of the two trees and schema.rs.
THEOREM GenTypesHold == Spec => []TypeOK
<1>1. GenInv => TypeOK
    BY DEF GenInv
<1> QED
    BY <1>1, GenInvHolds, PTL

\* A whole schema.rs never speaks of a migration whose generated files are older
\* than it, whatever read, write or run failed, and however often it was rerun.
THEOREM SchemaIsNeverAhead == Spec => []SchemaNeverAhead
<1>1. GenInv => SchemaNeverAhead
    BY DEF GenInv
<1> QED
    BY <1>1, GenInvHolds, PTL

\* A run that reports success leaves both trees and schema.rs whole and made from
\* one reading of the migrations; anything else there is of a removed migration.
THEOREM SuccessAlwaysWhole == Spec => []SuccessIsWhole
<1>1. GenInv => SuccessIsWhole
    <2> SUFFICES ASSUME GenInv, phase = "ok" PROVE SuccessIsWhole
        BY DEF SuccessIsWhole
    <2>1. toRead = {} /\ toWrite = {}
        BY DEF GenInv, Progress
    <2>2. schema = [run |-> run, torn |-> FALSE, made |-> migrations]
        BY <2>1 DEF GenInv, Done
    <2>3. ASSUME NEW d \in Read, NEW b \in Tree, NEW f \in File
          PROVE  tree[b][d][f] = [run |-> run, rev |-> migrations[d], torn |-> FALSE]
        BY <2>1 DEF GenInv, Done, Whole
    <2>4. ASSUME NEW d \in Dir \ Read, NEW b \in Tree, NEW f \in File,
                 tree[b][d][f] # NoFile
          PROVE  d \in removed
        BY <2>1, <2>4 DEF GenInv, Leftovers, Leftover, Read
    <2> QED
        BY <2>2, <2>3, <2>4 DEF SuccessIsWhole
<1> QED
    BY <1>1, GenInvHolds, PTL

\* No step writes a file while the run has read a malformed migration: generate
\* sees every migration before write_outputs touches the first file.
THEOREM MalformedChangesNothing == Spec => AllOrNothing
<1>1. GenInv /\ [Next]_vars =>
         [diskVars' # diskVars => \A d \in Dir : migrations[d] \notin malformed]_vars
    <2> SUFFICES ASSUME GenInv, Next, diskVars' # diskVars
                 PROVE  \A d \in Dir : migrations[d] \notin malformed
        BY DEF vars
    <2>1. \E w \in toWrite : Put(w, TRUE) \/ Put(w, FALSE)
        BY DEF Next, Generator, Start, ReadMigration, AllRead, ReadFails, Generate,
           GenerateFails, WriteFails, Succeed, Edit, Remove, Write, WriteCut
    <2>2. phase = "writing"
        BY <2>1 DEF Put
    <2> QED
        BY <2>2 DEF GenInv, Checked
<1> QED
    BY <1>1, GenInvHolds, PTL DEF Spec, AllOrNothing

=============================================================================
