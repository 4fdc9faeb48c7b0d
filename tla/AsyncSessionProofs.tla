------------------------- MODULE AsyncSessionProofs -------------------------
(***************************************************************************)
(* Theorems about the two ends of every connection of AsyncPool, for any   *)
(* finite set of tasks, any connections, either arm and any bounds: the    *)
(* depths stay in bounds, status and session agree between two statements, *)
(* and no checkout inherits a transaction other than one whose BEGIN was   *)
(* dropped.  On these stands the last part, about what callers are told.   *)
(*                                                                         *)
(* The invariant says at each place of a task what its connection's two    *)
(* ends are like, in terms of the level the task is at, and what they are  *)
(* like for a connection that no task works with.                          *)
(***************************************************************************)
EXTENDS AsyncPoolProofs

Open(cl) == cl.life = "open"

\* Nothing is on the wire, no answer waits and nobody waits for one.
Calm(cl) == cl.wire = "none" /\ cl.answer = "none" /\ ~cl.heard

\* The statement on the wire fits the depths of both ends, so that carrying it
\* out keeps them in bounds; on SQLite the two never differ.
WireFits(cl, sv) ==
    /\ cl.wire = "BEGIN" => cl.depth = 0 /\ sv.depth <= 1
    /\ cl.wire = "SAVEPOINT" => cl.depth \in 1 .. (MaxDepth - 1) /\ sv.depth = cl.depth
    /\ cl.wire \in {"RELEASE", "ROLLBACK TO"} => cl.depth >= 2 /\ sv.depth = cl.depth
    /\ cl.wire \in {"COMMIT", "ROLLBACK"} => cl.depth = 1
    /\ Arm = "sqlite" => sv.depth = cl.depth

\* What holds of every connection.
EndsOK(cl, sv) ==
    /\ cl.depth \in Depth
    /\ sv.depth \in Depth
    /\ sv.pend \subseteq Task \X (1 .. sv.depth)
    /\ cl.life \in {"open", "closing"} => WireFits(cl, sv)
    /\ cl.life = "lost" => Arm = "pg" /\ sv.depth = 0

\* The session is outside any transaction, or in one whose BEGIN was dropped.
AtTop(sv) == sv.depth = 0 \/ (Arm = "pg" /\ sv.cut /\ sv.depth = 1)

\* A connection that no task works with: if its status shows no transaction
\* the session has none that anybody else began.
Resting(cl, sv) ==
    /\ cl.answer = "none" /\ ~cl.heard
    /\ Open(cl) => /\ cl.depth = 0 => AtTop(sv)
                   /\ Arm = "pg" /\ cl.wire = "BEGIN" => sv.cut

\* The session is at level d, with the writes of task t at the levels S.
AtLevel(t, sv, d, S) ==
    /\ sv.depth = d \/ (d = 0 /\ AtTop(sv))
    /\ sv.cut \/ sv.pend = {t} \X S

\* The depth of the transaction whose end was just answered.
EndedBy(cl) == IF Arm = "pg" THEN cl.depth ELSE cl.depth + 1

\* A connection in the hands of task t at place p, whose writes stand at the
\* levels S as far as t knows.
Beginning(t, cl, sv, S) ==
    /\ cl.wire # "none" =>
          /\ cl.wire = BeginSql(cl.depth)
          /\ cl.depth < MaxDepth
          /\ S \subseteq 1 .. cl.depth
          /\ Open(cl) => AtLevel(t, sv, cl.depth, S)
    /\ cl.answer = "ok" =>
          /\ Deeper(cl) \in 1 .. MaxDepth
          /\ S \subseteq 1 .. (Deeper(cl) - 1)
          /\ sv.depth = Deeper(cl)
          /\ sv.cut \/ sv.pend = {t} \X S
    /\ cl.answer = "err" => cl.life = "lost" /\ S \subseteq 1 .. cl.depth

Executing(t, cl, sv, S) ==
    /\ S \subseteq 1 .. cl.depth
    /\ cl.wire # "none" => cl.wire = "EXECUTE"
    /\ Open(cl) /\ cl.answer # "ok" => AtLevel(t, sv, cl.depth, S)
    /\ cl.answer = "ok" =>
          AtLevel(t, sv, cl.depth, IF cl.depth = 0 THEN {} ELSE S \cup {cl.depth})

\* A failed commit leaves the status as it was, on a lost session, after the
\* server's rollback or because SQLite kept the transaction, unless SQLite's own
\* job has rolled back.
NotCommitted(cl, sv, S) ==
    /\ IF cl.depth = 0 THEN Arm = "sqlite" /\ S \subseteq 1 .. 1 ELSE S \subseteq 1 .. cl.depth
    /\ Open(cl) => cl.depth <= 1 /\ (Arm = "pg" => sv.depth = 0)

Committing(t, cl, sv, S) ==
    /\ cl.wire # "none" =>
          /\ cl.wire = CommitSql(cl.depth)
          /\ cl.depth >= 1
          /\ S \subseteq 1 .. cl.depth
          /\ Open(cl) => AtLevel(t, sv, cl.depth, S)
    /\ cl.answer = "ok" =>
          /\ EndedBy(cl) \in 1 .. MaxDepth
          /\ S \subseteq 1 .. EndedBy(cl)
          /\ AtLevel(t, sv, EndedBy(cl) - 1, IF EndedBy(cl) = 1 THEN {} ELSE Merged(S, EndedBy(cl)))
    /\ cl.answer = "err" => NotCommitted(cl, sv, S)

RollingBack(t, cl, sv, S) ==
    /\ cl.wire # "none" =>
          /\ cl.wire = RollbackSql(cl.depth)
          /\ cl.depth >= 1
          /\ S \subseteq 1 .. cl.depth
          /\ Open(cl) => AtLevel(t, sv, cl.depth, S)
    /\ cl.answer = "ok" =>
          /\ EndedBy(cl) \in 1 .. MaxDepth
          /\ S \subseteq 1 .. EndedBy(cl)
          /\ AtLevel(t, sv, EndedBy(cl) - 1, S \ {EndedBy(cl)})
    /\ cl.answer = "err" => cl.life = "lost"

Undoing(cl, sv, S) ==
    /\ Arm = "pg"
    /\ cl.depth >= 1
    /\ S \subseteq 1 .. cl.depth
    /\ cl.wire # "none" => cl.wire = RollbackSql(cl.depth)
    /\ Open(cl) => cl.depth = 1 /\ sv.depth = 0
    /\ cl.answer = "err" => cl.life = "lost"

\* A statement of t is on the wire or its answer waits for t.
Pending(t, cl) ==
    /\ cl.heard /\ cl.by = t
    /\ cl.wire = "none" <=> cl.answer # "none"
    /\ cl.answer = "ok" => Open(cl)

InUse(t, p, cl, sv, S) ==
    /\ cl.life \in {"open", "lost"}
    /\ p = "holding"  => Calm(cl) /\ cl.depth = 0 /\ S = {} /\ (Open(cl) => AtLevel(t, sv, 0, {}))
    /\ p = "body"     => /\ Calm(cl) /\ cl.depth >= 1 /\ S \subseteq 1 .. cl.depth
                         /\ Open(cl) => AtLevel(t, sv, cl.depth, S)
    /\ p = "leaving"  => Calm(cl) /\ (Open(cl) /\ cl.depth = 0 => AtTop(sv))
    /\ p \in InFlight => Pending(t, cl)
    /\ p = "begin"    => Beginning(t, cl, sv, S)
    /\ p = "execute"  => Executing(t, cl, sv, S)
    /\ p = "commit"   => Committing(t, cl, sv, S)
    /\ p = "rollback" => RollingBack(t, cl, sv, S)
    /\ p = "undo"     => Undoing(cl, sv, S)

\* A connection under test shows no transaction, and keeps to that.
UnderTest(cl) == cl.depth = 0 /\ (Arm = "sqlite" => cl.wire = "none")

\* Some task has the connection in its hands.
AtWork(c) == \E t \in Task : pc[t] \in InHands /\ held[t] = c

\* Places before a connection is handed out.
Before == {"new", "waiting", "granted", "acquired", "pinging", "creating"}

EndsInOrder  == \A c \in Conn : EndsOK(client[c], server[c])
RestInOrder  == \A c \in Conn : AtWork(c) \/ Resting(client[c], server[c])
HandsInOrder == \A t \in Task : pc[t] \in InHands =>
                   InUse(t, pc[t], client[held[t]], server[held[t]], kept[t])
TestsInOrder == \A t \in Task : pc[t] = "pinging" => UnderTest(client[held[t]])
KeptInOrder  == \A t \in Task : kept[t] \subseteq Depth /\ (pc[t] \in Before => kept[t] = {})

\* The inductive invariant of the connections.
SessionInv ==
    EndsInOrder /\ RestInOrder /\ HandsInOrder /\ TestsInOrder /\ KeptInOrder

-----------------------------------------------------------------------------
(* What a step of the server does to the two ends, as a relation between    *)
(* their values before (cl, sv) and after (cl2, sv2).                       *)

Answers(cl, cl2, a, d) ==
    /\ cl2.life = cl.life /\ cl2.wire = "none"
    /\ cl2.heard <=> cl.heard
    /\ cl.heard => cl2.by = cl.by
    /\ cl2.answer = IF cl.heard THEN a ELSE "none"
    /\ cl2.depth = IF Arm = "sqlite" THEN d ELSE cl.depth

BeginDone(cl, sv, cl2, sv2) ==
    /\ cl.wire = "BEGIN" /\ Answers(cl, cl2, "ok", cl.depth + 1)
    /\ sv2.depth = IF sv.depth = 0 THEN 1 ELSE sv.depth
    /\ sv2.pend = sv.pend /\ (sv2.cut <=> sv.cut)

SavepointDone(cl, sv, cl2, sv2) ==
    /\ cl.wire = "SAVEPOINT" /\ Answers(cl, cl2, "ok", cl.depth + 1)
    /\ sv2.depth = sv.depth + 1
    /\ sv2.pend = sv.pend /\ (sv2.cut <=> sv.cut)

ExecuteDone(cl, sv, cl2, sv2) ==
    /\ cl.wire = "EXECUTE" /\ Answers(cl, cl2, "ok", cl.depth)
    /\ sv2.depth = sv.depth /\ (sv2.cut <=> sv.cut)
    /\ sv2.pend = IF sv.depth = 0 THEN sv.pend ELSE sv.pend \cup {<<cl.by, sv.depth>>}

ExecuteFailed(cl, sv, cl2, sv2) ==
    /\ cl.wire = "EXECUTE" /\ Answers(cl, cl2, "err", cl.depth)
    /\ sv2.depth = sv.depth /\ sv2.pend = sv.pend /\ (sv2.cut <=> sv.cut)

CommitKept(cl, sv, cl2, sv2) ==
    /\ Arm = "sqlite"
    /\ cl.wire = "COMMIT" /\ Answers(cl, cl2, "err", cl.depth)
    /\ sv2.depth = sv.depth /\ sv2.pend = sv.pend /\ (sv2.cut <=> sv.cut)

EndDone(cl, cl2, sv2) ==
    /\ cl.wire \in {"COMMIT", "ROLLBACK"}
    /\ \/ Answers(cl, cl2, "ok", cl.depth - 1)
       \/ Answers(cl, cl2, "err", cl.depth - 1) /\ cl.wire = "COMMIT"
    /\ sv2.depth = 0 /\ sv2.pend = {} /\ ~sv2.cut

\* The writes of level d become its parent's, or are gone.
Promoted(pend, d) == {<<p[1], IF p[2] = d THEN p[2] - 1 ELSE p[2]>> : p \in pend}
Undone(pend, d)   == {p \in pend : p[2] < d}

ReleaseDone(cl, sv, cl2, sv2) ==
    /\ cl.wire = "RELEASE" /\ Answers(cl, cl2, "ok", cl.depth - 1)
    /\ sv2.depth = sv.depth - 1 /\ (sv2.cut <=> sv.cut)
    /\ sv2.pend = Promoted(sv.pend, sv.depth)

RollbackToDone(cl, sv, cl2, sv2) ==
    /\ cl.wire = "ROLLBACK TO" /\ Answers(cl, cl2, "ok", cl.depth - 1)
    /\ sv2.depth = sv.depth - 1 /\ (sv2.cut <=> sv.cut)
    /\ sv2.pend = Undone(sv.pend, sv.depth)

\* A statement is carried out on a session that is there.
Carried(cl, sv, cl2, sv2) ==
    /\ cl.life \in {"open", "closing"}
    /\ \/ BeginDone(cl, sv, cl2, sv2)   \/ SavepointDone(cl, sv, cl2, sv2)
       \/ ExecuteDone(cl, sv, cl2, sv2) \/ ExecuteFailed(cl, sv, cl2, sv2)
       \/ CommitKept(cl, sv, cl2, sv2) \/ EndDone(cl, cl2, sv2)
       \/ ReleaseDone(cl, sv, cl2, sv2) \/ RollbackToDone(cl, sv, cl2, sv2)

\* A statement on a lost connection is refused.
Refused(cl, sv, cl2, sv2) ==
    /\ cl.life = "lost" /\ cl.wire # "none"
    /\ Answers(cl, cl2, "err", cl.depth)
    /\ sv2 = sv

\* The session goes away under the client.
Cut(cl, cl2, sv2) ==
    /\ Arm = "pg" /\ cl.life = "open"
    /\ cl2.life = "lost" /\ cl2.wire = "none" /\ cl2.depth = cl.depth
    /\ cl2.heard <=> cl.heard
    /\ cl.heard => cl2.by = cl.by
    /\ cl2.answer = IF cl.heard THEN "err" ELSE "none"
    /\ sv2.depth = 0 /\ sv2.pend = {} /\ ~sv2.cut

\* A discarded connection closes.
Closed(cl, cl2, sv2) ==
    /\ cl.life = "closing"
    /\ cl2.life = "absent" /\ cl2.wire = "none" /\ cl2.depth = 0
    /\ cl2.answer = "none" /\ ~cl2.heard
    /\ sv2.depth = 0 /\ sv2.pend = {} /\ ~sv2.cut

\* A session without a transaction, field by field.
LEMMA NoTransactionFacts ==
    NoTransaction.depth = 0 /\ NoTransaction.pend = {} /\ ~NoTransaction.cut
BY DEF NoTransaction

\* A closed connection's client end, field by field.
LEMMA NoClientFacts ==
    /\ NoClient.life = "absent" /\ NoClient.wire = "none" /\ NoClient.depth = 0
    /\ NoClient.answer = "none" /\ ~NoClient.heard
<1>1. Fresh("absent") = NoClient /\ "absent" \in Life
  BY DEF Fresh, NoClient, Life
<1> QED
  BY <1>1, FreshWithLifeFacts

\* Every step of the server is one of these.
LEMMA ServerStepEnds ==
    ASSUME NEW c \in Conn, ConnShape, ServerStep(c) \/ Lose(c)
    PROVE  \/ Carried(client[c], server[c], client'[c], server'[c])
           \/ Refused(client[c], server[c], client'[c], server'[c])
           \/ Cut(client[c], client'[c], server'[c])
           \/ Closed(client[c], client'[c], server'[c])
<1> DEFINE cl == client[c]
           sv == server[c]
           cl2 == client'[c]
           sv2 == server'[c]
<1>1. /\ Sound(cl) /\ cl \in ClientShape /\ sv \in ServerShape
      /\ cl.depth \in Int /\ cl.depth + 1 \in Int /\ cl.depth - 1 \in Int
  BY DEF ConnShape, ClientShape
<1>2. ASSUME NEW a \in {"ok", "err"}, NEW d \in Int, Reply(c, a, d)
      PROVE  Answers(cl, cl2, a, d)
  <2>1. cl2 = Answered(cl, a, d)
    BY <1>2 DEF Reply, ConnShape
  <2> QED
    BY <1>1, <2>1, AnsweredFacts DEF Answers
<1>3. \A s : server' = [server EXCEPT ![c] = s] => sv2 = s
  BY DEF ConnShape
<1>4. CASE ServerBegin(c)
  <2>1. sv2 = [sv EXCEPT !.depth = IF @ = 0 THEN 1 ELSE @]
    BY <1>3, <1>4 DEF ServerBegin
  <2>2. sv2.depth = (IF sv.depth = 0 THEN 1 ELSE sv.depth) /\ sv2.pend = sv.pend /\ (sv2.cut <=> sv.cut)
    BY <1>1, <2>1 DEF ServerShape
  <2> QED
    BY <1>1, <1>2, <1>4, <2>2 DEF ServerBegin, Working, Carried, BeginDone
<1>5. CASE ServerSavepoint(c)
  <2>1. sv2 = [sv EXCEPT !.depth = @ + 1]
    BY <1>3, <1>5 DEF ServerSavepoint
  <2>2. sv2.depth = sv.depth + 1 /\ sv2.pend = sv.pend /\ (sv2.cut <=> sv.cut)
    BY <1>1, <2>1 DEF ServerShape
  <2> QED
    BY <1>1, <1>2, <1>5, <2>2 DEF ServerSavepoint, Working, Carried, SavepointDone
<1>6. CASE ServerExecute(c)
  <2>1. CASE sv.depth = 0
    BY <1>1, <1>2, <1>6, <2>1 DEF ServerExecute, Working, Carried, ExecuteDone
  <2>2. CASE sv.depth # 0
    <3>1. sv2 = [sv EXCEPT !.pend = @ \cup {<<cl.by, sv.depth>>}]
      BY <1>3, <1>6, <2>2 DEF ServerExecute
    <3>2. /\ sv2.depth = sv.depth /\ (sv2.cut <=> sv.cut)
          /\ sv2.pend = sv.pend \cup {<<cl.by, sv.depth>>}
      BY <1>1, <3>1 DEF ServerShape
    <3> QED
      BY <1>1, <1>2, <1>6, <2>2, <3>2 DEF ServerExecute, Working, Carried, ExecuteDone
  <2> QED
    BY <2>1, <2>2
<1>7. CASE ServerExecuteFails(c)
  <2>1. sv2 = [sv EXCEPT !.aborted = Arm = "pg" /\ sv.depth > 0]
    BY <1>3, <1>7 DEF ServerExecuteFails
  <2>2. sv2.depth = sv.depth /\ sv2.pend = sv.pend /\ (sv2.cut <=> sv.cut)
    BY <1>1, <2>1 DEF ServerShape
  <2> QED
    BY <1>1, <1>2, <1>7, <2>2 DEF ServerExecuteFails, Working, Carried, ExecuteFailed
<1>8. CASE ServerCommit(c)
  <2>1. sv2 = NoTransaction
    BY <1>3, <1>8 DEF ServerCommit
  <2> QED
    BY <1>1, <1>2, <1>8, <2>1, NoTransactionFacts DEF ServerCommit, Working, Carried, EndDone
<1>9. CASE ServerCommitFails(c)
  <2>1. sv2 = NoTransaction
    BY <1>3, <1>9 DEF ServerCommitFails
  <2> QED
    BY <1>1, <1>2, <1>9, <2>1, NoTransactionFacts DEF ServerCommitFails, Working, Carried, EndDone
<1>10. CASE ServerRelease(c)
  <2> DEFINE merged == {<<p[1], IF p[2] = sv.depth THEN p[2] - 1 ELSE p[2]>> : p \in sv.pend}
  <2>1. server' = [server EXCEPT ![c] = [sv EXCEPT !.depth = @ - 1, !.pend = merged]]
    BY <1>10 DEF ServerRelease
  <2>2. sv2 = [sv EXCEPT !.depth = @ - 1, !.pend = merged]
    BY <1>3, <2>1
  <2> HIDE DEF merged
  <2>3. sv2.depth = sv.depth - 1 /\ sv2.pend = merged /\ (sv2.cut <=> sv.cut)
    BY <1>1, <2>2 DEF ServerShape
  <2> QED
    BY <1>1, <1>2, <1>10, <2>3 DEF ServerRelease, Working, Carried, ReleaseDone, Promoted, merged
<1>11. CASE ServerRollback(c)
  <2>1. sv2 = NoTransaction
    BY <1>3, <1>11 DEF ServerRollback
  <2> QED
    BY <1>1, <1>2, <1>11, <2>1, NoTransactionFacts DEF ServerRollback, Working, Carried, EndDone
<1>12. CASE ServerRollbackTo(c)
  <2> DEFINE rest == {p \in sv.pend : p[2] < sv.depth}
  <2>1. server' = [server EXCEPT ![c] = [sv EXCEPT !.depth = @ - 1, !.aborted = FALSE, !.pend = rest]]
    BY <1>12 DEF ServerRollbackTo
  <2>2. sv2 = [sv EXCEPT !.depth = @ - 1, !.aborted = FALSE, !.pend = rest]
    BY <1>3, <2>1
  <2> HIDE DEF rest
  <2>3. sv2.depth = sv.depth - 1 /\ sv2.pend = rest /\ (sv2.cut <=> sv.cut)
    BY <1>1, <2>2 DEF ServerShape
  <2> QED
    BY <1>1, <1>2, <1>12, <2>3 DEF ServerRollbackTo, Working, Carried, RollbackToDone, Undone, rest
<1>13. CASE Refuse(c)
  BY <1>1, <1>2, <1>13 DEF Refuse, Refused
<1>14. CASE Close(c)
  <2>1. cl2 = NoClient /\ sv2 = NoTransaction
    BY <1>3, <1>14 DEF Close, ConnShape
  <2> QED
    BY <1>14, <2>1, NoClientFacts, NoTransactionFacts DEF Close, Closed
<1>15. CASE Lose(c)
  <2>1. cl2 = Severed(cl) /\ sv2 = NoTransaction
    BY <1>3, <1>15 DEF Lose, ConnShape
  <2> QED
    BY <1>1, <1>15, <2>1, SeveredFacts, NoTransactionFacts DEF Lose, Cut
<1>16. CASE ServerCommitRefused(c)
  BY <1>1, <1>2, <1>16 DEF ServerCommitRefused, Working, Carried, CommitKept
<1> QED
  BY <1>4, <1>5, <1>6, <1>7, <1>8, <1>9, <1>10, <1>11, <1>12, <1>13, <1>14, <1>15, <1>16
  DEF ServerStep

-----------------------------------------------------------------------------
(* Writes of one task at some levels.                                      *)

\* A write at level d more.
LEMMA WriteAdded ==
    ASSUME NEW t, NEW S, NEW d
    PROVE  ({t} \X S) \cup {<<t, d>>} = {t} \X (S \cup {d})
OBVIOUS

\* Level d ends well: its writes are its parent's.
LEMMA WritesMerged ==
    ASSUME NEW t, NEW S, NEW d
    PROVE  Promoted({t} \X S, d) = {t} \X Merged(S, d)
<1> DEFINE to(l) == IF l = d THEN d - 1 ELSE l
           L == {<<p[1], IF p[2] = d THEN p[2] - 1 ELSE p[2]>> : p \in {t} \X S}
<1>1. \A p \in {t} \X S : p[1] = t /\ p[2] \in S /\ p = <<p[1], p[2]>>
  OBVIOUS
<1>2. \A p \in {t} \X S : <<p[1], IF p[2] = d THEN p[2] - 1 ELSE p[2]>> = <<t, to(p[2])>>
  BY <1>1
<1>3. \A x \in L : \E l \in S : x = <<t, to(l)>>
  BY <1>1, <1>2
<1>4. \A l \in S : <<t, to(l)>> \in L
  <2> TAKE l \in S
  <2> DEFINE p == <<t, l>>
  <2>1. p \in {t} \X S /\ p[1] = t /\ p[2] = l
    OBVIOUS
  <2> HIDE DEF p
  <2> QED
    BY <1>2, <2>1
<1>5. Merged(S, d) = {to(l) : l \in S}
  BY DEF Merged
<1> HIDE DEF to, L
<1>6. L = {t} \X {to(l) : l \in S}
  BY <1>3, <1>4
<1> QED
  BY <1>5, <1>6 DEF L, Promoted

\* Level d is undone: its writes are gone.
LEMMA WritesUndone ==
    ASSUME NEW t, NEW d \in Nat, NEW S \in SUBSET (1 .. d)
    PROVE  Undone({t} \X S, d) = {t} \X (S \ {d})
<1>1. \A l \in S : l < d <=> l # d
  OBVIOUS
<1> QED
  BY <1>1 DEF Undone

\* The levels of a transaction after its innermost one has ended.
LEMMA LevelsEnded ==
    ASSUME NEW d \in Nat \ {0, 1}, NEW S \in SUBSET (1 .. d)
    PROVE  /\ Merged(S, d) \subseteq 1 .. (d - 1)
           /\ S \ {d} \subseteq 1 .. (d - 1)
BY DEF Merged

-----------------------------------------------------------------------------
(* What the server does to a connection keeps it in order.                 *)

\* The values of the two ends have their types.
Typed(cl, sv) ==
    /\ Sound(cl)
    /\ sv \in ServerShape

\* Depths stay in bounds, and at level 0 nothing is pending.
LEMMA CarriedEnds ==
    ASSUME NEW cl, NEW sv, NEW cl2, NEW sv2, Typed(cl, sv), EndsOK(cl, sv),
           Carried(cl, sv, cl2, sv2)
    PROVE  EndsOK(cl2, sv2)
<1>1. /\ cl.depth \in 0 .. MaxDepth /\ sv.depth \in 0 .. MaxDepth /\ MaxDepth \in Nat \ {0}
      /\ sv.pend \subseteq Task \X (1 .. sv.depth)
      /\ WireFits(cl, sv) /\ (cl.wire # "none" => cl.by \in Task)
  BY DepthAssumption DEF EndsOK, Depth, Carried, Typed, Sound
<1>2. cl2.life = cl.life /\ cl2.wire = "none"
  BY DEF Carried, Answers, BeginDone, SavepointDone, ExecuteDone, ExecuteFailed, CommitKept, EndDone,
         ReleaseDone, RollbackToDone
<1>3. /\ cl2.depth \in 0 .. MaxDepth /\ sv2.depth \in 0 .. MaxDepth
      /\ Arm = "sqlite" => sv2.depth = cl2.depth
  <2>1. CASE BeginDone(cl, sv, cl2, sv2)
    BY <1>1, <2>1 DEF BeginDone, Answers, WireFits
  <2>2. CASE SavepointDone(cl, sv, cl2, sv2)
    BY <1>1, <2>2 DEF SavepointDone, Answers, WireFits
  <2>3. CASE \/ ExecuteDone(cl, sv, cl2, sv2) \/ ExecuteFailed(cl, sv, cl2, sv2)
             \/ CommitKept(cl, sv, cl2, sv2)
    BY <1>1, <2>3 DEF ExecuteDone, ExecuteFailed, CommitKept, Answers, WireFits
  <2>4. CASE EndDone(cl, cl2, sv2)
    <3>1. /\ cl.depth = 1 /\ sv2.depth = 0
          /\ cl2.depth = IF Arm = "sqlite" THEN cl.depth - 1 ELSE cl.depth
      BY <1>1, <2>4 DEF EndDone, Answers, WireFits
    <3> QED
      BY <1>1, <3>1
  <2>5. CASE ReleaseDone(cl, sv, cl2, sv2) \/ RollbackToDone(cl, sv, cl2, sv2)
    <3>1. /\ cl.depth >= 2 /\ sv.depth = cl.depth /\ sv2.depth = sv.depth - 1
          /\ cl2.depth = IF Arm = "sqlite" THEN cl.depth - 1 ELSE cl.depth
      BY <1>1, <2>5 DEF ReleaseDone, RollbackToDone, Answers, WireFits
    <3> QED
      BY <1>1, <3>1
  <2> QED
    BY <2>1, <2>2, <2>3, <2>4, <2>5 DEF Carried
<1>4. sv2.pend \subseteq Task \X (1 .. sv2.depth)
  <2>1. CASE BeginDone(cl, sv, cl2, sv2) \/ SavepointDone(cl, sv, cl2, sv2)
              \/ ExecuteFailed(cl, sv, cl2, sv2) \/ CommitKept(cl, sv, cl2, sv2)
    <3>1. 1 .. sv.depth \subseteq 1 .. sv2.depth /\ sv2.pend = sv.pend
      BY <1>1, <2>1 DEF BeginDone, SavepointDone, ExecuteFailed, CommitKept
    <3> QED
      BY <1>1, <3>1
  <2>2. CASE ExecuteDone(cl, sv, cl2, sv2)
    <3>1. sv.depth # 0 => sv.depth \in 1 .. sv.depth
      BY <1>1
    <3>2. cl.by \in Task
      BY <1>1, <2>2 DEF ExecuteDone
    <3> QED
      BY <1>1, <2>2, <3>1, <3>2 DEF ExecuteDone
  <2>3. CASE EndDone(cl, cl2, sv2)
    BY <2>3 DEF EndDone
  <2>4. CASE ReleaseDone(cl, sv, cl2, sv2)
    <3>1. sv.depth >= 2 /\ sv2.depth = sv.depth - 1
      BY <1>1, <2>4 DEF ReleaseDone, WireFits
    <3>2. \A p \in sv.pend : /\ p[1] \in Task
                             /\ (IF p[2] = sv.depth THEN p[2] - 1 ELSE p[2]) \in 1 .. sv2.depth
      BY <1>1, <3>1
    <3> QED
      BY <2>4, <3>2 DEF ReleaseDone, Promoted
  <2>5. CASE RollbackToDone(cl, sv, cl2, sv2)
    <3>1. sv2.depth = sv.depth - 1
      BY <2>5 DEF RollbackToDone
    <3>2. \A p \in sv.pend : p \in Task \X (1 .. sv.depth)
      BY <1>1
    <3>3. \A p \in Task \X (1 .. sv.depth) : p[2] < sv.depth => p \in Task \X (1 .. sv2.depth)
      BY <1>1, <3>1
    <3>4. sv2.pend = {p \in sv.pend : p[2] < sv.depth}
      BY <2>5 DEF RollbackToDone, Undone
    <3> QED
      BY <3>2, <3>3, <3>4
  <2> QED
    BY <2>1, <2>2, <2>3, <2>4, <2>5 DEF Carried
<1> QED
  BY <1>2, <1>3, <1>4 DEF EndsOK, WireFits, Depth, Carried

\* So do they when a statement is refused, a session cut or a connection closed.
LEMMA OtherEnds ==
    ASSUME NEW cl, NEW sv, NEW cl2, NEW sv2, Typed(cl, sv), EndsOK(cl, sv),
           Refused(cl, sv, cl2, sv2) \/ Cut(cl, cl2, sv2) \/ Closed(cl, cl2, sv2)
    PROVE  EndsOK(cl2, sv2)
<1>1. MaxDepth \in Nat \ {0} /\ 0 \in Depth
  BY DepthAssumption DEF Depth
<1>2. CASE Refused(cl, sv, cl2, sv2)
  <2>1. cl2.depth = cl.depth /\ cl2.life = "lost"
    BY <1>2 DEF Refused, Answers
  <2> QED
    BY <1>2, <2>1 DEF Refused, EndsOK
<1>3. CASE Cut(cl, cl2, sv2)
  BY <1>1, <1>3 DEF Cut, EndsOK
<1>4. CASE Closed(cl, cl2, sv2)
  BY <1>1, <1>4 DEF Closed, EndsOK
<1> QED
  BY <1>2, <1>3, <1>4

\* A connection that nobody works with stays at rest.
LEMMA StaysResting ==
    ASSUME NEW cl, NEW sv, NEW cl2, NEW sv2, Typed(cl, sv), EndsOK(cl, sv), Resting(cl, sv),
           \/ Carried(cl, sv, cl2, sv2) \/ Refused(cl, sv, cl2, sv2)
           \/ Cut(cl, cl2, sv2) \/ Closed(cl, cl2, sv2)
    PROVE  Resting(cl2, sv2)
<1>1. CASE Carried(cl, sv, cl2, sv2)
  <2>1. cl2.life = cl.life /\ cl2.wire = "none" /\ ~cl2.heard /\ cl2.answer = "none"
    BY <1>1 DEF Carried, Answers, BeginDone, SavepointDone, ExecuteDone, ExecuteFailed, CommitKept, EndDone,
                ReleaseDone, RollbackToDone, Resting
  <2>2. /\ cl.depth \in Nat /\ sv.depth \in Nat /\ WireFits(cl, sv)
        /\ Arm \in {"pg", "sqlite"}
    BY <1>1, DepthAssumption, ArmAssumption DEF Carried, EndsOK, Depth
  <2>3. ASSUME Open(cl), cl2.depth = 0
        PROVE  AtTop(sv2)
    <3>1. CASE BeginDone(cl, sv, cl2, sv2)
      BY <2>2, <2>3, <3>1 DEF BeginDone, Answers, Resting, AtTop, WireFits
    <3>2. CASE SavepointDone(cl, sv, cl2, sv2)
      BY <2>2, <2>3, <3>2 DEF SavepointDone, Answers, WireFits
    <3>3. CASE \/ ExecuteDone(cl, sv, cl2, sv2) \/ ExecuteFailed(cl, sv, cl2, sv2)
               \/ CommitKept(cl, sv, cl2, sv2)
      BY <2>2, <2>3, <3>3 DEF ExecuteDone, ExecuteFailed, CommitKept, Answers, Resting, AtTop
    <3>4. CASE EndDone(cl, cl2, sv2)
      BY <3>4 DEF EndDone, AtTop
    <3>5. CASE ReleaseDone(cl, sv, cl2, sv2) \/ RollbackToDone(cl, sv, cl2, sv2)
      <4>1. cl.depth >= 2 /\ (cl2.depth = IF Arm = "sqlite" THEN cl.depth - 1 ELSE cl.depth)
        BY <2>2, <3>5 DEF ReleaseDone, RollbackToDone, Answers, WireFits
      <4> QED
        BY <2>2, <2>3, <4>1
    <3> QED
      BY <1>1, <3>1, <3>2, <3>3, <3>4, <3>5 DEF Carried
  <2> QED
    BY <2>1, <2>3 DEF Resting, Open
<1>2. CASE Refused(cl, sv, cl2, sv2)
  BY <1>2 DEF Refused, Answers, Resting, Open
<1>3. CASE Cut(cl, cl2, sv2)
  BY <1>3 DEF Cut, Resting, Open
<1>4. CASE Closed(cl, cl2, sv2)
  BY <1>4 DEF Closed, Resting, Open
<1> QED
  BY <1>1, <1>2, <1>3, <1>4

\* A live connection under test shows no transaction afterwards either.
LEMMA StaysUnderTest ==
    ASSUME NEW cl, NEW sv, NEW cl2, NEW sv2, cl.life \in {"open", "lost"}, UnderTest(cl),
           \/ Carried(cl, sv, cl2, sv2) \/ Refused(cl, sv, cl2, sv2)
           \/ Cut(cl, cl2, sv2) \/ Closed(cl, cl2, sv2)
    PROVE  UnderTest(cl2)
<1>1. Arm \in {"pg", "sqlite"}
  BY ArmAssumption
<1>2. CASE Carried(cl, sv, cl2, sv2)
  BY <1>1, <1>2 DEF Carried, Answers, BeginDone, SavepointDone, ExecuteDone, ExecuteFailed,
                    CommitKept, EndDone, ReleaseDone, RollbackToDone, UnderTest
<1>3. CASE Refused(cl, sv, cl2, sv2)
  BY <1>3 DEF Refused, Answers, UnderTest
<1>4. CASE Cut(cl, cl2, sv2)
  BY <1>4 DEF Cut, UnderTest
<1>5. CASE Closed(cl, cl2, sv2)
  BY <1>5 DEF Closed
<1> QED
  BY <1>2, <1>3, <1>4, <1>5

-----------------------------------------------------------------------------
(* A connection in a task's hands follows the task's account.              *)

\* The place tells which statement is on the wire.
LEMMA WireTellsPlace ==
    ASSUME NEW t, NEW p \in InHands, NEW cl, NEW sv, NEW S, InUse(t, p, cl, sv, S),
           cl.wire # "none"
    PROVE  /\ cl.wire \in {"BEGIN", "SAVEPOINT"} => p = "begin"
           /\ cl.wire = "EXECUTE" => p = "execute"
           /\ cl.wire \in {"COMMIT", "RELEASE"} => p = "commit"
           /\ cl.wire \in {"ROLLBACK", "ROLLBACK TO"} => p \in {"rollback", "undo"}
           /\ p \in InFlight /\ cl.answer = "none" /\ cl.heard /\ cl.by = t
<1>1. p \in InFlight
  BY DEF InUse, Calm, InHands, InFlight
<1>2. cl.answer = "none" /\ cl.heard /\ cl.by = t
  BY <1>1 DEF InUse, Pending
<1>3. p = "begin" => cl.wire \in {"BEGIN", "SAVEPOINT"}
  BY DEF InUse, Beginning, BeginSql
<1>4. p = "execute" => cl.wire = "EXECUTE"
  BY DEF InUse, Executing
<1>5. p = "commit" => cl.wire \in {"COMMIT", "RELEASE"}
  BY DEF InUse, Committing, CommitSql
<1>6. p \in {"rollback", "undo"} => cl.wire \in {"ROLLBACK", "ROLLBACK TO"}
  BY DEF InUse, RollingBack, Undoing, RollbackSql
<1> QED
  BY <1>1, <1>2, <1>3, <1>4, <1>5, <1>6 DEF InFlight

\* Whatever the server does with a task's statement, the two ends are as the
\* task will find them when it takes the answer.
LEMMA StaysInUse ==
    ASSUME NEW t, NEW p \in InHands, NEW S, NEW cl, NEW sv, NEW cl2, NEW sv2,
           Typed(cl, sv), EndsOK(cl, sv), InUse(t, p, cl, sv, S),
           \/ Carried(cl, sv, cl2, sv2) \/ Refused(cl, sv, cl2, sv2)
           \/ Cut(cl, cl2, sv2) \/ Closed(cl, cl2, sv2)
    PROVE  InUse(t, p, cl2, sv2, S)
<1>1. /\ cl.depth \in Nat /\ sv.depth \in Nat /\ cl.depth <= MaxDepth /\ sv.depth <= MaxDepth
      /\ MaxDepth \in Nat \ {0} /\ Arm \in {"pg", "sqlite"}
      /\ cl.life \in {"open", "lost"}
      /\ Open(cl) => WireFits(cl, sv)
      /\ cl.life = "lost" => Arm = "pg"
      /\ cl.depth + 1 \in Nat
      /\ Open(cl) <=> cl.life # "lost"
  BY DepthAssumption, ArmAssumption DEF EndsOK, Depth, InUse, Open
<1>2. CASE Carried(cl, sv, cl2, sv2)
  <2>1. /\ cl.wire # "none" /\ cl2.life = cl.life /\ cl2.wire = "none" /\ Open(cl) /\ Open(cl2)
        /\ (cl2.heard <=> cl.heard) /\ (cl.heard => cl2.by = cl.by)
    BY <1>1, <1>2 DEF Carried, Answers, BeginDone, SavepointDone, ExecuteDone, ExecuteFailed, CommitKept, EndDone,
                ReleaseDone, RollbackToDone, Open
  <2>2. /\ cl.wire \in {"BEGIN", "SAVEPOINT"} => p = "begin"
        /\ cl.wire = "EXECUTE" => p = "execute"
        /\ cl.wire \in {"COMMIT", "RELEASE"} => p = "commit"
        /\ cl.wire \in {"ROLLBACK", "ROLLBACK TO"} => p \in {"rollback", "undo"}
        /\ p \in InFlight /\ cl.heard /\ cl.by = t
    <3>1. cl.wire # "none" /\ p \in InHands /\ InUse(t, p, cl, sv, S)
      BY <2>1
    <3>2. p \in InFlight
      BY <3>1 DEF InUse, Calm, InHands, InFlight
    <3>3. cl.heard /\ cl.by = t
      BY <3>2 DEF InUse, Pending
    <3>4. /\ cl.wire \in {"BEGIN", "SAVEPOINT"} => p = "begin"
          /\ cl.wire = "EXECUTE" => p = "execute"
          /\ cl.wire \in {"COMMIT", "RELEASE"} => p = "commit"
          /\ cl.wire \in {"ROLLBACK", "ROLLBACK TO"} => p \in {"rollback", "undo"}
      BY <3>1, WireTellsPlace
    <3> QED
      BY <3>2, <3>3, <3>4
  <2>3. ASSUME NEW a \in {"ok", "err"}, NEW d, Answers(cl, cl2, a, d),
               \/ p = "begin" /\ Beginning(t, cl2, sv2, S)
               \/ p = "execute" /\ Executing(t, cl2, sv2, S)
               \/ p = "commit" /\ Committing(t, cl2, sv2, S)
               \/ p = "rollback" /\ RollingBack(t, cl2, sv2, S)
               \/ p = "undo" /\ Undoing(cl2, sv2, S)
        PROVE  InUse(t, p, cl2, sv2, S)
    <3>1. cl2.answer = a
      BY <2>2, <2>3 DEF Answers
    <3>2. Pending(t, cl2)
      BY <2>1, <2>2, <2>3, <3>1 DEF Pending
    <3> QED
      BY <1>1, <2>1, <2>3, <3>2 DEF InUse
  <2>4. CASE BeginDone(cl, sv, cl2, sv2)
    <3>1. /\ p = "begin" /\ Beginning(t, cl, sv, S) /\ cl.depth = 0 /\ cl2.answer = "ok"
          /\ Answers(cl, cl2, "ok", cl.depth + 1)
      BY <1>1, <2>1, <2>2, <2>4 DEF BeginDone, Answers, WireFits, InUse
    <3>2. /\ S \subseteq 1 .. cl.depth /\ AtLevel(t, sv, cl.depth, S)
      BY <2>1, <3>1 DEF Beginning
    <3>3. Deeper(cl2) = 1
      BY <1>1, <2>4, <3>1 DEF BeginDone, Answers, Deeper
    <3>4. sv2.depth = 1
      BY <1>1, <2>4, <3>1, <3>2 DEF BeginDone, AtLevel, AtTop
    <3>5. sv2.cut \/ sv2.pend = {t} \X S
      BY <2>4, <3>2 DEF BeginDone, AtLevel
    <3>6. Beginning(t, cl2, sv2, S)
      BY <1>1, <2>1, <3>1, <3>2, <3>3, <3>4, <3>5 DEF Beginning
    <3> QED
      BY <2>3, <3>1, <3>6
  <2>5. CASE SavepointDone(cl, sv, cl2, sv2)
    <3>1. /\ p = "begin" /\ Beginning(t, cl, sv, S) /\ cl2.answer = "ok"
          /\ cl.depth \in 1 .. (MaxDepth - 1) /\ sv.depth = cl.depth
          /\ Answers(cl, cl2, "ok", cl.depth + 1)
      BY <1>1, <2>1, <2>2, <2>5 DEF SavepointDone, Answers, WireFits, InUse
    <3>2. /\ S \subseteq 1 .. cl.depth /\ AtLevel(t, sv, cl.depth, S)
      BY <2>1, <3>1 DEF Beginning
    <3>3. Deeper(cl2) = cl.depth + 1
      BY <1>1, <2>5, <3>1 DEF SavepointDone, Answers, Deeper
    <3>4. sv2.depth = cl.depth + 1 /\ (sv2.cut \/ sv2.pend = {t} \X S)
      BY <2>5, <3>1, <3>2 DEF SavepointDone, AtLevel
    <3>5. Beginning(t, cl2, sv2, S)
      BY <1>1, <2>1, <3>1, <3>2, <3>3, <3>4 DEF Beginning
    <3> QED
      BY <2>3, <3>1, <3>5
  <2>6. CASE ExecuteDone(cl, sv, cl2, sv2)
    <3>1. /\ p = "execute" /\ Executing(t, cl, sv, S) /\ cl2.answer = "ok" /\ cl.answer = "none"
          /\ cl2.depth = cl.depth /\ Answers(cl, cl2, "ok", cl.depth)
      BY <2>1, <2>2, <2>6, WireTellsPlace DEF ExecuteDone, Answers, InUse
    <3>2. S \subseteq 1 .. cl.depth /\ AtLevel(t, sv, cl.depth, S)
      BY <2>1, <3>1 DEF Executing
    <3>3. CASE cl.depth = 0
      <4>1. sv2.depth = sv.depth /\ (sv2.cut <=> sv.cut)
        BY <2>6 DEF ExecuteDone
      <4>2. sv2.cut \/ sv2.pend = {t} \X {}
        <5>1. S = {}
          BY <3>2, <3>3
        <5>2. ~sv.cut => sv.depth = 0
          BY <3>2, <3>3 DEF AtLevel, AtTop
        <5> QED
          BY <2>6, <3>2, <4>1, <5>1, <5>2 DEF ExecuteDone, AtLevel
      <4>3. AtLevel(t, sv2, cl2.depth, {})
        BY <3>1, <3>2, <3>3, <4>1, <4>2 DEF AtLevel, AtTop
      <4> QED
        BY <2>1, <2>3, <3>1, <3>2, <3>3, <4>3 DEF Executing
    <3>4. CASE cl.depth # 0
      <4>1. sv.depth = cl.depth /\ sv2.depth = sv.depth /\ (sv2.cut <=> sv.cut)
        BY <2>6, <3>2, <3>4 DEF ExecuteDone, AtLevel
      <4>2. sv2.pend = sv.pend \cup {<<t, cl.depth>>}
        BY <2>2, <2>6, <3>4, <4>1 DEF ExecuteDone
      <4>3. sv2.cut \/ sv2.pend = {t} \X (S \cup {cl.depth})
        BY <3>2, <4>1, <4>2, WriteAdded DEF AtLevel
      <4>4. AtLevel(t, sv2, cl2.depth, S \cup {cl2.depth})
        BY <3>1, <4>1, <4>3 DEF AtLevel
      <4> QED
        BY <2>1, <2>3, <3>1, <3>2, <3>4, <4>4 DEF Executing
    <3> QED
      BY <3>3, <3>4
  <2>7. CASE ExecuteFailed(cl, sv, cl2, sv2)
    <3>1. /\ p = "execute" /\ Executing(t, cl, sv, S) /\ cl2.answer = "err" /\ cl.answer = "none"
          /\ cl2.depth = cl.depth /\ Answers(cl, cl2, "err", cl.depth)
      BY <2>1, <2>2, <2>7, WireTellsPlace DEF ExecuteFailed, Answers, InUse
    <3>2. S \subseteq 1 .. cl.depth /\ AtLevel(t, sv, cl.depth, S)
      BY <2>1, <3>1 DEF Executing
    <3>3. AtLevel(t, sv2, cl2.depth, S)
      BY <2>7, <3>1, <3>2 DEF ExecuteFailed, AtLevel, AtTop
    <3> QED
      BY <2>1, <2>3, <3>1, <3>2, <3>3 DEF Executing
  <2>8. CASE EndDone(cl, cl2, sv2)
    <3>1. PICK a \in {"ok", "err"} : /\ Answers(cl, cl2, a, cl.depth - 1)
                                     /\ a = "err" => cl.wire = "COMMIT"
      BY <2>8 DEF EndDone
    <3>2. cl.depth = 1 /\ cl2.answer = a
      BY <1>1, <2>1, <2>2, <2>8, <3>1 DEF EndDone, WireFits, Answers
    <3>3. EndedBy(cl2) = 1 /\ cl2.depth = (IF Arm = "sqlite" THEN 0 ELSE 1)
      BY <1>1, <3>1, <3>2 DEF Answers, EndedBy
    <3>4. AtLevel(t, sv2, 0, {}) /\ sv2.depth = 0
      BY <2>8 DEF EndDone, AtLevel
    <3>5. CASE p = "commit"
      <4>1. S \subseteq 1 .. 1
        BY <2>1, <3>2, <3>5 DEF InUse, Committing
      <4>2. Committing(t, cl2, sv2, S)
        BY <1>1, <2>1, <3>2, <3>3, <3>4, <4>1 DEF Committing, NotCommitted
      <4> QED
        BY <2>3, <3>1, <3>5, <4>2
    <3>6. CASE p = "rollback"
      <4>1. S \subseteq 1 .. 1 /\ S \ {1} = {}
        BY <2>1, <3>2, <3>6 DEF InUse, RollingBack
      <4>2. a = "ok"
        BY <2>2, <3>1, <3>6
      <4>3. AtLevel(t, sv2, EndedBy(cl2) - 1, S \ {EndedBy(cl2)})
        <5>1. EndedBy(cl2) - 1 = 0 /\ S \ {EndedBy(cl2)} = {}
          BY <3>3, <4>1
        <5> QED
          BY <3>4, <5>1
      <4>4. RollingBack(t, cl2, sv2, S)
        BY <1>1, <2>1, <3>2, <3>3, <4>1, <4>2, <4>3 DEF RollingBack
      <4> QED
        BY <2>3, <3>1, <3>6, <4>4
    <3>7. CASE p = "undo"
      <4>1. Undoing(cl, sv, S)
        BY <3>7 DEF InUse
      <4>2. a = "ok"
        BY <2>2, <3>1, <3>7
      <4>3. Undoing(cl2, sv2, S)
        BY <1>1, <2>1, <3>2, <3>3, <3>4, <4>1, <4>2 DEF Undoing
      <4> QED
        BY <2>3, <3>1, <3>7, <4>3
    <3> QED
      BY <2>2, <2>8, <3>5, <3>6, <3>7 DEF EndDone
  <2>9. CASE ReleaseDone(cl, sv, cl2, sv2)
    <3>1. /\ p = "commit" /\ Committing(t, cl, sv, S) /\ cl2.answer = "ok"
          /\ cl.depth >= 2 /\ sv.depth = cl.depth
          /\ Answers(cl, cl2, "ok", cl.depth - 1)
      BY <1>1, <2>1, <2>2, <2>9 DEF ReleaseDone, Answers, WireFits, InUse
    <3>2. S \subseteq 1 .. cl.depth /\ AtLevel(t, sv, cl.depth, S)
      BY <2>1, <3>1 DEF Committing
    <3>3. EndedBy(cl2) = cl.depth
      BY <1>1, <3>1 DEF Answers, EndedBy
    <3>4. sv2.depth = cl.depth - 1 /\ (sv2.cut <=> sv.cut)
      BY <2>9, <3>1 DEF ReleaseDone
    <3>5. sv2.cut \/ sv2.pend = {t} \X Merged(S, cl.depth)
      <4>1. CASE sv.cut
        BY <3>4, <4>1
      <4>2. CASE sv.pend = {t} \X S
        <5>1. sv2.pend = Promoted({t} \X S, cl.depth)
          BY <2>9, <3>1, <4>2 DEF ReleaseDone
        <5>2. Promoted({t} \X S, cl.depth) = {t} \X Merged(S, cl.depth)
          BY WritesMerged
        <5> QED
          BY <5>1, <5>2
      <4> QED
        BY <3>2, <4>1, <4>2 DEF AtLevel
    <3>6. AtLevel(t, sv2, EndedBy(cl2) - 1, Merged(S, EndedBy(cl2)))
      BY <3>3, <3>4, <3>5 DEF AtLevel
    <3>7. Committing(t, cl2, sv2, S)
      BY <1>1, <2>1, <3>1, <3>2, <3>3, <3>6 DEF Committing
    <3> QED
      BY <2>3, <3>1, <3>7
  <2>10. CASE RollbackToDone(cl, sv, cl2, sv2)
    <3>1. /\ cl.depth >= 2 /\ sv.depth = cl.depth /\ cl2.answer = "ok"
          /\ Answers(cl, cl2, "ok", cl.depth - 1) /\ p \in {"rollback", "undo"}
      BY <1>1, <2>1, <2>2, <2>10 DEF RollbackToDone, Answers, WireFits
    <3>2. p = "rollback" /\ RollingBack(t, cl, sv, S)
      BY <1>1, <2>1, <3>1 DEF InUse, Undoing
    <3>3. S \subseteq 1 .. cl.depth /\ AtLevel(t, sv, cl.depth, S)
      BY <2>1, <3>2 DEF RollingBack
    <3>4. EndedBy(cl2) = cl.depth
      BY <1>1, <3>1 DEF Answers, EndedBy
    <3>5. sv2.depth = cl.depth - 1 /\ (sv2.cut <=> sv.cut)
      BY <2>10, <3>1 DEF RollbackToDone
    <3>6. sv2.cut \/ sv2.pend = {t} \X (S \ {cl.depth})
      <4>1. CASE sv.cut
        BY <3>5, <4>1
      <4>2. CASE sv.pend = {t} \X S
        <5>1. sv2.pend = Undone({t} \X S, cl.depth)
          BY <2>10, <3>1, <4>2 DEF RollbackToDone
        <5>2. cl.depth \in Nat /\ S \in SUBSET (1 .. cl.depth)
          BY <1>1, <3>3
        <5>3. Undone({t} \X S, cl.depth) = {t} \X (S \ {cl.depth})
          BY <5>2, WritesUndone
        <5> QED
          BY <5>1, <5>3
      <4> QED
        BY <3>3, <4>1, <4>2 DEF AtLevel
    <3>7. AtLevel(t, sv2, EndedBy(cl2) - 1, S \ {EndedBy(cl2)})
      BY <3>4, <3>5, <3>6 DEF AtLevel
    <3>8. RollingBack(t, cl2, sv2, S)
      BY <1>1, <2>1, <3>1, <3>3, <3>4, <3>7 DEF RollingBack
    <3> QED
      BY <2>3, <3>1, <3>2, <3>8
  <2>11. CASE CommitKept(cl, sv, cl2, sv2)
    <3>1. /\ p = "commit" /\ Committing(t, cl, sv, S) /\ cl2.answer = "err"
          /\ cl.depth = 1 /\ cl2.depth = 1 /\ Answers(cl, cl2, "err", cl.depth)
      BY <1>1, <2>1, <2>2, <2>11 DEF CommitKept, Answers, WireFits, InUse
    <3>2. S \subseteq 1 .. 1
      BY <2>1, <3>1 DEF Committing
    <3>3. Committing(t, cl2, sv2, S)
      BY <2>1, <2>11, <3>1, <3>2 DEF CommitKept, Committing, NotCommitted
    <3> QED
      BY <2>3, <3>1, <3>3
  <2> QED
    BY <1>2, <2>4, <2>5, <2>6, <2>7, <2>8, <2>9, <2>10, <2>11 DEF Carried
<1>3. ASSUME cl2.wire = "none", cl2.depth = cl.depth, cl2.life = "lost", ~Open(cl2), Arm = "pg",
             cl2.heard <=> cl.heard, cl.heard => cl2.by = cl.by,
             cl2.answer = IF cl.heard THEN "err" ELSE "none",
             cl.wire # "none" \/ Cut(cl, cl2, sv2)
      PROVE  InUse(t, p, cl2, sv2, S)
  <2>1. CASE p \in InFlight
    <3>1. cl.heard /\ cl.by = t /\ cl2.answer = "err"
      BY <1>3, <2>1 DEF InUse, Pending
    <3>2. Pending(t, cl2)
      BY <1>3, <3>1 DEF Pending
    <3>3. p = "begin" => Beginning(t, cl2, sv2, S)
      <4>1. p = "begin" => Beginning(t, cl, sv, S) /\ Pending(t, cl)
        BY <2>1 DEF InUse
      <4>2. Deeper(cl) - 1 = cl.depth
        BY <1>1, <1>3 DEF Deeper
      <4>3. cl.answer \in {"none", "ok", "err"}
        BY DEF Typed, Sound, ClientShape
      <4>4. p = "begin" => S \subseteq 1 .. cl.depth
        BY <4>1, <4>2, <4>3 DEF Beginning, Pending
      <4> QED
        BY <1>3, <3>1, <4>4 DEF Beginning
    <3>4. p = "execute" => Executing(t, cl2, sv2, S)
      BY <1>3, <3>1 DEF InUse, Executing
    <3>5. p = "commit" => Committing(t, cl2, sv2, S)
      <4>1. p = "commit" => Committing(t, cl, sv, S) /\ Pending(t, cl)
        BY <2>1 DEF InUse
      <4>2. EndedBy(cl) = cl.depth
        BY <1>3 DEF EndedBy
      <4>3. cl.answer \in {"none", "ok", "err"}
        BY DEF Typed, Sound, ClientShape
      <4>4. p = "commit" => cl.depth >= 1 /\ S \subseteq 1 .. cl.depth
        BY <1>1, <1>3, <4>1, <4>2, <4>3 DEF Committing, NotCommitted, Pending
      <4> QED
        BY <1>1, <1>3, <3>1, <4>4 DEF Committing, NotCommitted
    <3>6. p = "rollback" => RollingBack(t, cl2, sv2, S)
      BY <1>3, <3>1 DEF RollingBack
    <3>7. p = "undo" => Undoing(cl2, sv2, S)
      BY <1>3, <3>1 DEF InUse, Undoing
    <3> QED
      BY <1>3, <2>1, <3>2, <3>3, <3>4, <3>5, <3>6, <3>7 DEF InUse, InFlight
  <2>2. CASE p \in {"holding", "body", "leaving"}
    <3>1. Calm(cl)
      BY <2>2 DEF InUse
    <3>2. cl2.answer = "none"
      BY <1>3, <3>1 DEF Calm
    <3> QED
      BY <1>3, <2>2, <3>1, <3>2 DEF InUse, Calm, InFlight
  <2> QED
    BY <2>1, <2>2 DEF InHands
<1>4. CASE Refused(cl, sv, cl2, sv2)
  BY <1>1, <1>3, <1>4 DEF Refused, Answers, Open
<1>5. CASE Cut(cl, cl2, sv2)
  BY <1>3, <1>5 DEF Cut, Open
<1>6. CASE Closed(cl, cl2, sv2)
  BY <1>1, <1>6 DEF Closed
<1> QED
  BY <1>2, <1>4, <1>5, <1>6

-----------------------------------------------------------------------------
(* What a task's own step does to its connection.                          *)

\* A statement goes out.
Sends(cl, cl2, t, sql) ==
    /\ cl2.life = cl.life /\ cl2.depth = cl.depth
    /\ cl2.wire = sql /\ cl2.by = t /\ cl2.heard /\ cl2.answer = "none"

\* An answer is taken, and the status is left at depth d.
Takes(cl, cl2, d) ==
    /\ cl2.life = cl.life /\ cl2.depth = d
    /\ Calm(cl2)

\* Facts about every connection in a task's hands.
LEMMA HandFacts ==
    ASSUME NEW t, NEW p \in InHands, NEW S, NEW cl, NEW sv, EndsOK(cl, sv), InUse(t, p, cl, sv, S)
    PROVE  /\ cl.depth \in Nat /\ sv.depth \in Nat /\ cl.depth <= MaxDepth /\ sv.depth <= MaxDepth
           /\ MaxDepth \in Nat \ {0} /\ Arm \in {"pg", "sqlite"}
           /\ Open(cl) <=> cl.life # "lost"
           /\ cl.life \in {"open", "lost"}
           /\ cl.life = "lost" => Arm = "pg"
           /\ Arm = "sqlite" => Open(cl) /\ sv.depth = cl.depth
<1>1. /\ cl.depth \in 0 .. MaxDepth /\ sv.depth \in 0 .. MaxDepth /\ MaxDepth \in Nat \ {0}
      /\ Arm \in {"pg", "sqlite"}
  BY DepthAssumption, ArmAssumption DEF EndsOK, Depth
<1>2. /\ cl.life \in {"open", "lost"}
      /\ cl.life = "lost" => Arm = "pg"
      /\ cl.life = "open" /\ Arm = "sqlite" => sv.depth = cl.depth
  BY DEF EndsOK, InUse, WireFits
<1> QED
  BY <1>1, <1>2 DEF Open

\* What a level says of the session's depth.
LEMMA LevelDepth ==
    ASSUME NEW t, NEW sv, NEW d \in Nat, NEW S, AtLevel(t, sv, d, S)
    PROVE  /\ d # 0 => sv.depth = d
           /\ d = 0 => sv.depth \in {0, 1} /\ AtTop(sv)
BY DEF AtLevel, AtTop

\* BEGIN or SAVEPOINT goes out, as the status says.
LEMMA SendsBegin ==
    ASSUME NEW t, NEW p \in {"holding", "body"}, NEW S, NEW cl, NEW sv, NEW cl2,
           EndsOK(cl, sv), InUse(t, p, cl, sv, S),
           p = "body" => cl.depth < MaxDepth,
           Sends(cl, cl2, t, BeginSql(cl.depth))
    PROVE  EndsOK(cl2, sv) /\ InUse(t, "begin", cl2, sv, S)
<1>1. p \in InHands
  BY DEF InHands
<1>2. /\ cl.depth < MaxDepth /\ S \subseteq 1 .. cl.depth
      /\ Open(cl) => AtLevel(t, sv, cl.depth, S)
  BY <1>1, HandFacts DEF InUse
<1>3. Open(cl2) <=> Open(cl)
  BY DEF Sends, Open
<1>4. Open(cl) => WireFits(cl2, sv)
  BY <1>1, <1>2, HandFacts, LevelDepth DEF Sends, WireFits, BeginSql
<1>5. EndsOK(cl2, sv)
  BY <1>1, <1>4, HandFacts DEF EndsOK, Sends, Open
<1>6. Beginning(t, cl2, sv, S)
  BY <1>2, <1>3 DEF Sends, Beginning
<1>7. Pending(t, cl2)
  BY DEF Sends, Pending, BeginSql
<1> QED
  BY <1>1, <1>5, <1>6, <1>7, HandFacts DEF InUse, Sends

\* A statement of the closure goes out.
LEMMA SendsExecute ==
    ASSUME NEW t, NEW p \in {"holding", "body"}, NEW S, NEW cl, NEW sv, NEW cl2,
           EndsOK(cl, sv), InUse(t, p, cl, sv, S),
           Sends(cl, cl2, t, "EXECUTE")
    PROVE  EndsOK(cl2, sv) /\ InUse(t, "execute", cl2, sv, S)
<1>1. p \in InHands
  BY DEF InHands
<1>2. /\ S \subseteq 1 .. cl.depth
      /\ Open(cl) => AtLevel(t, sv, cl.depth, S)
  BY <1>1, HandFacts DEF InUse
<1>3. Open(cl2) <=> Open(cl)
  BY DEF Sends, Open
<1>4. Open(cl) => WireFits(cl2, sv)
  BY <1>1, HandFacts DEF Sends, WireFits
<1>5. EndsOK(cl2, sv)
  BY <1>1, <1>4, HandFacts DEF EndsOK, Sends, Open
<1>6. Executing(t, cl2, sv, S)
  BY <1>2, <1>3 DEF Sends, Executing
<1>7. Pending(t, cl2)
  BY DEF Sends, Pending
<1> QED
  BY <1>1, <1>5, <1>6, <1>7, HandFacts DEF InUse, Sends

\* COMMIT or RELEASE goes out.
LEMMA SendsCommit ==
    ASSUME NEW t, NEW S, NEW cl, NEW sv, NEW cl2,
           EndsOK(cl, sv), InUse(t, "body", cl, sv, S),
           Sends(cl, cl2, t, CommitSql(cl.depth))
    PROVE  EndsOK(cl2, sv) /\ InUse(t, "commit", cl2, sv, S)
<1>1. "body" \in InHands
  BY DEF InHands
<1>2. /\ cl.depth >= 1 /\ S \subseteq 1 .. cl.depth
      /\ Open(cl) => AtLevel(t, sv, cl.depth, S)
  BY DEF InUse
<1>3. Open(cl2) <=> Open(cl)
  BY DEF Sends, Open
<1>4. Open(cl) => WireFits(cl2, sv)
  BY <1>1, <1>2, HandFacts, LevelDepth DEF Sends, WireFits, CommitSql
<1>5. EndsOK(cl2, sv)
  BY <1>1, <1>4, HandFacts DEF EndsOK, Sends, Open
<1>6. Committing(t, cl2, sv, S)
  BY <1>2, <1>3 DEF Sends, Committing
<1>7. Pending(t, cl2)
  BY DEF Sends, Pending, CommitSql
<1> QED
  BY <1>1, <1>5, <1>6, <1>7, HandFacts DEF InUse, Sends

\* ROLLBACK or ROLLBACK TO goes out: the closure ends with Err, its own or a
\* failed statement's.
LEMMA SendsRollback ==
    ASSUME NEW t, NEW p \in {"body", "execute"}, NEW S, NEW cl, NEW sv, NEW cl2,
           EndsOK(cl, sv), InUse(t, p, cl, sv, S),
           p = "execute" => cl.depth > 0 /\ cl.answer = "err",
           Sends(cl, cl2, t, RollbackSql(cl.depth))
    PROVE  EndsOK(cl2, sv) /\ InUse(t, "rollback", cl2, sv, S)
<1>1. p \in InHands
  BY DEF InHands, InFlight
<1>2. /\ cl.depth >= 1 /\ S \subseteq 1 .. cl.depth
      /\ Open(cl) => AtLevel(t, sv, cl.depth, S)
  <2>1. CASE p = "body"
    BY <2>1 DEF InUse
  <2>2. CASE p = "execute"
    <3>1. Executing(t, cl, sv, S) /\ cl.depth >= 1
      BY <1>1, <2>2, HandFacts DEF InUse
    <3> QED
      BY <2>2, <3>1 DEF Executing
  <2> QED
    BY <2>1, <2>2
<1>3. Open(cl2) <=> Open(cl)
  BY DEF Sends, Open
<1>4. Open(cl) => WireFits(cl2, sv)
  <2>1. /\ cl.depth \in Nat /\ (Arm = "sqlite" => sv.depth = cl.depth)
        /\ Open(cl) => sv.depth = cl.depth
    BY <1>1, <1>2, HandFacts, LevelDepth
  <2>2. cl2.depth = cl.depth /\ cl2.wire = IF cl.depth = 1 THEN "ROLLBACK" ELSE "ROLLBACK TO"
    BY DEF Sends, RollbackSql
  <2>3. cl.depth # 1 => cl.depth >= 2
    BY <1>2, <2>1
  <2> QED
    BY <2>1, <2>2, <2>3 DEF WireFits
<1>5. EndsOK(cl2, sv)
  BY <1>1, <1>4, HandFacts DEF EndsOK, Sends, Open
<1>6. RollingBack(t, cl2, sv, S)
  BY <1>2, <1>3 DEF Sends, RollingBack
<1>7. Pending(t, cl2)
  BY DEF Sends, Pending, RollbackSql
<1> QED
  BY <1>1, <1>5, <1>6, <1>7, HandFacts DEF InUse, Sends

\* The manager answers a failed commit with a rollback, on Postgres.
LEMMA SendsUndo ==
    ASSUME NEW t, NEW S, NEW cl, NEW sv, NEW cl2,
           EndsOK(cl, sv), InUse(t, "commit", cl, sv, S), Arm = "pg", cl.answer = "err",
           Sends(cl, cl2, t, RollbackSql(cl.depth))
    PROVE  EndsOK(cl2, sv) /\ InUse(t, "undo", cl2, sv, S)
<1>1. "commit" \in InHands
  BY DEF InHands, InFlight
<1>2. Committing(t, cl, sv, S)
  BY DEF InUse
<1>3. cl.depth \in Nat
  BY <1>1, HandFacts
<1>4. /\ cl.depth >= 1 /\ S \subseteq 1 .. cl.depth
      /\ Open(cl) => cl.depth = 1 /\ sv.depth = 0
  BY <1>2, <1>3 DEF Committing, NotCommitted
<1>5. Open(cl2) <=> Open(cl)
  BY DEF Sends, Open
<1>6. Open(cl) => WireFits(cl2, sv)
  BY <1>1, <1>4, HandFacts DEF Sends, WireFits, RollbackSql
<1>7. EndsOK(cl2, sv)
  BY <1>1, <1>6, HandFacts DEF EndsOK, Sends, Open
<1>8. Undoing(cl2, sv, S)
  BY <1>4, <1>5 DEF Sends, Undoing
<1>9. Pending(t, cl2)
  BY DEF Sends, Pending, RollbackSql
<1> QED
  BY <1>1, <1>7, <1>8, <1>9, HandFacts DEF InUse, Sends

\* An answer taken keeps the depths in bounds.
LEMMA TakesEnds ==
    ASSUME NEW t, NEW p \in InHands, NEW S, NEW cl, NEW sv, NEW cl2, NEW d \in Depth,
           EndsOK(cl, sv), InUse(t, p, cl, sv, S),
           Takes(cl, cl2, d), Arm = "sqlite" => d = cl.depth
    PROVE  EndsOK(cl2, sv)
<1>1. /\ cl2.life = cl.life /\ cl2.depth = d /\ cl2.wire = "none"
  BY DEF Takes, Calm
<1>2. WireFits(cl2, sv)
  BY <1>1, HandFacts DEF WireFits
<1> QED
  BY <1>1, <1>2 DEF EndsOK

\* A begin returns: the closure runs one level deeper.
LEMMA TakesBegun ==
    ASSUME NEW t, NEW S, NEW cl, NEW sv, NEW cl2,
           EndsOK(cl, sv), InUse(t, "begin", cl, sv, S), cl.answer = "ok",
           Takes(cl, cl2, Deeper(cl))
    PROVE  EndsOK(cl2, sv) /\ InUse(t, "body", cl2, sv, S)
<1>1. "begin" \in InHands
  BY DEF InHands, InFlight
<1>2. /\ Deeper(cl) \in 1 .. MaxDepth /\ S \subseteq 1 .. (Deeper(cl) - 1)
      /\ sv.depth = Deeper(cl) /\ (sv.cut \/ sv.pend = {t} \X S)
  BY DEF InUse, Beginning
<1>3. Deeper(cl) \in Depth /\ S \subseteq 1 .. Deeper(cl) /\ Deeper(cl) >= 1
  BY <1>1, <1>2, HandFacts DEF Depth
<1>4. Arm = "sqlite" => Deeper(cl) = cl.depth
  BY DEF Deeper
<1>5. EndsOK(cl2, sv)
  BY <1>1, <1>3, <1>4, TakesEnds
<1>6. AtLevel(t, sv, cl2.depth, S)
  BY <1>2 DEF Takes, AtLevel
<1> QED
  BY <1>1, <1>3, <1>5, <1>6, HandFacts DEF InUse, Takes, InFlight

\* An answer taken by a call that ends: the connection is ready to go back.
LEMMA TakesLast ==
    ASSUME NEW t, NEW p \in InHands, NEW S, NEW S2, NEW cl, NEW sv, NEW cl2, NEW d \in Depth,
           EndsOK(cl, sv), InUse(t, p, cl, sv, S),
           Takes(cl, cl2, d), Arm = "sqlite" => d = cl.depth,
           Open(cl) /\ d = 0 => AtTop(sv)
    PROVE  EndsOK(cl2, sv) /\ InUse(t, "leaving", cl2, sv, S2)
<1>1. EndsOK(cl2, sv)
  BY TakesEnds
<1>2. Calm(cl2) /\ (Open(cl2) /\ cl2.depth = 0 => AtTop(sv))
  BY DEF Takes, Open
<1> QED
  BY <1>1, <1>2, HandFacts DEF InUse, Takes, InFlight

\* An answer taken by a call that goes on in a closure, at level d with the
\* writes at the levels S2.
LEMMA TakesOn ==
    ASSUME NEW t, NEW p \in InHands, NEW S, NEW S2, NEW cl, NEW sv, NEW cl2, NEW d \in Depth \ {0},
           EndsOK(cl, sv), InUse(t, p, cl, sv, S),
           Takes(cl, cl2, d), Arm = "sqlite" => d = cl.depth,
           S2 \subseteq 1 .. d, Open(cl) => AtLevel(t, sv, d, S2)
    PROVE  EndsOK(cl2, sv) /\ InUse(t, "body", cl2, sv, S2)
<1>1. EndsOK(cl2, sv)
  BY TakesEnds
<1>2. /\ Calm(cl2) /\ cl2.depth >= 1 /\ S2 \subseteq 1 .. cl2.depth
      /\ Open(cl2) => AtLevel(t, sv, cl2.depth, S2)
  BY DepthAssumption DEF Takes, Open, Depth
<1> QED
  BY <1>1, <1>2, HandFacts DEF InUse, Takes, InFlight

\* A begin fails, on a lost connection: the outermost ends the call.
LEMMA TakesNotBegun ==
    ASSUME NEW t, NEW S, NEW cl, NEW sv, NEW cl2,
           EndsOK(cl, sv), InUse(t, "begin", cl, sv, S), cl.answer = "err",
           Takes(cl, cl2, cl.depth)
    PROVE  /\ EndsOK(cl2, sv)
           /\ InUse(t, IF cl.depth = 0 THEN "leaving" ELSE "body", cl2, sv, S)
<1>1. "begin" \in InHands /\ cl.depth \in Depth
  BY DEF InHands, InFlight, EndsOK
<1>2. ~Open(cl) /\ S \subseteq 1 .. cl.depth
  BY DEF InUse, Beginning, Open
<1> QED
  BY <1>1, <1>2, TakesLast, TakesOn

\* A statement succeeds: one write more at the level it ran at.
LEMMA TakesExecuted ==
    ASSUME NEW t, NEW S, NEW cl, NEW sv, NEW cl2,
           EndsOK(cl, sv), InUse(t, "execute", cl, sv, S), cl.answer = "ok",
           Takes(cl, cl2, cl.depth)
    PROVE  /\ EndsOK(cl2, sv) /\ S \cup {cl.depth} \subseteq Depth
           /\ InUse(t, IF cl.depth = 0 THEN "leaving" ELSE "body", cl2, sv, S \cup {cl.depth})
<1>1. "execute" \in InHands /\ cl.depth \in Depth /\ cl.depth \in Nat
  BY HandFacts DEF InHands, InFlight, EndsOK
<1>2. /\ S \subseteq 1 .. cl.depth
      /\ AtLevel(t, sv, cl.depth, IF cl.depth = 0 THEN {} ELSE S \cup {cl.depth})
  BY DEF InUse, Executing
<1>3. S \cup {cl.depth} \subseteq Depth
  <2>1. 1 .. cl.depth \subseteq Depth
    BY <1>1, DepthAssumption DEF Depth
  <2> QED
    BY <1>1, <1>2, <2>1
<1>4. CASE cl.depth = 0
  <2>1. AtTop(sv)
    BY <1>2, <1>4, LevelDepth
  <2> QED
    BY <1>1, <1>3, <1>4, <2>1, TakesLast
<1>5. CASE cl.depth # 0
  <2>1. S \cup {cl.depth} \subseteq 1 .. cl.depth
    <3>1. cl.depth \in 1 .. cl.depth
      BY <1>1, <1>5
    <3> QED
      BY <1>2, <3>1
  <2> QED
    BY <1>1, <1>2, <1>3, <1>5, <2>1, TakesOn
<1> QED
  BY <1>4, <1>5

\* A statement outside any transaction fails: the call ends.
LEMMA TakesNotExecuted ==
    ASSUME NEW t, NEW S, NEW cl, NEW sv, NEW cl2,
           EndsOK(cl, sv), InUse(t, "execute", cl, sv, S), cl.answer = "err", cl.depth = 0,
           Takes(cl, cl2, cl.depth)
    PROVE  EndsOK(cl2, sv) /\ InUse(t, "leaving", cl2, sv, S)
<1>1. "execute" \in InHands /\ cl.depth \in Depth
  BY DEF InHands, InFlight, EndsOK
<1>2. Open(cl) => AtTop(sv)
  BY LevelDepth DEF InUse, Executing
<1> QED
  BY <1>1, <1>2, TakesLast

\* The depth a task knows after a transaction has ended.
LEMMA ShallowerDepth ==
    ASSUME NEW cl, cl.depth \in Depth, Arm \in {"pg", "sqlite"}, EndedBy(cl) \in 1 .. MaxDepth
    PROVE  /\ Shallower(cl) = EndedBy(cl) - 1
           /\ Shallower(cl) \in Depth
           /\ Arm = "sqlite" => Shallower(cl) = cl.depth
           /\ EndedBy(cl) = 1 <=> Shallower(cl) = 0
<1>1. Shallower(cl) = EndedBy(cl) - 1 /\ (Arm = "sqlite" => Shallower(cl) = cl.depth)
  BY DEF EndedBy, Shallower, Depth
<1>2. EndedBy(cl) - 1 \in Depth /\ (EndedBy(cl) = 1 <=> EndedBy(cl) - 1 = 0)
  BY DepthAssumption DEF Depth
<1> QED
  BY <1>1, <1>2

\* A transaction ends and its task knows where it stands: the call is over, or
\* the closure around goes on with the writes at the levels S2.
LEMMA TakesEnded ==
    ASSUME NEW t, NEW p \in InHands, NEW S, NEW S2, NEW cl, NEW sv, NEW cl2,
           EndsOK(cl, sv), InUse(t, p, cl, sv, S),
           EndedBy(cl) \in 1 .. MaxDepth,
           Takes(cl, cl2, Shallower(cl)),
           EndedBy(cl) = 1 => AtTop(sv),
           EndedBy(cl) # 1 => S2 \subseteq 1 .. (EndedBy(cl) - 1) /\ AtLevel(t, sv, EndedBy(cl) - 1, S2)
    PROVE  /\ EndsOK(cl2, sv)
           /\ InUse(t, IF EndedBy(cl) = 1 THEN "leaving" ELSE "body", cl2, sv, S2)
<1> DEFINE d == Shallower(cl)
<1>1. cl.depth \in Depth /\ Arm \in {"pg", "sqlite"}
  BY ArmAssumption DEF EndsOK
<1>2. /\ d = EndedBy(cl) - 1 /\ d \in Depth
      /\ Arm = "sqlite" => d = cl.depth
      /\ EndedBy(cl) = 1 <=> d = 0
  BY <1>1, ShallowerDepth
<1> HIDE DEF d
<1>3. Takes(cl, cl2, d)
  BY DEF d
<1>4. CASE EndedBy(cl) = 1
  BY <1>2, <1>3, <1>4, TakesLast
<1>5. CASE EndedBy(cl) # 1
  <2>1. d \in Depth \ {0} /\ S2 \subseteq 1 .. d /\ AtLevel(t, sv, d, S2)
    BY <1>2, <1>5
  <2>2. Arm = "sqlite" => d = cl.depth
    BY <1>2
  <2>3. EndsOK(cl2, sv) /\ InUse(t, "body", cl2, sv, S2)
    BY <1>3, <2>1, <2>2, TakesOn
  <2> QED
    BY <1>5, <2>3
<1> QED
  BY <1>4, <1>5

\* The levels of a task whose transaction has ended stay in bounds.
LEMMA EndedLevels ==
    ASSUME NEW e \in 1 .. MaxDepth, NEW S \in SUBSET (1 .. e)
    PROVE  /\ Merged(S, e) \subseteq Depth
           /\ e # 1 => Merged(S, e) \subseteq 1 .. (e - 1) /\ S \ {e} \subseteq 1 .. (e - 1)
<1>1. MaxDepth \in Nat \ {0} /\ e \in Nat \ {0} /\ e <= MaxDepth
  BY DepthAssumption
<1>2. \A l \in S : (IF l = e THEN e - 1 ELSE l) \in 0 .. MaxDepth
  BY <1>1
<1>3. Merged(S, e) \subseteq Depth
  BY <1>2 DEF Merged, Depth
<1>4. ASSUME e # 1
      PROVE  Merged(S, e) \subseteq 1 .. (e - 1) /\ S \ {e} \subseteq 1 .. (e - 1)
  <2>1. e \in Nat \ {0, 1}
    BY <1>1, <1>4
  <2> QED
    BY <2>1, LevelsEnded
<1> QED
  BY <1>3, <1>4

\* A commit returns: the level's writes are its parent's.
LEMMA TakesCommitted ==
    ASSUME NEW t, NEW S, NEW cl, NEW sv, NEW cl2,
           EndsOK(cl, sv), InUse(t, "commit", cl, sv, S), cl.answer = "ok",
           Takes(cl, cl2, Shallower(cl))
    PROVE  /\ EndsOK(cl2, sv) /\ Merged(S, EndedBy(cl)) \subseteq Depth
           /\ InUse(t, IF EndedBy(cl) = 1 THEN "leaving" ELSE "body", cl2, sv,
                    Merged(S, EndedBy(cl)))
<1> DEFINE e == EndedBy(cl)
           S2 == Merged(S, e)
<1>1. "commit" \in InHands
  BY DEF InHands, InFlight
<1>2. /\ e \in 1 .. MaxDepth /\ S \subseteq 1 .. e
      /\ AtLevel(t, sv, e - 1, IF e = 1 THEN {} ELSE S2)
  BY DEF InUse, Committing
<1>3. S2 \subseteq Depth /\ (e # 1 => S2 \subseteq 1 .. (e - 1))
  BY <1>2, EndedLevels
<1>4. e = 1 => AtTop(sv)
  <2>1. e = 1 => AtLevel(t, sv, 0, {})
    <3>1. e = 1 => e - 1 = 0
      BY <1>2
    <3> QED
      BY <1>2, <3>1
  <2> QED
    BY <2>1, LevelDepth
<1>5. e # 1 => AtLevel(t, sv, e - 1, S2)
  BY <1>2
<1> QED
  BY <1>1, <1>2, <1>3, <1>4, <1>5, TakesEnded

\* A level is undone: its writes are gone.
LEMMA TakesUndone ==
    ASSUME NEW t, NEW p \in {"rollback", "undo", "commit"}, NEW S, NEW cl, NEW sv, NEW cl2,
           EndsOK(cl, sv), InUse(t, p, cl, sv, S),
           IF p = "commit" THEN Arm = "sqlite" /\ cl.depth = 0 ELSE cl.answer = "ok",
           Takes(cl, cl2, Shallower(cl))
    PROVE  /\ EndsOK(cl2, sv)
           /\ InUse(t, IF EndedBy(cl) = 1 THEN "leaving" ELSE "body", cl2, sv, S \ {EndedBy(cl)})
<1> DEFINE e == EndedBy(cl)
           S2 == S \ {e}
<1>1. p \in InHands
  BY DEF InHands, InFlight
<1>2. /\ e \in 1 .. MaxDepth
      /\ e = 1 => AtTop(sv)
      /\ e # 1 => S2 \subseteq 1 .. (e - 1) /\ AtLevel(t, sv, e - 1, S2)
  <2>1. CASE p = "rollback"
    <3>1. e \in 1 .. MaxDepth /\ S \subseteq 1 .. e /\ AtLevel(t, sv, e - 1, S2)
      BY <2>1 DEF InUse, RollingBack
    <3>2. e # 1 => S2 \subseteq 1 .. (e - 1)
      BY <3>1, EndedLevels
    <3>3. e - 1 \in Nat /\ (e = 1 => e - 1 = 0)
      BY <3>1
    <3> QED
      BY <3>1, <3>2, <3>3, LevelDepth
  <2>2. CASE p = "undo"
    <3>1. Arm = "pg" /\ Open(cl) /\ cl.depth = 1 /\ sv.depth = 0
      BY <2>2 DEF InUse, Undoing, Pending, InFlight
    <3>2. e = 1
      BY <3>1 DEF EndedBy
    <3> QED
      BY <3>1, <3>2, DepthAssumption DEF AtTop
  <2>3. CASE p = "commit"
    <3>1. sv.depth = 0
      BY <1>1, <2>3, HandFacts
    <3>2. e = 1 /\ e \in 1 .. MaxDepth /\ sv.depth = 0
      BY <2>3, <3>1, ArmAssumption, DepthAssumption DEF EndedBy
    <3> QED
      BY <3>2 DEF AtTop
  <2> QED
    BY <2>1, <2>2, <2>3
<1> HIDE DEF S2
<1>3. InUse(t, IF e = 1 THEN "leaving" ELSE "body", cl2, sv, S2) /\ EndsOK(cl2, sv)
  BY <1>1, <1>2, TakesEnded
<1> QED
  BY <1>3 DEF S2

\* A commit fails and the status stands: the call ends, or the connection is lost.
LEMMA TakesNotCommitted ==
    ASSUME NEW t, NEW S, NEW cl, NEW sv, NEW cl2,
           EndsOK(cl, sv), InUse(t, "commit", cl, sv, S), cl.answer = "err", cl.depth > 0,
           Takes(cl, cl2, cl.depth)
    PROVE  /\ EndsOK(cl2, sv)
           /\ InUse(t, IF cl.depth = 1 THEN "leaving" ELSE "body", cl2, sv, S)
<1>1. "commit" \in InHands /\ cl.depth \in Depth /\ cl.depth \in Nat
  BY HandFacts DEF InHands, InFlight, EndsOK
<1>2. /\ S \subseteq 1 .. cl.depth
      /\ Open(cl) => cl.depth <= 1
  BY <1>1 DEF InUse, Committing, NotCommitted
<1>3. CASE cl.depth = 1
  BY <1>1, <1>3, TakesLast
<1>4. CASE cl.depth # 1
  <2>1. ~Open(cl) /\ cl.depth \in Depth \ {0}
    BY <1>1, <1>2, <1>4
  <2> QED
    BY <1>1, <1>2, <1>4, <2>1, TakesOn
<1> QED
  BY <1>3, <1>4

\* A rollback fails, on a lost connection: the call ends.
LEMMA TakesNotUndone ==
    ASSUME NEW t, NEW p \in {"rollback", "undo"}, NEW S, NEW cl, NEW sv, NEW cl2,
           EndsOK(cl, sv), InUse(t, p, cl, sv, S), cl.answer = "err",
           Takes(cl, cl2, cl.depth)
    PROVE  EndsOK(cl2, sv) /\ InUse(t, "leaving", cl2, sv, S)
<1>1. p \in InHands /\ cl.depth \in Depth
  BY DEF InHands, InFlight, EndsOK
<1>2. ~Open(cl)
  BY DEF InUse, RollingBack, Undoing, Open
<1> QED
  BY <1>1, <1>2, TakesLast

\* A future is dropped at work: its BEGIN, if that is what it waited for on
\* Postgres, is cut off.
Drops(p, cl, sv, cl2, sv2) ==
    /\ cl2.life = cl.life /\ cl2.depth = cl.depth /\ cl2.wire = cl.wire
    /\ cl2.answer = "none" /\ ~cl2.heard
    /\ sv2.depth = sv.depth /\ sv2.pend = sv.pend
    /\ sv2.cut <=> (sv.cut \/ (Arm = "pg" /\ p = "begin" /\ cl.depth = 0))

\* Wherever the future is dropped, the connection is left at rest: a status
\* without a transaction hides none but one whose BEGIN was cut off.
LEMMA DropsToRest ==
    ASSUME NEW t, NEW p \in InFlight \cup {"holding", "body"}, NEW S,
           NEW cl, NEW sv, NEW cl2, NEW sv2,
           Typed(cl, sv), EndsOK(cl, sv), InUse(t, p, cl, sv, S), Drops(p, cl, sv, cl2, sv2)
    PROVE  EndsOK(cl2, sv2) /\ Resting(cl2, sv2)
<1>1. p \in InHands
  BY DEF InHands
<1>2. EndsOK(cl2, sv2)
  BY DEF EndsOK, WireFits, Drops
<1>3. ASSUME Open(cl), cl.depth = 0
      PROVE  AtTop(sv2)
  <2>1. \/ AtTop(sv)
        \/ Arm = "pg" /\ p = "begin" /\ sv.depth = 1
    <3>1. CASE p = "holding"
      BY <1>3, <3>1, LevelDepth DEF InUse
    <3>2. CASE p = "body"
      BY <1>3, <3>2 DEF InUse
    <3>3. CASE p \in InFlight
      <4>1. cl.answer \in {"none", "ok", "err"} /\ (cl.wire = "none" <=> cl.answer # "none")
        BY <3>3 DEF Typed, Sound, ClientShape, InUse, Pending
      <4>2. CASE p = "begin"
        <5>1. Beginning(t, cl, sv, S)
          BY <4>2 DEF InUse
        <5>2. CASE cl.wire # "none"
          BY <1>3, <5>1, <5>2, LevelDepth DEF Beginning
        <5>3. CASE cl.answer = "ok"
          <6>1. Deeper(cl) \in 1 .. MaxDepth /\ sv.depth = Deeper(cl)
            BY <5>1, <5>3 DEF Beginning
          <6>2. Arm = "pg" /\ Deeper(cl) = 1
            BY <1>1, <1>3, <6>1, HandFacts DEF Deeper
          <6> QED
            BY <4>2, <6>1, <6>2
        <5>4. CASE cl.answer = "err"
          BY <1>3, <5>1, <5>4 DEF Beginning, Open
        <5> QED
          BY <4>1, <5>2, <5>3, <5>4
      <4>3. CASE p = "execute"
        <5>1. Executing(t, cl, sv, S)
          BY <4>3 DEF InUse
        <5> QED
          BY <1>3, <5>1, LevelDepth DEF Executing
      <4>4. CASE p = "commit"
        <5>1. Committing(t, cl, sv, S)
          BY <4>4 DEF InUse
        <5>2. cl.wire = "none"
          BY <1>3, <5>1 DEF Committing
        <5>3. cl.answer \in {"ok", "err"}
          BY <4>1, <5>2
        <5>4. cl.answer = "ok" => AtLevel(t, sv, 0, {})
          <6>1. cl.answer = "ok" => EndedBy(cl) = 1
            BY <1>1, <1>3, <5>1, HandFacts DEF Committing, EndedBy
          <6>2. EndedBy(cl) = 1 => EndedBy(cl) - 1 = 0
            OBVIOUS
          <6> QED
            BY <5>1, <6>1, <6>2 DEF Committing
        <5>5. cl.answer = "err" => sv.depth = 0
          BY <1>1, <1>3, <5>1, HandFacts DEF Committing, NotCommitted
        <5> QED
          BY <5>3, <5>4, <5>5, LevelDepth DEF AtTop
      <4>5. CASE p = "rollback"
        <5>1. RollingBack(t, cl, sv, S)
          BY <4>5 DEF InUse
        <5>2. cl.answer = "ok"
          BY <1>3, <4>1, <5>1 DEF RollingBack, Open
        <5>3. /\ EndedBy(cl) \in 1 .. MaxDepth
              /\ AtLevel(t, sv, EndedBy(cl) - 1, S \ {EndedBy(cl)})
          BY <5>1, <5>2 DEF RollingBack
        <5>4. EndedBy(cl) - 1 = 0
          BY <1>1, <1>3, <5>3, HandFacts DEF EndedBy
        <5>5. AtLevel(t, sv, 0, S \ {EndedBy(cl)})
          BY <5>3, <5>4
        <5> QED
          BY <5>5, LevelDepth
      <4>6. CASE p = "undo"
        BY <1>3, <4>6 DEF InUse, Undoing
      <4> QED
        BY <3>3, <4>2, <4>3, <4>4, <4>5, <4>6 DEF InFlight
    <3> QED
      BY <3>1, <3>2, <3>3
  <2> QED
    BY <1>3, <2>1 DEF Drops, AtTop
<1>4. cl.wire = "BEGIN" => p = "begin" /\ cl.depth = 0
  <2>1. cl.wire = "BEGIN" => p = "begin"
    BY <1>1, WireTellsPlace
  <2> QED
    BY <2>1 DEF InUse, Beginning, BeginSql
<1> QED
  BY <1>2, <1>3, <1>4 DEF Resting, Drops, Open

\* A connection that is handed out after its test, or fresh, has no transaction
\* but a cut-off one.
LEMMA HandedOut ==
    ASSUME NEW t, NEW cl, NEW sv, EndsOK(cl, sv), Resting(cl, sv), UnderTest(cl),
           Open(cl), cl.wire = "none"
    PROVE  InUse(t, "holding", cl, sv, {})
<1>1. AtTop(sv) /\ Calm(cl) /\ cl.depth = 0
  BY DEF Resting, UnderTest, Calm
<1>2. sv.cut \/ sv.pend = {t} \X {}
  <2>1. sv.depth = 0 => sv.pend = {}
    <3>1. 1 .. 0 = {}
      OBVIOUS
    <3> QED
      BY <3>1 DEF EndsOK
  <2> QED
    BY <1>1, <2>1 DEF AtTop
<1>3. AtLevel(t, sv, 0, {})
  BY <1>1, <1>2 DEF AtLevel
<1> QED
  BY <1>1, <1>3 DEF InUse, Open, InFlight

\* A connection that comes back from a call that ended is at rest.
LEMMA ReturnedToRest ==
    ASSUME NEW t, NEW S, NEW cl, NEW sv, InUse(t, "leaving", cl, sv, S)
    PROVE  Resting(cl, sv)
BY DEF InUse, Calm, Resting

\* A discarded connection stays in order and at rest.
Gone(cl, cl2) ==
    /\ cl2.life = "closing" /\ cl2.answer = "none" /\ ~cl2.heard
    /\ cl.life = "lost" => cl2.wire = "none" /\ cl2.depth = 0
    /\ cl.life # "lost" => cl2.wire = cl.wire /\ cl2.depth = cl.depth

\* What a discarded handle leaves on the wire still fits the session.
LEMMA GoneToRest ==
    ASSUME NEW cl, NEW sv, NEW cl2, EndsOK(cl, sv), Live(cl), Gone(cl, cl2)
    PROVE  EndsOK(cl2, sv) /\ Resting(cl2, sv)
<1>1. CASE cl.life = "lost"
  <2>1. cl2.depth = 0 /\ cl2.wire = "none" /\ sv.depth = 0 /\ 0 \in Depth
    BY <1>1, DepthAssumption DEF Gone, EndsOK, Depth
  <2>2. WireFits(cl2, sv)
    BY <2>1 DEF WireFits
  <2> QED
    BY <2>1, <2>2 DEF Gone, EndsOK, Resting, Open
<1>2. CASE cl.life = "open"
  <2>1. WireFits(cl2, sv)
    BY <1>2 DEF Gone, EndsOK, WireFits
  <2> QED
    BY <1>2, <2>1 DEF Gone, EndsOK, Resting, Open
<1> QED
  BY <1>1, <1>2 DEF Live

-----------------------------------------------------------------------------
(* A step concerns one task and one connection; everything else stands.    *)

\* Only task t and connection c change, and nobody else has c.
Only(t, c) ==
    /\ \A d \in Conn \ {c} : client'[d] = client[d] /\ server'[d] = server[d]
    /\ \A u \in Task \ {t} : /\ pc'[u] = pc[u] /\ held'[u] = held[u] /\ kept'[u] = kept[u]
                             /\ held[u] # c
    /\ pc[t] \in InHands => held[t] = c

\* The invariant survives if what changes is in order.
LEMMA OnlyInOrder ==
    ASSUME NEW t \in Task, NEW c \in Conn, PoolShape, SessionInv, Only(t, c),
           EndsOK(client'[c], server'[c]),
           IF pc'[t] \in InHands
             THEN held'[t] = c /\ InUse(t, pc'[t], client'[c], server'[c], kept'[t])
             ELSE Resting(client'[c], server'[c]),
           pc'[t] = "pinging" => held'[t] = c /\ UnderTest(client'[c]),
           kept'[t] \subseteq Depth, pc'[t] \in Before => kept'[t] = {}
    PROVE  SessionInv'
<1>1. EndsInOrder'
  BY DEF SessionInv, EndsInOrder, Only
<1>2. RestInOrder'
  <2> SUFFICES ASSUME NEW d \in Conn, ~AtWork(d)' PROVE Resting(client'[d], server'[d])
    BY DEF RestInOrder
  <2>1. CASE d = c
    BY <2>1 DEF AtWork
  <2>2. CASE d # c
    <3>1. ~AtWork(d)
      BY <2>2 DEF AtWork, Only
    <3> QED
      BY <2>2, <3>1 DEF SessionInv, RestInOrder, Only
  <2> QED
    BY <2>1, <2>2
<1>3. HandsInOrder'
  <2> SUFFICES ASSUME NEW u \in Task, pc'[u] \in InHands
               PROVE  InUse(u, pc'[u], client'[held'[u]], server'[held'[u]], kept'[u])
    BY DEF HandsInOrder
  <2>1. CASE u = t
    BY <2>1
  <2>2. CASE u # t
    <3>1. /\ pc'[u] = pc[u] /\ held'[u] = held[u] /\ kept'[u] = kept[u] /\ held[u] # c
      BY <2>2 DEF Only
    <3>2. held[u] \in Conn
      BY <3>1 DEF PoolShape, Owning
    <3>3. client'[held[u]] = client[held[u]] /\ server'[held[u]] = server[held[u]]
      BY <3>1, <3>2 DEF Only
    <3> QED
      BY <3>1, <3>3 DEF SessionInv, HandsInOrder
  <2> QED
    BY <2>1, <2>2
<1>4. TestsInOrder'
  <2> SUFFICES ASSUME NEW u \in Task, pc'[u] = "pinging" PROVE UnderTest(client'[held'[u]])
    BY DEF TestsInOrder
  <2>1. CASE u = t
    BY <2>1
  <2>2. CASE u # t
    <3>1. /\ pc'[u] = pc[u] /\ held'[u] = held[u] /\ held[u] # c
      BY <2>2 DEF Only
    <3>2. held[u] \in Conn
      BY <3>1 DEF PoolShape, Owning
    <3> QED
      BY <3>1, <3>2 DEF SessionInv, TestsInOrder, Only
  <2> QED
    BY <2>1, <2>2
<1>5. KeptInOrder'
  BY DEF SessionInv, KeptInOrder, Only
<1> QED
  BY <1>1, <1>2, <1>3, <1>4, <1>5 DEF SessionInv

\* The connections and what is kept rest, and no task with a connection moves.
LEMMA NoneInOrder ==
    ASSUME NEW t \in Task, NEW p \in Places \ Owning, SessionInv, pc[t] \notin Owning,
           MovedTo(t, p), UNCHANGED <<connVars, held, kept>>, p \in Before => pc[t] \in Before
    PROVE  SessionInv'
<1>1. \A u \in Task : /\ pc'[u] \in InHands <=> pc[u] \in InHands
                      /\ pc'[u] \in InHands => pc'[u] = pc[u]
                      /\ pc'[u] = "pinging" => pc[u] = "pinging"
                      /\ pc'[u] \in Before => pc[u] \in Before
  BY DEF MovedTo, Owning
<1>2. \A c \in Conn : AtWork(c)' <=> AtWork(c)
  BY <1>1 DEF AtWork
<1> QED
  BY <1>1, <1>2 DEF SessionInv, EndsInOrder, RestInOrder, HandsInOrder, TestsInOrder, KeptInOrder,
                    connVars

\* A step of the server concerns one connection and no task.
LEMMA ServerInOrder ==
    ASSUME NEW c \in Conn, PoolInv, SessionInv, ConnStep(c)
    PROVE  SessionInv'
<1> DEFINE cl == client[c]
           sv == server[c]
           cl2 == client'[c]
           sv2 == server'[c]
<1>1. /\ \/ Carried(cl, sv, cl2, sv2) \/ Refused(cl, sv, cl2, sv2)
         \/ Cut(cl, cl2, sv2) \/ Closed(cl, cl2, sv2)
      /\ \A d \in Conn \ {c} : client'[d] = client[d] /\ server'[d] = server[d]
  BY ServerStepEnds, ServerStepShape DEF ConnStep, PoolInv, PoolShape, Local
<1>2. UNCHANGED <<pc, held, kept>>
  BY DEF ConnStep, taskVars
<1>3. Typed(cl, sv) /\ EndsOK(cl, sv)
  BY DEF PoolInv, PoolShape, ConnShape, Typed, SessionInv, EndsInOrder
<1>4. EndsOK(cl2, sv2)
  BY <1>1, <1>3, CarriedEnds, OtherEnds
<1>5. Resting(cl, sv) => Resting(cl2, sv2)
  BY <1>1, <1>3, StaysResting
<1>6. \A t \in Task : \A p \in InHands : \A S :
         InUse(t, p, cl, sv, S) => InUse(t, p, cl2, sv2, S)
  BY <1>1, <1>3, StaysInUse
<1>7. Live(cl) /\ UnderTest(cl) => UnderTest(cl2)
  BY <1>1, StaysUnderTest DEF Live
<1>8. \A t \in Task : pc[t] \in Owning => held[t] \in Conn /\ Live(client[held[t]])
  BY DEF PoolInv, PoolShape, Ownership, Owned
<1> HIDE DEF cl, sv, cl2, sv2
<1>9. EndsInOrder'
  BY <1>1, <1>4 DEF SessionInv, EndsInOrder, cl2, sv2
<1>10. RestInOrder'
  <2>1. \A d \in Conn : AtWork(d)' <=> AtWork(d)
    BY <1>2 DEF AtWork
  <2> QED
    BY <1>1, <1>5, <2>1 DEF SessionInv, RestInOrder, cl, sv, cl2, sv2
<1>11. HandsInOrder'
  <2> SUFFICES ASSUME NEW t \in Task, pc[t] \in InHands
               PROVE  InUse(t, pc[t], client'[held[t]], server'[held[t]], kept[t])
    BY <1>2 DEF HandsInOrder
  <2>1. held[t] \in Conn /\ InUse(t, pc[t], client[held[t]], server[held[t]], kept[t])
    BY <1>8 DEF Owning, SessionInv, HandsInOrder
  <2>2. CASE held[t] = c
    BY <1>6, <2>1, <2>2 DEF cl, sv, cl2, sv2
  <2>3. CASE held[t] # c
    BY <1>1, <2>1, <2>3
  <2> QED
    BY <2>2, <2>3
<1>12. TestsInOrder'
  <2> SUFFICES ASSUME NEW t \in Task, pc[t] = "pinging" PROVE UnderTest(client'[held[t]])
    BY <1>2 DEF TestsInOrder
  <2>1. held[t] \in Conn /\ Live(client[held[t]]) /\ UnderTest(client[held[t]])
    BY <1>8 DEF Owning, SessionInv, TestsInOrder
  <2>2. CASE held[t] = c
    BY <1>7, <2>1, <2>2 DEF cl, cl2
  <2>3. CASE held[t] # c
    BY <1>1, <2>1, <2>3
  <2> QED
    BY <2>2, <2>3
<1>13. KeptInOrder'
  BY <1>2 DEF SessionInv, KeptInOrder
<1> QED
  BY <1>9, <1>10, <1>11, <1>12, <1>13 DEF SessionInv

-----------------------------------------------------------------------------
(* The steps of a task.                                                    *)

\* A task has its connection to itself.
LEMMA OwnConnection ==
    ASSUME NEW t \in Task, PoolInv, pc[t] \in Owning
    PROVE  /\ held[t] \in Conn /\ Live(client[held[t]])
           /\ \A u \in Task \ {t} : held[u] # held[t]
           /\ Typed(client[held[t]], server[held[t]])
           /\ client[held[t]] \in ClientShape
<1>1. held[t] \in Conn
  BY DEF PoolInv, PoolShape
<1>2. Live(client[held[t]]) /\ \A u \in Task \ {t} : held[u] # held[t]
  BY <1>1 DEF PoolInv, Ownership, Owned
<1> QED
  BY <1>1, <1>2 DEF PoolInv, PoolShape, ConnShape, Typed, Sound

\* A step of a task at work, which moves on with the same connection: enough
\* that the connection is in order for the place it moves to.
LEMMA WorkInOrder ==
    ASSUME NEW t \in Task, NEW p \in InHands, NEW cl, NEW S,
           PoolInv, SessionInv, pc[t] \in InHands, Goto(t, p),
           client' = [client EXCEPT ![held[t]] = cl], UNCHANGED <<server, held>>,
           kept' = [kept EXCEPT ![t] = S],
           S \subseteq Depth,
           EndsOK(cl, server[held[t]]), InUse(t, p, cl, server[held[t]], S)
    PROVE  SessionInv'
<1> DEFINE c == held[t]
<1>1. c \in Conn /\ \A u \in Task \ {t} : held[u] # c
  BY OwnConnection DEF Owning
<1>2. /\ client'[c] = cl /\ server'[c] = server[c]
      /\ \A d \in Conn \ {c} : client'[d] = client[d] /\ server'[d] = server[d]
  BY <1>1 DEF PoolInv, PoolShape, ConnShape
<1>3. /\ pc'[t] = p /\ kept'[t] = S /\ held'[t] = c
      /\ \A u \in Task \ {t} : pc'[u] = pc[u] /\ held'[u] = held[u] /\ kept'[u] = kept[u]
  BY DEF PoolInv, PoolShape, Goto
<1>4. Only(t, c)
  BY <1>1, <1>2, <1>3 DEF Only
<1>5. p # "pinging" /\ p \notin Before
  BY DEF InHands, InFlight, Before
<1> QED
  BY <1>1, <1>2, <1>3, <1>4, <1>5, OnlyInOrder DEF PoolInv

\* Every step of a task's work but the last keeps the connections in order.
LEMMA WorkSession ==
    ASSUME NEW t \in Task, PoolInv, SessionInv, Work(t), pc[t] # "leaving"
    PROVE  SessionInv'
<1> DEFINE c == held[t]
           cl == client[c]
           sv == server[c]
           S == kept[t]
<1>1. pc[t] \in InHands /\ pc[t] \in Owning
  BY DEF Work, Begin, BeginReturns, BeginFails, ExecuteStatement, ExecuteReturns, ExecuteFails,
         ExecuteUnwinds, Commit, CommitReturns, CommitRefused, CommitUndone, Rollback, RollbackReturns,
         RollbackFails, Leave, InHands, InFlight, Owning
<1>2. /\ c \in Conn /\ cl \in ClientShape /\ Sound(cl) /\ cl.depth \in Int
      /\ cl.answer # "none" => cl.wire = "none"
  BY <1>1, OwnConnection DEF Typed, Sound, ClientShape
<1>3. /\ EndsOK(cl, sv) /\ InUse(t, pc[t], cl, sv, S)
      /\ S \subseteq Depth
  BY <1>1, <1>2 DEF SessionInv, EndsInOrder, HandsInOrder, KeptInOrder
<1>4. kept = [kept EXCEPT ![t] = S]
  BY DEF PoolInv, PoolShape
<1>5. ASSUME NEW sql \in Statement PROVE Sends(cl, Sent(cl, t, sql), t, sql)
  BY <1>2, SentFacts DEF Sends
<1>6. ASSUME NEW d \in Int, cl.answer # "none" PROVE Takes(cl, Settled(cl, d), d)
  BY <1>2, <1>6, SettledFacts DEF Takes, Calm
<1>7. ASSUME cl.answer # "none" PROVE Takes(cl, Returned(cl), cl.depth)
  BY <1>2, <1>7, ReturnedFacts DEF Takes, Calm
<1>8. ASSUME NEW p \in InHands, NEW cl2, NEW S2, Goto(t, p),
             client' = [client EXCEPT ![c] = cl2], UNCHANGED <<server, held>>,
             kept' = [kept EXCEPT ![t] = S2], S2 \subseteq Depth,
             EndsOK(cl2, sv), InUse(t, p, cl2, sv, S2)
      PROVE  SessionInv'
  BY <1>1, <1>8, WorkInOrder
<1>9. ASSUME NEW p \in InHands, NEW cl2, Goto(t, p),
             client' = [client EXCEPT ![c] = cl2], UNCHANGED <<server, held, kept>>,
             EndsOK(cl2, sv), InUse(t, p, cl2, sv, S)
      PROVE  SessionInv'
  BY <1>3, <1>4, <1>8, <1>9
<1>10. /\ BeginSql(cl.depth) \in Statement /\ CommitSql(cl.depth) \in Statement
       /\ RollbackSql(cl.depth) \in Statement /\ "EXECUTE" \in Statement
  BY DEF BeginSql, CommitSql, RollbackSql, Statement, Controls
<1>11. /\ Deeper(cl) \in Int /\ Shallower(cl) \in Int
       /\ Ended(t) = EndedBy(cl) /\ Level(t) = cl.depth /\ Cl(t) = cl
  BY <1>2 DEF Deeper, Shallower, Ended, EndedBy, Level, Cl
<1>12. InFlight \cup {"body", "leaving"} \subseteq InHands
  BY DEF InHands
<1> HIDE DEF c, cl, sv, S
<1>13. CASE Begin(t)
  <2>1. /\ client' = [client EXCEPT ![c] = Sent(cl, t, BeginSql(cl.depth))] /\ Goto(t, "begin")
        /\ UNCHANGED <<server, held, kept>>
        /\ pc[t] \in {"holding", "body"} /\ (pc[t] = "body" => cl.depth < MaxDepth)
    BY <1>11, <1>13 DEF Begin, BeginTransaction, c, cl
  <2>2. /\ EndsOK(Sent(cl, t, BeginSql(cl.depth)), sv)
        /\ InUse(t, "begin", Sent(cl, t, BeginSql(cl.depth)), sv, S)
    BY <1>3, <1>5, <1>10, <2>1, SendsBegin
  <2> QED
    BY <1>9, <1>12, <2>1, <2>2 DEF InFlight
<1>14. CASE BeginReturns(t)
  <2> DEFINE cl2 == Settled(cl, Deeper(cl))
  <2>1. /\ client' = [client EXCEPT ![c] = cl2] /\ Goto(t, "body")
        /\ UNCHANGED <<server, held, kept>>
        /\ pc[t] = "begin" /\ cl.answer = "ok"
    BY <1>11, <1>14 DEF BeginReturns, c, cl
  <2>2. Takes(cl, cl2, Deeper(cl))
    BY <1>6, <1>11, <2>1
  <2>3. EndsOK(cl2, sv) /\ InUse(t, "body", cl2, sv, S)
    BY <1>3, <2>1, <2>2, TakesBegun
  <2> QED
    BY <1>9, <1>12, <2>1, <2>3
<1>15. CASE BeginFails(t)
  <2> DEFINE cl2 == Settled(cl, cl.depth)
             p == IF cl.depth = 0 THEN "leaving" ELSE "body"
  <2>1. /\ client' = [client EXCEPT ![c] = cl2] /\ Goto(t, p)
        /\ UNCHANGED <<server, held, kept>>
        /\ pc[t] = "begin" /\ cl.answer = "err"
    BY <1>11, <1>15 DEF BeginFails, Finish, c, cl
  <2>2. Takes(cl, cl2, cl.depth)
    BY <1>2, <1>6, <2>1
  <2>3. EndsOK(cl2, sv) /\ InUse(t, p, cl2, sv, S)
    BY <1>3, <2>1, <2>2, TakesNotBegun
  <2> QED
    BY <1>9, <1>12, <2>1, <2>3
<1>16. CASE ExecuteStatement(t)
  <2>1. /\ client' = [client EXCEPT ![c] = Sent(cl, t, "EXECUTE")] /\ Goto(t, "execute")
        /\ UNCHANGED <<server, held, kept>>
        /\ pc[t] \in {"holding", "body"}
    BY <1>16 DEF ExecuteStatement, Execute, c, cl
  <2>2. EndsOK(Sent(cl, t, "EXECUTE"), sv) /\ InUse(t, "execute", Sent(cl, t, "EXECUTE"), sv, S)
    BY <1>3, <1>5, <1>10, <2>1, SendsExecute
  <2> QED
    BY <1>9, <1>12, <2>1, <2>2 DEF InFlight
<1>17. CASE ExecuteReturns(t)
  <2> DEFINE cl2 == Returned(cl)
             p == IF cl.depth = 0 THEN "leaving" ELSE "body"
             S2 == S \cup {cl.depth}
  <2>1. /\ client' = [client EXCEPT ![c] = cl2] /\ Goto(t, p)
        /\ kept' = [kept EXCEPT ![t] = S2]
        /\ UNCHANGED <<server, held>>
        /\ pc[t] = "execute" /\ cl.answer = "ok"
    BY <1>11, <1>17 DEF ExecuteReturns, Finish, c, cl, S
  <2>2. Takes(cl, cl2, cl.depth)
    BY <1>7, <2>1
  <2>3. InUse(t, "execute", cl, sv, S) /\ cl.answer = "ok"
    BY <1>3, <2>1
  <2> HIDE DEF cl2
  <2>4. EndsOK(cl2, sv) /\ S2 \subseteq Depth /\ InUse(t, p, cl2, sv, S2)
    BY <1>3, <2>2, <2>3, TakesExecuted
  <2> QED
    BY <1>8, <1>12, <2>1, <2>4
<1>18. CASE ExecuteFails(t)
  <2> DEFINE cl2 == Returned(cl)
  <2>1. /\ client' = [client EXCEPT ![c] = cl2] /\ Goto(t, "leaving")
        /\ UNCHANGED <<server, held, kept>>
        /\ pc[t] = "execute" /\ cl.answer = "err" /\ cl.depth = 0
    BY <1>11, <1>18 DEF ExecuteFails, Finish, c, cl
  <2>2. Takes(cl, cl2, cl.depth)
    BY <1>7, <2>1
  <2>3. EndsOK(cl2, sv) /\ InUse(t, "leaving", cl2, sv, S)
    BY <1>3, <2>1, <2>2, TakesNotExecuted
  <2> QED
    BY <1>9, <1>12, <2>1, <2>3
<1>19. ASSUME pc[t] = "body" \/ (pc[t] = "execute" /\ cl.depth > 0 /\ cl.answer = "err"),
              RollbackTransaction(c, t), Goto(t, "rollback"), UNCHANGED <<server, held, kept>>
       PROVE  SessionInv'
  <2>1. client' = [client EXCEPT ![c] = Sent(cl, t, RollbackSql(cl.depth))]
    BY <1>19 DEF RollbackTransaction, cl
  <2>2. /\ EndsOK(Sent(cl, t, RollbackSql(cl.depth)), sv)
        /\ InUse(t, "rollback", Sent(cl, t, RollbackSql(cl.depth)), sv, S)
    BY <1>3, <1>5, <1>10, <1>19, SendsRollback
  <2> QED
    BY <1>9, <1>12, <1>19, <2>1, <2>2 DEF InFlight
<1>20. CASE ExecuteUnwinds(t)
  BY <1>11, <1>19, <1>20 DEF ExecuteUnwinds, c
<1>21. CASE Commit(t)
  <2>1. /\ client' = [client EXCEPT ![c] = Sent(cl, t, CommitSql(cl.depth))] /\ Goto(t, "commit")
        /\ UNCHANGED <<server, held, kept>>
        /\ pc[t] = "body"
    BY <1>21 DEF Commit, CommitTransaction, c, cl
  <2>2. /\ EndsOK(Sent(cl, t, CommitSql(cl.depth)), sv)
        /\ InUse(t, "commit", Sent(cl, t, CommitSql(cl.depth)), sv, S)
    BY <1>3, <1>5, <1>10, <2>1, SendsCommit
  <2> QED
    BY <1>9, <1>12, <2>1, <2>2 DEF InFlight
<1>22. CASE CommitReturns(t)
  <2> DEFINE cl2 == Settled(cl, Shallower(cl))
             p == IF EndedBy(cl) = 1 THEN "leaving" ELSE "body"
             S2 == Merged(S, EndedBy(cl))
  <2>1. /\ client' = [client EXCEPT ![c] = cl2] /\ Goto(t, p)
        /\ kept' = [kept EXCEPT ![t] = S2]
        /\ UNCHANGED <<server, held>>
        /\ pc[t] = "commit" /\ cl.answer = "ok"
    BY <1>11, <1>22 DEF CommitReturns, Finish, c, cl, S
  <2>2. Takes(cl, cl2, Shallower(cl))
    BY <1>6, <1>11, <2>1
  <2>3. InUse(t, "commit", cl, sv, S) /\ cl.answer = "ok"
    BY <1>3, <2>1
  <2> HIDE DEF cl2
  <2>4. EndsOK(cl2, sv) /\ InUse(t, p, cl2, sv, S2) /\ S2 \subseteq Depth
    BY <1>3, <2>2, <2>3, TakesCommitted
  <2> QED
    BY <1>8, <1>12, <2>1, <2>4
<1>23. CASE CommitUndone(t)
  <2>1. /\ client' = [client EXCEPT ![c] = Sent(cl, t, RollbackSql(cl.depth))] /\ Goto(t, "undo")
        /\ UNCHANGED <<server, held, kept>>
        /\ Arm = "pg" /\ pc[t] = "commit" /\ cl.answer = "err"
    BY <1>11, <1>23 DEF CommitUndone, RollbackTransaction, c, cl
  <2>2. /\ EndsOK(Sent(cl, t, RollbackSql(cl.depth)), sv)
        /\ InUse(t, "undo", Sent(cl, t, RollbackSql(cl.depth)), sv, S)
    BY <1>3, <1>5, <1>10, <2>1, SendsUndo
  <2> QED
    BY <1>9, <1>12, <2>1, <2>2 DEF InFlight
<1>24. CASE Rollback(t)
  BY <1>19, <1>24 DEF Rollback, c
<1>25. CASE RollbackReturns(t)
  <2> DEFINE cl2 == Settled(cl, Shallower(cl))
             p == IF EndedBy(cl) = 1 THEN "leaving" ELSE "body"
             S2 == S \ {EndedBy(cl)}
  <2>1. /\ client' = [client EXCEPT ![c] = cl2] /\ Goto(t, p)
        /\ kept' = [kept EXCEPT ![t] = S2]
        /\ UNCHANGED <<server, held>>
    BY <1>11, <1>25 DEF RollbackReturns, Finish, c, cl, S
  <2>2. /\ pc[t] \in {"rollback", "undo", "commit"} /\ cl.answer # "none"
        /\ IF pc[t] = "commit" THEN Arm = "sqlite" /\ cl.depth = 0 ELSE cl.answer = "ok"
    BY <1>11, <1>25 DEF RollbackReturns
  <2>3. Takes(cl, cl2, Shallower(cl))
    BY <1>6, <1>11, <2>2
  <2>4. EndsOK(cl2, sv) /\ InUse(t, p, cl2, sv, S2)
    BY <1>3, <2>2, <2>3, TakesUndone
  <2>5. S2 \subseteq Depth
    BY <1>3
  <2> QED
    BY <1>8, <1>12, <2>1, <2>4, <2>5
<1>26. CASE RollbackFails(t)
  <2> DEFINE cl2 == [Settled(cl, cl.depth) EXCEPT !.inError = TRUE]
  <2>1. /\ client' = [client EXCEPT ![c] = cl2] /\ Goto(t, "leaving")
        /\ UNCHANGED <<server, held, kept>>
        /\ pc[t] \in {"rollback", "undo"} /\ cl.answer = "err"
    BY <1>11, <1>26 DEF RollbackFails, Finish, c, cl
  <2>2. Takes(cl, cl2, cl.depth)
    <3>1. Takes(cl, Settled(cl, cl.depth), cl.depth) /\ Settled(cl, cl.depth) \in ClientShape
      BY <1>2, <1>6, <2>1, SettledFacts DEF Sound
    <3> QED
      BY <3>1 DEF Takes, Calm, ClientShape
  <2>3. EndsOK(cl2, sv) /\ InUse(t, "leaving", cl2, sv, S)
    BY <1>3, <2>1, <2>2, TakesNotUndone
  <2> QED
    BY <1>9, <1>12, <2>1, <2>3
<1>27. CASE CommitRefused(t)
  <2> DEFINE cl2 == Settled(cl, cl.depth)
             p == IF cl.depth = 1 THEN "leaving" ELSE "body"
  <2>1. /\ client' = [client EXCEPT ![c] = cl2] /\ Goto(t, p)
        /\ UNCHANGED <<server, held, kept>>
        /\ pc[t] = "commit" /\ cl.answer = "err" /\ cl.depth > 0
    BY <1>11, <1>27 DEF CommitRefused, Finish, c, cl
  <2>2. Takes(cl, cl2, cl.depth)
    BY <1>2, <1>6, <2>1
  <2>3. EndsOK(cl2, sv) /\ InUse(t, p, cl2, sv, S)
    BY <1>3, <2>1, <2>2, TakesNotCommitted
  <2> QED
    BY <1>9, <1>12, <2>1, <2>3
<1> QED
  BY <1>13, <1>14, <1>15, <1>16, <1>17, <1>18, <1>20, <1>21, <1>22, <1>23, <1>24, <1>25, <1>26,
     <1>27
  DEF Work, Leave

\* A connection that nobody works with is at rest, on both sides.
LEMMA AtRest ==
    ASSUME NEW c \in Conn, PoolInv, SessionInv, \A u \in Task : pc[u] \in InHands => held[u] # c
    PROVE  EndsOK(client[c], server[c]) /\ Resting(client[c], server[c])
BY DEF SessionInv, EndsInOrder, RestInOrder, AtWork

\* A discarded connection, as a relation.
LEMMA DiscardedGone ==
    ASSUME NEW cl \in ClientShape, Sound(cl)
    PROVE  Gone(cl, Discarded(cl))
BY DiscardedFacts DEF Gone

\* A live connection that nobody works with is discarded by a checkout.
LEMMA DiscardInOrder ==
    ASSUME NEW t \in Task, NEW c \in Conn, NEW p \in {"acquired", "done"}, PoolInv, SessionInv,
           pc[t] \in {"acquired", "pinging"}, MovedTo(t, p), Live(client[c]),
           \A u \in Task \ {t} : held[u] # c /\ held'[u] = held[u],
           client' = [client EXCEPT ![c] = Discarded(@)], UNCHANGED <<server, kept>>
    PROVE  SessionInv'
<1>1. Sound(client[c]) /\ client[c] \in ClientShape
  BY DEF PoolInv, PoolShape, ConnShape
<1>2. /\ client'[c] = Discarded(client[c]) /\ server'[c] = server[c]
      /\ \A d \in Conn \ {c} : client'[d] = client[d] /\ server'[d] = server[d]
  BY DEF PoolInv, PoolShape, ConnShape
<1>3. EndsOK(client[c], server[c])
  BY DEF SessionInv, EndsInOrder
<1>4. EndsOK(client'[c], server'[c]) /\ Resting(client'[c], server'[c])
  BY <1>1, <1>2, <1>3, DiscardedGone, GoneToRest
<1>5. Only(t, c)
  BY <1>2 DEF Only, MovedTo, InHands, InFlight
<1>6. kept'[t] = {} /\ kept'[t] \subseteq Depth
  BY DEF SessionInv, KeptInOrder, Before
<1>7. p \notin InHands /\ p # "pinging"
  BY DEF InHands, InFlight
<1> QED
  BY <1>4, <1>5, <1>6, <1>7, OnlyInOrder DEF PoolInv, MovedTo

\* The first idle connection is live, and in nobody's hands.
LEMMA HeadOfIdle ==
    ASSUME PoolInv, idle # <<>>
    PROVE  /\ Head(idle) \in Conn /\ Live(client[Head(idle)])
           /\ \A u \in Task : held[u] # Head(idle)
<1>1. idle \in Seq(Conn)
  BY DEF PoolInv, PoolShape
<1>2. 1 \in DOMAIN idle /\ Head(idle) = idle[1] /\ Head(idle) \in Conn
  BY <1>1, TailFacts, HeadTail
<1> QED
  BY <1>2 DEF PoolInv, Ownership, Owned

\* Each step of a checkout keeps the connections in order.
LEMMA CheckoutSession ==
    ASSUME NEW t \in Task, PoolInv, SessionInv, Checkout(t)
    PROVE  SessionInv'
<1>1. \A p \in Places : Goto(t, p) => MovedTo(t, p)
  BY GotoMoves DEF PoolInv
<1>2. \A p \in Places, r \in Results : Finish(t, p, r) => MovedTo(t, p)
  BY FinishMoves DEF PoolInv
<1> USE DEF Places, Awaits
<1>3. /\ {"new", "waiting", "granted", "acquired", "creating", "done"} \subseteq Places \ Owning
      /\ {"new", "waiting", "granted", "acquired", "creating"} \subseteq Before
  BY DEF Owning, InHands, InFlight, Before
<1>4. CASE Get(t)
  <2>1. MovedTo(t, "waiting") /\ pc[t] = "new" /\ UNCHANGED <<connVars, held, kept>>
    BY <1>1, <1>4 DEF Get
  <2> QED
    BY <1>3, <2>1, NoneInOrder
<1>5. CASE Grant(t)
  <2>1. MovedTo(t, "granted") /\ pc[t] = "waiting" /\ UNCHANGED <<connVars, held, kept>>
    BY <1>1, <1>5 DEF Grant
  <2> QED
    BY <1>3, <2>1, NoneInOrder
<1>13. CASE Acquire(t)
  <2>1. MovedTo(t, "acquired") /\ pc[t] = "granted" /\ UNCHANGED <<connVars, held, kept>>
    BY <1>1, <1>13 DEF Acquire
  <2> QED
    BY <1>3, <2>1, NoneInOrder
<1>6. CASE Recycle(t)
  <2> DEFINE c == Head(idle)
  <2>1. /\ pc[t] = "acquired" /\ idle # <<>>
        /\ client[c].depth = 0 \/ client[c].depth < 0
        /\ Arm = "sqlite" => client[c].wire = "none"
    <3>1. client[c].depth \in Int
      BY <1>6, HeadOfIdle DEF Recycle, PoolInv, PoolShape, ConnShape, ClientShape
    <3> QED
      BY <1>6, <3>1 DEF Recycle, IsBrokenTransactionManager, Shared
  <2>2. c \in Conn /\ \A u \in Task : held[u] # c
    BY <2>1, HeadOfIdle
  <2>3. /\ MovedTo(t, "pinging") /\ Holds(t, c) /\ UNCHANGED <<client, server, kept>>
    BY <1>1, <1>6, <2>2, HoldsMoves DEF Recycle, connVars, PoolInv
  <2>4. EndsOK(client[c], server[c]) /\ Resting(client[c], server[c])
    BY <2>2, AtRest
  <2>5. UnderTest(client[c])
    <3>1. client[c].depth = 0
      BY <2>1, <2>4, DepthAssumption DEF EndsOK, Depth
    <3> QED
      BY <2>1, <3>1 DEF UnderTest
  <2>6. Only(t, c)
    BY <2>1, <2>2, <2>3 DEF Only, MovedTo, Holds, InHands, InFlight
  <2>7. kept'[t] = {} /\ kept'[t] \subseteq Depth
    BY <2>1, <2>3 DEF SessionInv, KeptInOrder, Before
  <2>8. pc'[t] = "pinging" /\ held'[t] = c /\ "pinging" \notin InHands
    BY <2>3 DEF MovedTo, Holds, InHands, InFlight
  <2> QED
    BY <2>2, <2>3, <2>4, <2>5, <2>6, <2>7, <2>8, OnlyInOrder DEF PoolInv
<1>7. CASE RecycleBroken(t)
  <2>1. /\ pc[t] = "acquired" /\ idle # <<>> /\ MovedTo(t, "acquired")
        /\ client' = [client EXCEPT ![Head(idle)] = Discarded(@)]
        /\ UNCHANGED <<server, kept, held>>
    BY <1>7 DEF RecycleBroken, taskVars, MovedTo
  <2> QED
    BY <2>1, HeadOfIdle, DiscardInOrder
<1>8. CASE RecyclePanics(t)
  <2>1. /\ pc[t] = "acquired" /\ idle # <<>> /\ MovedTo(t, "done")
        /\ client' = [client EXCEPT ![Head(idle)] = Discarded(@)]
        /\ UNCHANGED <<server, kept, held>>
    BY <1>2, <1>8 DEF RecyclePanics, Results
  <2> QED
    BY <2>1, HeadOfIdle, DiscardInOrder
<1>9. CASE PingAnswered(t)
  <2> DEFINE c == held[t]
  <2>1. /\ pc[t] = "pinging" /\ pc[t] \in Owning /\ client[c].wire = "none" /\ Open(client[c])
        /\ UNCHANGED <<client, server, kept, held>>
    BY <1>9 DEF PingAnswered, connVars, Responds, Open, Owning
  <2>2. MovedTo(t, "holding")
    BY <1>1, <1>9 DEF PingAnswered
  <2>3. c \in Conn /\ \A u \in Task \ {t} : held[u] # c
    BY <2>1, OwnConnection
  <2>4. EndsOK(client[c], server[c]) /\ Resting(client[c], server[c])
    BY <2>1, <2>3, AtRest DEF InHands, InFlight
  <2>5. UnderTest(client[c]) /\ kept[t] = {}
    BY <2>1 DEF SessionInv, TestsInOrder, KeptInOrder, Before
  <2>6. InUse(t, "holding", client[c], server[c], {})
    BY <2>1, <2>4, <2>5, HandedOut
  <2>7. Only(t, c)
    BY <2>1, <2>2, <2>3 DEF Only, MovedTo
  <2>8. pc'[t] = "holding" /\ held'[t] = c /\ "holding" \in InHands /\ "holding" \notin Before
        /\ kept'[t] = {} /\ client'[c] = client[c] /\ server'[c] = server[c]
    BY <2>1, <2>2, <2>5 DEF MovedTo, InHands, Before
  <2> QED
    BY <2>3, <2>4, <2>6, <2>7, <2>8, OnlyInOrder DEF PoolInv
<1>10. CASE PingFails(t)
  <2>1. /\ pc[t] = "pinging" /\ pc[t] \in Owning /\ MovedTo(t, "acquired")
        /\ client' = [client EXCEPT ![held[t]] = Discarded(@)]
        /\ held' = [held EXCEPT ![t] = NoConn]
        /\ UNCHANGED <<server, kept>>
    BY <1>1, <1>10 DEF PingFails, Owning
  <2>2. \A u \in Task \ {t} : held'[u] = held[u]
    BY <2>1 DEF PoolInv, PoolShape
  <2> QED
    BY <2>1, <2>2, OwnConnection, DiscardInOrder
<1>11. CASE Create(t)
  <2>1. MovedTo(t, "creating") /\ pc[t] = "acquired" /\ UNCHANGED <<connVars, held, kept>>
    BY <1>1, <1>11 DEF Create
  <2> QED
    BY <1>3, <2>1, NoneInOrder
<1>12. CASE Created(t)
  <2>1. PICK c \in Conn : Establish(c) /\ held' = [held EXCEPT ![t] = c]
    BY <1>12 DEF Created
  <2>2. /\ client'[c] = NewClient /\ server'[c] = NoTransaction
        /\ \A d \in Conn \ {c} : client'[d] = client[d] /\ server'[d] = server[d]
    BY <2>1 DEF Establish, PoolInv, PoolShape, ConnShape
  <2>3. \A u \in Task : held[u] # c
    BY <2>1 DEF Establish, Live, PoolInv, Ownership, Owned
  <2>4. /\ pc[t] = "creating" /\ MovedTo(t, "holding") /\ UNCHANGED kept
        /\ held'[t] = c /\ \A u \in Task \ {t} : held'[u] = held[u]
    BY <1>1, <1>12, <2>1 DEF Created, PoolInv, PoolShape
  <2>5. kept[t] = {}
    BY <2>4 DEF SessionInv, KeptInOrder, Before
  <2>6. EndsOK(NewClient, NoTransaction)
    BY NewClientFacts, NoTransactionFacts, DepthAssumption DEF EndsOK, WireFits, Depth
  <2>7. Resting(NewClient, NoTransaction) /\ UnderTest(NewClient) /\ Open(NewClient)
    BY NewClientFacts, NoTransactionFacts DEF Resting, AtTop, UnderTest, Open
  <2>8. InUse(t, "holding", NewClient, NoTransaction, {})
    BY <2>6, <2>7, NewClientFacts, HandedOut
  <2>9. Only(t, c)
    BY <2>2, <2>3, <2>4 DEF Only, MovedTo, InHands, InFlight
  <2>10. /\ pc'[t] = "holding" /\ "holding" \in InHands /\ "holding" \notin Before
         /\ kept'[t] = {}
    BY <2>4, <2>5 DEF MovedTo, InHands, Before
  <2> HIDE DEF NewClient, NoTransaction
  <2> QED
    BY <2>2, <2>4, <2>6, <2>8, <2>9, <2>10, OnlyInOrder DEF PoolInv
<1> QED
  BY <1>4, <1>5, <1>6, <1>7, <1>8, <1>9, <1>10, <1>11, <1>12, <1>13 DEF Checkout

\* Leaving, timeouts and cancellations keep the connections in order.
LEMMA EndSession ==
    ASSUME NEW t \in Task, PoolInv, SessionInv,
           \/ Leave(t) \/ WaitTimeout(t) \/ CreateFails(t) \/ Cancel(t)
    PROVE  SessionInv'
<1>1. "done" \in Places \ Owning /\ "done" \notin Before /\ "done" \notin InHands
  BY DEF Places, Owning, InHands, InFlight, Before
<1>2. Goto(t, "done") => MovedTo(t, "done")
  BY <1>1, GotoMoves DEF PoolInv
<1>3. \A r : Finish(t, "done", r) => MovedTo(t, "done")
  BY <1>2 DEF Finish
<1>4. ASSUME pc[t] \in {"waiting", "granted", "creating"}, MovedTo(t, "done"),
             UNCHANGED <<connVars, held, kept>>
      PROVE  SessionInv'
  <2>1. pc[t] \notin Owning
    BY <1>4 DEF Owning, InHands, InFlight
  <2> QED
    BY <1>1, <1>4, <2>1, NoneInOrder
<1>5. ASSUME pc[t] \in InHands, MovedTo(t, "done"), held' = [held EXCEPT ![t] = NoConn],
             \A d \in Conn \ {held[t]} : client'[d] = client[d] /\ server'[d] = server[d],
             EndsOK(client'[held[t]], server'[held[t]]), Resting(client'[held[t]], server'[held[t]]),
             UNCHANGED kept
      PROVE  SessionInv'
  <2>1. held[t] \in Conn /\ \A u \in Task \ {t} : held[u] # held[t]
    BY <1>5, OwnConnection DEF Owning
  <2>2. \A u \in Task \ {t} : held'[u] = held[u]
    BY <1>5 DEF PoolInv, PoolShape
  <2>3. Only(t, held[t])
    BY <1>5, <2>1, <2>2 DEF Only, MovedTo
  <2>4. kept'[t] \subseteq Depth
    BY <1>5 DEF SessionInv, KeptInOrder
  <2> QED
    BY <1>1, <1>5, <2>1, <2>3, <2>4, OnlyInOrder DEF PoolInv, MovedTo
<1>6. pc[t] \in InHands => /\ EndsOK(client[held[t]], server[held[t]])
                           /\ InUse(t, pc[t], client[held[t]], server[held[t]], kept[t])
  BY OwnConnection DEF Owning, SessionInv, EndsInOrder, HandsInOrder
<1>7. CASE Leave(t)
  <2>1. pc[t] = "leaving" /\ pc[t] \in InHands
    BY <1>7 DEF Leave, InHands
  <2>2. Resting(client[held[t]], server[held[t]])
    BY <1>6, <2>1, ReturnedToRest
  <2>3. /\ Goto(t, "done") /\ held' = [held EXCEPT ![t] = NoConn]
        /\ UNCHANGED <<client, server, kept>>
    BY <1>7 DEF Leave, GiveBack, connVars
  <2> QED
    BY <1>2, <1>5, <1>6, <2>1, <2>2, <2>3
<1>8. CASE WaitTimeout(t)
  BY <1>3, <1>4, <1>8 DEF WaitTimeout, GiveUp
<1>9. CASE CreateFails(t)
  BY <1>3, <1>4, <1>9 DEF CreateFails
<1>10. CASE CancelWait(t)
  BY <1>3, <1>4, <1>10 DEF CancelWait, GiveUp
<1>11. CASE CancelCreate(t)
  BY <1>3, <1>4, <1>11 DEF CancelCreate
<1>12. CASE CancelPing(t)
  <2>1. /\ pc[t] = "pinging" /\ pc[t] \in Owning /\ MovedTo(t, "done")
        /\ client' = [client EXCEPT ![held[t]] = Discarded(@)]
        /\ held' = [held EXCEPT ![t] = NoConn]
        /\ UNCHANGED <<server, kept>>
    BY <1>3, <1>12 DEF CancelPing, Owning
  <2>2. \A u \in Task \ {t} : held'[u] = held[u]
    BY <2>1 DEF PoolInv, PoolShape
  <2> QED
    BY <2>1, <2>2, OwnConnection, DiscardInOrder
<1>13. CASE CancelWork(t)
  <2> DEFINE c == held[t]
             cut == server[c].cut \/ (Arm = "pg" /\ pc[t] = "begin" /\ Level(t) = 0)
             sv2 == [server[c] EXCEPT !.cut = cut]
  <2>1. /\ pc[t] \in InFlight \cup {"holding", "body"} /\ pc[t] \in InHands /\ pc[t] \in Owning
        /\ MovedTo(t, "done") /\ held' = [held EXCEPT ![t] = NoConn] /\ UNCHANGED kept
    BY <1>3, <1>13 DEF CancelWork, GiveBack, InHands, Owning
  <2>2. c \in Conn /\ Typed(client[c], server[c]) /\ client[c] \in ClientShape
    BY <2>1, OwnConnection
  <2>3. /\ client' = [client EXCEPT ![c] = Dropped(client[c])]
        /\ server' = [server EXCEPT ![c] = sv2]
    BY <1>13 DEF CancelWork
  <2>4. /\ client'[c] = Dropped(client[c]) /\ server'[c] = sv2
        /\ \A d \in Conn \ {c} : client'[d] = client[d] /\ server'[d] = server[d]
    BY <2>2, <2>3 DEF PoolInv, PoolShape, ConnShape
  <2>5. /\ sv2.depth = server[c].depth /\ sv2.pend = server[c].pend
        /\ sv2.cut <=> (server[c].cut \/ (Arm = "pg" /\ pc[t] = "begin" /\ client[c].depth = 0))
    BY <2>2 DEF Typed, ServerShape, Level, Cl
  <2> HIDE DEF sv2
  <2>6. Drops(pc[t], client[c], server[c], client'[c], server'[c])
    BY <2>2, <2>4, <2>5, DroppedFacts DEF Drops, Typed
  <2>7. EndsOK(client'[c], server'[c]) /\ Resting(client'[c], server'[c])
    BY <1>6, <2>1, <2>2, <2>6, DropsToRest
  <2> QED
    BY <1>5, <2>1, <2>4, <2>7
<1> QED
  BY <1>7, <1>8, <1>9, <1>10, <1>11, <1>12, <1>13 DEF Cancel

-----------------------------------------------------------------------------
(* The invariant and what it says of the pool.                             *)

\* At first there is no connection at all.
LEMMA InitSession == Init => SessionInv
<1> SUFFICES ASSUME Init PROVE SessionInv
  OBVIOUS
<1>1. \A c \in Conn : client[c] = NoClient /\ server[c] = NoTransaction
  BY DEF Init, ConnInit
<1>2. EndsOK(NoClient, NoTransaction)
  BY NoClientFacts, NoTransactionFacts, DepthAssumption DEF EndsOK, Depth
<1>3. Resting(NoClient, NoTransaction)
  BY NoClientFacts DEF Resting, Open
<1>4. \A t \in Task : pc[t] = "new" /\ kept[t] = {}
  BY DEF Init
<1> HIDE DEF NoClient, NoTransaction
<1>5. EndsInOrder /\ RestInOrder
  BY <1>1, <1>2, <1>3 DEF EndsInOrder, RestInOrder
<1>6. HandsInOrder /\ TestsInOrder /\ KeptInOrder
  BY <1>4 DEF HandsInOrder, TestsInOrder, KeptInOrder, InHands, InFlight
<1> QED
  BY <1>5, <1>6 DEF SessionInv

\* Every step keeps the connections in order.
LEMMA StepSession ==
    ASSUME PoolInv, SessionInv, [Next]_vars
    PROVE  SessionInv'
<1>1. ASSUME NEW t \in Task, TaskStep(t) PROVE SessionInv'
  <2>1. CASE Checkout(t)
    BY <2>1, CheckoutSession
  <2>2. CASE Work(t) /\ pc[t] # "leaving"
    BY <2>2, WorkSession
  <2>3. CASE Work(t) /\ pc[t] = "leaving"
    <3>1. Leave(t)
      BY <2>3 DEF Work, Begin, BeginReturns, BeginFails, ExecuteStatement, ExecuteReturns,
                  ExecuteFails, ExecuteUnwinds, Commit, CommitReturns, CommitRefused, CommitUndone, Rollback,
                  RollbackReturns, RollbackFails
    <3> QED
      BY <3>1, EndSession
  <2>4. CASE WaitTimeout(t) \/ CreateFails(t) \/ Cancel(t)
    BY <2>4, EndSession
  <2> QED
    BY <1>1, <2>1, <2>2, <2>3, <2>4 DEF TaskStep
<1>2. ASSUME NEW c \in Conn, ConnStep(c) PROVE SessionInv'
  BY <1>2, ServerInOrder
<1>3. CASE UNCHANGED vars
  <2>1. UNCHANGED <<client, server, pc, held, kept>>
    BY <1>3 DEF vars
  <2>2. \A c \in Conn : AtWork(c)' <=> AtWork(c)
    BY <2>1 DEF AtWork
  <2> QED
    BY <2>1, <2>2 DEF SessionInv, EndsInOrder, RestInOrder, HandsInOrder, TestsInOrder, KeptInOrder
<1> QED
  BY <1>1, <1>2, <1>3 DEF Next, Rest

\* Every connection is in order, in every reachable state.
THEOREM SessionInvHolds == Spec => [](PoolInv /\ SessionInv)
<1>1. Init => SessionInv
  BY InitSession
<1>2. PoolInv /\ SessionInv /\ [Next]_vars => SessionInv'
  BY StepSession
<1> QED
  BY <1>1, <1>2, PoolInvHolds, PTL DEF Spec

\* Every variable stays in its type: no depth leaves its bounds, on either side
\* of a connection, and permits never exceed max_size.
THEOREM TypesHold == Spec => []TypeOK
<1>1. PoolInv /\ SessionInv => TypeOK
  <2> SUFFICES ASSUME PoolInv, SessionInv PROVE TypeOK
    OBVIOUS
  <2>1. \A c \in Conn : client[c] \in ClientShape /\ client[c].depth \in Depth
                        => client[c] \in ClientEnd
    BY DEF ClientShape, ClientEnd
  <2>2. client \in [Conn -> ClientEnd]
    BY <2>1 DEF PoolInv, PoolShape, ConnShape, SessionInv, EndsInOrder, EndsOK
  <2>3. ASSUME NEW c \in Conn PROVE server[c] \in ServerEnd
    <3>1. /\ server[c] \in ServerShape /\ server[c].depth \in Depth
          /\ server[c].pend \subseteq Task \X (1 .. server[c].depth)
      BY DEF PoolInv, PoolShape, ConnShape, SessionInv, EndsInOrder, EndsOK
    <3>2. 1 .. server[c].depth \subseteq 1 .. MaxDepth
      BY <3>1, DepthAssumption DEF Depth
    <3>3. server[c].pend \subseteq Task \X (1 .. MaxDepth)
      BY <3>1, <3>2
    <3> QED
      BY <3>1, <3>3 DEF ServerShape, ServerEnd
  <2>4. server \in [Conn -> ServerEnd]
    BY <2>3 DEF PoolInv, PoolShape, ConnShape
  <2>5. ConnTypeOK
    BY <2>2, <2>4 DEF ConnTypeOK, PoolInv, PoolShape, ConnShape
  <2>6. kept \in [Task -> SUBSET Depth]
    BY DEF PoolInv, PoolShape, SessionInv, KeptInOrder
  <2>7. permits \in 0 .. MaxSize
    <3>1. /\ permits \in Nat /\ permits + Cardinality(Admitted) = MaxSize
          /\ Cardinality(Admitted) \in Nat
      BY CountTasks DEF PoolInv, Counting, Admitted
    <3> QED
      BY <3>1, PoolAssumption
  <2> QED
    BY <2>5, <2>6, <2>7 DEF TypeOK, PoolInv, PoolShape
<1> QED
  BY <1>1, SessionInvHolds, PTL

\* The status of the transaction manager, the session of the database and the
\* task's account of its writes agree whenever the task can act on the first,
\* whatever was cancelled, lost or refused before.
THEOREM AlwaysAgree == Spec => []Agreement
<1>1. PoolInv /\ SessionInv => Agreement
  <2> SUFFICES ASSUME PoolInv, SessionInv, NEW t \in Task, pc[t] \in {"holding", "body"},
                      Cl(t).life = "open", ~server[held[t]].cut
               PROVE  /\ server[held[t]].depth = Cl(t).depth
                      /\ server[held[t]].pend = {t} \X kept[t]
    BY DEF Agreement
  <2>1. InUse(t, pc[t], client[held[t]], server[held[t]], kept[t])
    BY DEF SessionInv, HandsInOrder, InHands
  <2>2. AtLevel(t, server[held[t]], client[held[t]].depth, kept[t])
    <3>1. CASE pc[t] = "holding"
      <4>1. client[held[t]].depth = 0 /\ kept[t] = {} /\ AtLevel(t, server[held[t]], 0, {})
        BY <2>1, <3>1 DEF InUse, Cl, Open
      <4> QED
        BY <4>1
    <3>2. CASE pc[t] = "body"
      BY <2>1, <3>2 DEF InUse, Cl, Open
    <3> QED
      BY <3>1, <3>2
  <2> QED
    BY <2>2 DEF AtLevel, AtTop, Cl
<1> QED
  BY <1>1, SessionInvHolds, PTL

\* No checkout hands out a connection with an open transaction of an earlier
\* user, at whatever await that user was dropped, except for a BEGIN cut off on
\* Postgres.
THEOREM AlwaysCleanUnlessCut == Spec => []CleanUnlessCut
<1>1. PoolInv /\ SessionInv => CleanUnlessCut
  <2> SUFFICES ASSUME PoolInv, SessionInv, NEW t \in Task, pc[t] = "holding",
                      ~server[held[t]].cut
               PROVE  server[held[t]].depth = 0 /\ server[held[t]].pend = {}
    BY DEF CleanUnlessCut
  <2> DEFINE cl == client[held[t]]
             sv == server[held[t]]
  <2>1. InUse(t, "holding", cl, sv, kept[t]) /\ held[t] \in Conn
    BY DEF SessionInv, HandsInOrder, InHands, PoolInv, PoolShape, Owning
  <2>2. EndsOK(cl, sv)
    BY <2>1 DEF SessionInv, EndsInOrder
  <2>3. sv.depth = 0
    BY <2>1, <2>2 DEF InUse, Open, AtLevel, AtTop, EndsOK
  <2>4. 1 .. 0 = {}
    OBVIOUS
  <2> QED
    BY <2>2, <2>3, <2>4 DEF EndsOK
<1> QED
  BY <1>1, SessionInvHolds, PTL

-----------------------------------------------------------------------------
(***************************************************************************)
(* What callers are told: no work becomes durable behind its caller's      *)
(* back, and the pool keeps the promise of Outcomes.                       *)
(*                                                                         *)
(* Both rest on BeginsWhole: no future is dropped while a BEGIN of the     *)
(* Postgres arm is out.  Without it they are false: the next user of the   *)
(* connection works inside the transaction that the cut-off BEGIN opened,  *)
(* is told its write is done, and has it undone or made durable later.     *)
(***************************************************************************)
BeginsWhole == Arm = "sqlite" \/ "begin" \notin CancelAt

\* The task's caller still waits for an answer.
Waits(p) == p \notin {"leaving", "done"}

\* The statement on the wire of a session works on its sender's writes alone,
\* and if nobody waits for its answer the sender's future was dropped.  R is
\* what the callers were told.
WireOwn(cl, sv, R) ==
    cl.wire # "none" =>
        /\ cl.life \in {"open", "closing"} => Writers(sv.pend) \subseteq {cl.by}
        /\ ~cl.heard => R[cl.by] = "dropped"

\* The work of a task at place p is durable and the task about to hear of it.
Done(p, cl, S) ==
    /\ cl.answer = "ok"
    /\ \/ p = "execute" /\ cl.depth = 0
       \/ p = "commit" /\ EndedBy(cl) = 1 /\ S # {}

\* It may be durable: the session went before the answer arrived.
MaybeDone(p, cl) ==
    /\ cl.life = "lost"
    /\ \/ p = "execute" /\ cl.depth = 0 /\ cl.answer = "err"
       \/ p = "commit" /\ cl.depth = 1 /\ cl.answer = "err"
       \/ p = "undo"

\* What the durable tasks D say of a task that waits, and the other way round.
Balance(D, t, p, cl, S) ==
    /\ Done(p, cl, S) => t \in D
    /\ t \in D => Done(p, cl, S) \/ MaybeDone(p, cl)

NothingCut == \A c \in Conn : ~server[c].cut
WiresOwn   == \A c \in Conn : WireOwn(client[c], server[c], result)
Awaited    == \A t \in Task : Waits(pc[t]) => result[t] = "none"
Balances   == \A t \in Task : Waits(pc[t]) =>
                 Balance(db, t, pc[t], client[held[t]], kept[t])

\* The inductive invariant of the outcomes.
OutcomeInv == NothingCut /\ WiresOwn /\ Awaited /\ Balances

-----------------------------------------------------------------------------
(* What a step of the server records, as a relation: the ends before and    *)
(* after it, and the durable tasks D before and D2 after.                   *)

InSession(cl) == cl.life \in {"open", "closing"}

Recorded(cl, sv, cl2, D, D2) ==
    /\ InSession(cl)
    /\ \/ /\ cl.wire = "EXECUTE" /\ Answers(cl, cl2, "ok", cl.depth)
          /\ D2 = IF sv.depth = 0 THEN D \cup {cl.by} ELSE D
       \/ /\ cl.wire = "COMMIT" /\ Answers(cl, cl2, "ok", cl.depth - 1)
          /\ D2 = D \cup Writers(sv.pend)

\* An answer that makes nothing durable.
Unrecorded(cl, cl2) ==
    \/ InSession(cl) /\ cl.wire = "RELEASE" /\ Answers(cl, cl2, "ok", cl.depth - 1)
    \/ /\ InSession(cl) /\ cl.wire \in {"BEGIN", "SAVEPOINT", "ROLLBACK", "ROLLBACK TO"}
       /\ \E d \in Int : Answers(cl, cl2, "ok", d)
    \/ cl.wire # "none" /\ \E d \in Int : Answers(cl, cl2, "err", d)

ServerRecords(cl, sv, cl2, sv2, D, D2) ==
    \/ Recorded(cl, sv, cl2, D, D2)
    \/ D2 = D /\ (Unrecorded(cl, cl2) \/ Cut(cl, cl2, sv2) \/ Closed(cl, cl2, sv2))

LEMMA ServerStepRecords ==
    ASSUME NEW c \in Conn, ConnShape, ServerStep(c) \/ Lose(c)
    PROVE  ServerRecords(client[c], server[c], client'[c], server'[c], db, db')
<1> DEFINE cl == client[c]
           sv == server[c]
           cl2 == client'[c]
           sv2 == server'[c]
<1>1. /\ Sound(cl) /\ cl \in ClientShape /\ sv \in ServerShape
      /\ cl.depth \in Int /\ cl.depth + 1 \in Int /\ cl.depth - 1 \in Int
  BY DEF ConnShape, ClientShape
<1>2. ASSUME NEW a \in {"ok", "err"}, NEW d \in Int, Reply(c, a, d)
      PROVE  Answers(cl, cl2, a, d)
  <2>1. cl2 = Answered(cl, a, d)
    BY <1>2 DEF Reply, ConnShape
  <2> QED
    BY <1>1, <2>1, AnsweredFacts DEF Answers
<1>3. \A s : server' = [server EXCEPT ![c] = s] => sv2 = s
  BY DEF ConnShape
<1>4. CASE ServerBegin(c) \/ ServerSavepoint(c) \/ ServerRollback(c) \/ ServerRollbackTo(c)
  <2>1. /\ InSession(cl) /\ db' = db /\ \E d \in Int : Reply(c, "ok", d)
        /\ cl.wire \in {"BEGIN", "SAVEPOINT", "ROLLBACK", "ROLLBACK TO"}
    BY <1>1, <1>4 DEF ServerBegin, ServerSavepoint, ServerRollback, ServerRollbackTo, Working, InSession
  <2> QED
    BY <1>2, <2>1 DEF ServerRecords, Unrecorded
<1>5. CASE ServerExecute(c)
  BY <1>1, <1>2, <1>5 DEF ServerExecute, Working, InSession, ServerRecords, Recorded
<1>6. CASE ServerCommit(c)
  BY <1>1, <1>2, <1>6 DEF ServerCommit, Working, InSession, ServerRecords, Recorded
<1>7. CASE ServerRelease(c)
  BY <1>1, <1>2, <1>7 DEF ServerRelease, Working, InSession, ServerRecords, Unrecorded
<1>8. CASE \/ ServerExecuteFails(c) \/ ServerCommitFails(c) \/ ServerCommitRefused(c) \/ Refuse(c)
  <2>1. cl.wire # "none" /\ db' = db /\ \E d \in Int : Reply(c, "err", d)
    BY <1>1, <1>8 DEF ServerExecuteFails, ServerCommitFails, ServerCommitRefused, Refuse, Working
  <2> QED
    BY <1>2, <2>1 DEF ServerRecords, Unrecorded
<1>9. CASE Close(c)
  <2>1. cl2 = NoClient /\ sv2 = NoTransaction
    BY <1>3, <1>9 DEF Close, ConnShape
  <2> QED
    BY <1>9, <2>1, NoClientFacts, NoTransactionFacts DEF Close, Closed, ServerRecords
<1>10. CASE Lose(c)
  <2>1. cl2 = Severed(cl) /\ sv2 = NoTransaction
    BY <1>3, <1>10 DEF Lose, ConnShape
  <2> QED
    BY <1>1, <1>10, <2>1, SeveredFacts, NoTransactionFacts DEF Lose, Cut, ServerRecords
<1> QED
  BY <1>4, <1>5, <1>6, <1>7, <1>8, <1>9, <1>10 DEF ServerStep

\* At a place without a statement that decides the outcome, a task that waits
\* has made nothing durable.
LEMMA BalanceElsewhere ==
    ASSUME NEW D, NEW t, NEW p, NEW cl, NEW S, p \notin {"execute", "commit", "undo"}
    PROVE  Balance(D, t, p, cl, S) <=> t \notin D
BY DEF Balance, Done, MaybeDone

\* A step of the server leaves nothing on the wire and cuts nothing off.
LEMMA ServerStepClears ==
    ASSUME NEW c \in Conn, ConnShape, ServerStep(c) \/ Lose(c), ~server[c].cut
    PROVE  client'[c].wire = "none" /\ ~server'[c].cut
<1> DEFINE cl == client[c]
           sv == server[c]
           cl2 == client'[c]
           sv2 == server'[c]
<1>1. \/ Carried(cl, sv, cl2, sv2) \/ Refused(cl, sv, cl2, sv2)
      \/ Cut(cl, cl2, sv2) \/ Closed(cl, cl2, sv2)
  BY ServerStepEnds
<1> HIDE DEF cl, sv, cl2, sv2
<1>2. ~sv.cut
  BY DEF sv
<1>3. cl2.wire = "none"
  BY <1>1 DEF Carried, BeginDone, SavepointDone, ExecuteDone, ExecuteFailed, CommitKept, EndDone,
              ReleaseDone, RollbackToDone, Refused, Answers, Cut, Closed
<1>4. ~sv2.cut
  BY <1>1, <1>2 DEF Carried, BeginDone, SavepointDone, ExecuteDone, ExecuteFailed, CommitKept, EndDone,
              ReleaseDone, RollbackToDone, Refused, Cut, Closed
<1> QED
  BY <1>3, <1>4 DEF cl2, sv2

\* Those who wrote at some levels.
LEMMA WritersOf ==
    ASSUME NEW t, NEW S
    PROVE  /\ Writers({t} \X S) \subseteq {t}
           /\ t \in Writers({t} \X S) <=> S # {}
<1>1. \A p \in {t} \X S : p[1] = t /\ p[2] \in S
  OBVIOUS
<1>2. \A l \in S : <<t, l>> \in {t} \X S
  OBVIOUS
<1>3. \A l : <<t, l>>[1] = t
  OBVIOUS
<1>4. S # {} => \E p \in {t} \X S : p[1] = t
  BY <1>2, <1>3
<1> DEFINE P == {t} \X S
<1>5. (\A p \in P : p[1] = t /\ p[2] \in S) /\ (S # {} => \E p \in P : p[1] = t)
  BY <1>1, <1>4
<1> HIDE DEF P
<1>6. Writers(P) \subseteq {t} /\ (t \in Writers(P) <=> S # {})
  BY <1>5 DEF Writers
<1> QED
  BY <1>6 DEF P

\* Whatever the server does with the statement of a task that waits for it, the
\* durable work and the answer on its way go together.
LEMMA HandBalance ==
    ASSUME NEW D, NEW D2, NEW t, NEW p \in InFlight, NEW S, NEW cl, NEW sv, NEW cl2, NEW sv2,
           EndsOK(cl, sv), InUse(t, p, cl, sv, S), ~sv.cut,
           Balance(D, t, p, cl, S), ServerRecords(cl, sv, cl2, sv2, D, D2)
    PROVE  Balance(D2, t, p, cl2, S)
<1>1. /\ p \in InHands /\ Pending(t, cl) /\ cl.life \in {"open", "lost"}
      /\ cl.depth \in Nat /\ sv.depth \in Nat /\ Arm \in {"pg", "sqlite"}
      /\ cl.life = "lost" => Arm = "pg"
      /\ cl.life = "open" => WireFits(cl, sv)
  BY ArmAssumption DEF InHands, InUse, EndsOK, Depth
<1>2. cl.heard /\ cl.by = t /\ (cl.wire = "none" <=> cl.answer # "none")
  BY <1>1 DEF Pending
<1>3. cl.wire # "none" =>
        /\ cl.wire = "EXECUTE" => p = "execute"
        /\ cl.wire \in {"COMMIT", "RELEASE"} => p = "commit"
        /\ cl.wire \in {"BEGIN", "SAVEPOINT", "ROLLBACK", "ROLLBACK TO"}
             => p \in {"begin", "rollback", "undo"}
        /\ t \in D => p = "undo" /\ cl.life = "lost"
  <2>1. cl.wire # "none" => cl.answer = "none"
    BY <1>2
  <2>2. cl.wire # "none" /\ t \in D => p = "undo" /\ cl.life = "lost"
    BY <2>1 DEF Balance, Done, MaybeDone
  <2>3. ASSUME cl.wire # "none"
        PROVE  /\ cl.wire \in {"BEGIN", "SAVEPOINT"} => p = "begin"
               /\ cl.wire = "EXECUTE" => p = "execute"
               /\ cl.wire \in {"COMMIT", "RELEASE"} => p = "commit"
               /\ cl.wire \in {"ROLLBACK", "ROLLBACK TO"} => p \in {"rollback", "undo"}
    <3>1. p \in InHands /\ cl.wire # "none" /\ InUse(t, p, cl, sv, S)
      BY <1>1, <2>3
    <3> QED
      BY ONLY <3>1, WireTellsPlace, Zenon
  <2> QED
    BY <2>2, <2>3
<1>4. CASE Recorded(cl, sv, cl2, D, D2) /\ cl.wire = "EXECUTE"
  <2>1. /\ p = "execute" /\ t \notin D /\ cl.life = "open"
        /\ cl2.life = "open" /\ cl2.answer = "ok" /\ cl2.depth = cl.depth
        /\ D2 = IF sv.depth = 0 THEN D \cup {t} ELSE D
    BY <1>1, <1>2, <1>3, <1>4 DEF Recorded, Answers, InSession
  <2>2. AtLevel(t, sv, cl.depth, S)
    BY <1>2, <1>4, <2>1 DEF InUse, Executing, Open
  <2>3. sv.depth = cl.depth
    BY <1>1, <2>2 DEF AtLevel, AtTop
  <2> QED
    BY <2>1, <2>3 DEF Balance, Done, MaybeDone
<1>5. CASE Recorded(cl, sv, cl2, D, D2) /\ cl.wire = "COMMIT"
  <2>1. /\ p = "commit" /\ t \notin D /\ cl.life = "open" /\ cl.depth = 1
        /\ cl2.life = "open" /\ cl2.answer = "ok"
        /\ cl2.depth = IF Arm = "sqlite" THEN 0 ELSE 1
        /\ D2 = D \cup Writers(sv.pend)
    BY <1>1, <1>2, <1>3, <1>5 DEF Recorded, Answers, InSession, WireFits
  <2>2. AtLevel(t, sv, cl.depth, S)
    BY <1>5, <2>1 DEF InUse, Committing, Open
  <2>3. sv.pend = {t} \X S
    BY <2>2 DEF AtLevel
  <2>4. t \in Writers(sv.pend) <=> S # {}
    BY <2>3, WritersOf
  <2>5. EndedBy(cl2) = 1
    BY <1>1, <2>1 DEF EndedBy
  <2> QED
    BY <2>1, <2>4, <2>5 DEF Balance, Done, MaybeDone
<1>6. CASE D2 = D /\ Unrecorded(cl, cl2)
  <2>1. CASE cl.wire = "RELEASE" /\ InSession(cl) /\ Answers(cl, cl2, "ok", cl.depth - 1)
    <3>1. p = "commit" /\ t \notin D /\ cl.depth >= 2 /\ cl.life = "open" /\ cl2.life = "open"
          /\ cl2.depth = IF Arm = "sqlite" THEN cl.depth - 1 ELSE cl.depth
      BY <1>1, <1>3, <2>1 DEF InSession, WireFits, Answers
    <3>2. EndedBy(cl2) # 1
      BY <1>1, <3>1 DEF EndedBy
    <3> QED
      BY <1>6, <3>1, <3>2 DEF Balance, Done
  <2>2. CASE /\ InSession(cl) /\ cl.wire \in {"BEGIN", "SAVEPOINT", "ROLLBACK", "ROLLBACK TO"}
             /\ \E d \in Int : Answers(cl, cl2, "ok", d)
    <3>1. p \in {"begin", "rollback", "undo"} /\ t \notin D
      BY <1>1, <1>3, <2>2 DEF InSession
    <3> QED
      BY <1>6, <3>1 DEF Balance, Done
  <2>3. CASE cl.wire # "none" /\ \E d \in Int : Answers(cl, cl2, "err", d)
    <3>1. cl2.answer = "err" /\ cl2.life = cl.life /\ (t \in D => p = "undo" /\ cl.life = "lost")
      BY <1>2, <1>3, <2>3 DEF Answers
    <3> QED
      BY <1>6, <3>1 DEF Balance, Done, MaybeDone
  <2> QED
    BY <1>6, <2>1, <2>2, <2>3 DEF Unrecorded
<1>7. CASE D2 = D /\ Cut(cl, cl2, sv2)
  <2>1. /\ Arm = "pg" /\ cl.life = "open" /\ cl2.life = "lost" /\ cl2.depth = cl.depth
        /\ cl2.answer = "err"
    BY <1>2, <1>7 DEF Cut
  <2>2. t \in D => Done(p, cl, S)
    BY <2>1 DEF Balance, MaybeDone
  <2>3. Done(p, cl, S) => MaybeDone(p, cl2)
    BY <2>1 DEF Done, MaybeDone, EndedBy
  <2> QED
    BY <1>7, <2>1, <2>2, <2>3 DEF Balance, Done
<1>8. CASE Closed(cl, cl2, sv2)
  BY <1>1, <1>8 DEF Closed
<1> QED
  BY <1>4, <1>5, <1>6, <1>7, <1>8 DEF ServerRecords, Recorded

\* What t waits for on connection c is the only work a step of the server on c
\* can make durable, and t's future waits for it or was dropped.
LEMMA GrownByWire ==
    ASSUME NEW c \in Conn, PoolInv, OutcomeInv, ServerStep(c) \/ Lose(c)
    PROVE  \/ db' = db
           \/ /\ client[c].wire \in {"COMMIT", "EXECUTE"}
              /\ client[c].by \in Task
              /\ db' \in {db, db \cup {client[c].by}}
<1> DEFINE cl == client[c]
           sv == server[c]
<1>1. ServerRecords(cl, sv, client'[c], server'[c], db, db')
  BY ServerStepRecords DEF PoolInv, PoolShape
<1>2. cl.wire # "none" => cl.by \in Task
  BY DEF PoolInv, PoolShape, ConnShape, Sound
<1>3. WireOwn(cl, sv, result)
  BY DEF OutcomeInv, WiresOwn
<1> HIDE DEF cl, sv
<1>4. CASE Recorded(cl, sv, client'[c], db, db')
  <2>1. /\ cl.wire \in {"EXECUTE", "COMMIT"} /\ cl.wire # "none" /\ InSession(cl)
        /\ \/ db' = db \/ db' = db \cup {cl.by} \/ db' = db \cup Writers(sv.pend)
    BY <1>4 DEF Recorded
  <2>2. Writers(sv.pend) \subseteq {cl.by}
    BY <1>3, <2>1 DEF WireOwn, InSession
  <2>3. Writers(sv.pend) = {} \/ Writers(sv.pend) = {cl.by}
    BY <2>2
  <2> QED
    BY <1>2, <2>1, <2>3 DEF cl
<1> QED
  BY <1>1, <1>4 DEF ServerRecords

\* Who waits for what is on the wire has the connection and a statement out.
LEMMA SenderWaits ==
    ASSUME NEW c \in Conn, SessionInv, client[c].wire # "none", client[c].heard
    PROVE  \E u \in Task : /\ client[c].by = u /\ held[u] = c
                           /\ pc[u] \in InFlight
<1>1. PICK u \in Task : pc[u] \in InHands /\ held[u] = c
  BY DEF SessionInv, RestInOrder, Resting, AtWork
<1>2. InUse(u, pc[u], client[c], server[c], kept[u])
  BY <1>1 DEF SessionInv, HandsInOrder
<1>3. pc[u] \in InFlight
  BY <1>1, <1>2 DEF InUse, Calm, InHands, InFlight
<1>4. client[c].by = u
  BY <1>2, <1>3 DEF InUse, Pending
<1> QED
  BY <1>1, <1>3, <1>4

\* A step of the server keeps every caller's account right.
LEMMA ServerOutcome ==
    ASSUME NEW c \in Conn, PoolInv, SessionInv, OutcomeInv, ConnStep(c)
    PROVE  OutcomeInv'
<1>1. /\ ServerStep(c) \/ Lose(c)
      /\ UNCHANGED <<pc, held, kept, result>>
  BY DEF ConnStep, taskVars
<1>2. /\ \A d \in Conn \ {c} : client'[d] = client[d] /\ server'[d] = server[d]
      /\ client'[c].wire = "none" /\ ~server'[c].cut
  BY <1>1, ServerStepShape, ServerStepClears DEF PoolInv, PoolShape, Local, OutcomeInv, NothingCut
<1>3. NothingCut'
  BY <1>2 DEF OutcomeInv, NothingCut
<1>4. WiresOwn'
  <2> SUFFICES ASSUME NEW d \in Conn PROVE WireOwn(client'[d], server'[d], result')
    BY DEF WiresOwn
  <2>1. CASE d = c
    BY <1>2, <2>1 DEF WireOwn
  <2>2. CASE d # c
    BY <1>1, <1>2, <2>2 DEF OutcomeInv, WiresOwn
  <2> QED
    BY <2>1, <2>2
<1>5. Awaited'
  BY <1>1 DEF OutcomeInv, Awaited
<1>6. ASSUME NEW t \in Task, Waits(pc[t])
      PROVE  Balance(db', t, pc[t], client'[held[t]], kept[t])
  <2>1. Balance(db, t, pc[t], client[held[t]], kept[t]) /\ result[t] = "none"
    BY <1>6 DEF OutcomeInv, Balances, Awaited
  <2>2. CASE pc[t] \in InFlight /\ held[t] = c
    <3>1. /\ EndsOK(client[c], server[c]) /\ InUse(t, pc[t], client[c], server[c], kept[t])
          /\ ~server[c].cut
      BY <2>2 DEF SessionInv, EndsInOrder, HandsInOrder, InHands, OutcomeInv, NothingCut
    <3>2. ServerRecords(client[c], server[c], client'[c], server'[c], db, db')
      BY <1>1, ServerStepRecords DEF PoolInv, PoolShape
    <3> QED
      BY <2>1, <2>2, <3>1, <3>2, HandBalance
  <2>3. CASE ~(pc[t] \in InFlight /\ held[t] = c)
    <3>1. t \in db' <=> t \in db
      <4>1. CASE client[c].wire # "none" /\ client[c].by = t
        <5>1. ~client[c].heard
          BY <2>3, <4>1, SenderWaits
        <5>2. result[t] = "dropped"
          BY <4>1, <5>1 DEF OutcomeInv, WiresOwn, WireOwn
        <5> QED
          BY <2>1, <5>2
      <4>2. CASE ~(client[c].wire # "none" /\ client[c].by = t)
        BY <1>1, <4>2, GrownByWire
      <4> QED
        BY <4>1, <4>2
    <3>2. CASE pc[t] \in {"execute", "commit", "undo"}
      <4>1. held[t] \in Conn \ {c}
        BY <2>3, <3>2 DEF PoolInv, PoolShape, Owning, InHands, InFlight
      <4>2. client'[held[t]] = client[held[t]]
        BY <1>2, <4>1
      <4> QED
        BY <2>1, <3>1, <4>2 DEF Balance
    <3>3. CASE pc[t] \notin {"execute", "commit", "undo"}
      BY <2>1, <3>1, <3>3, BalanceElsewhere
    <3> QED
      BY <3>2, <3>3
  <2> QED
    BY <2>2, <2>3
<1>7. Balances'
  BY <1>1, <1>6 DEF Balances
<1> QED
  BY <1>3, <1>4, <1>5, <1>7 DEF OutcomeInv

-----------------------------------------------------------------------------
(* A task's step and the connection it touches.                            *)

\* The step concerns connection c, which no other task holds, and leaves its
\* wire to its sender.
Touches(t, c) ==
    /\ \A d \in Conn \ {c} : client'[d] = client[d] /\ server'[d] = server[d]
    /\ \A u \in Task \ {t} : held[u] # c
    /\ ~server'[c].cut
    /\ WireOwn(client'[c], server'[c], result')

\* No connection is concerned, or one is.
TouchesOne(t) ==
    \/ UNCHANGED <<client, server>>
    \/ \E c \in Conn : Touches(t, c)

\* A statement goes out on a session whose open transaction is the task's own.
LEMMA SendsTouch ==
    ASSUME NEW t \in Task, NEW p \in {"holding", "body", "execute", "commit"}, NEW S,
           NEW cl, NEW sv, NEW cl2, NEW sql, NEW R,
           EndsOK(cl, sv), InUse(t, p, cl, sv, S), ~sv.cut, Sends(cl, cl2, t, sql),
           p = "execute" => cl.answer = "err",
           p = "commit" => Arm = "pg" /\ cl.answer = "err"
    PROVE  WireOwn(cl2, sv, R)
<1>1. /\ cl2.life = cl.life /\ cl2.by = t /\ cl2.heard
      /\ cl.life \in {"open", "lost"}
  BY DEF Sends, InUse
<1>2. ASSUME Open(cl) PROVE Writers(sv.pend) \subseteq {t}
  <2>1. ASSUME NEW d, NEW T, AtLevel(t, sv, d, T) PROVE Writers(sv.pend) \subseteq {t}
    BY <2>1, WritersOf DEF AtLevel
  <2>2. CASE p = "holding"
    BY <1>2, <2>1, <2>2 DEF InUse
  <2>3. CASE p = "body"
    BY <1>2, <2>1, <2>3 DEF InUse
  <2>4. CASE p = "execute"
    <3>1. Executing(t, cl, sv, S) /\ cl.answer # "ok"
      BY <2>4 DEF InUse
    <3> QED
      BY <1>2, <2>1, <3>1 DEF Executing
  <2>5. CASE p = "commit"
    <3>1. NotCommitted(cl, sv, S) /\ Arm = "pg"
      BY <2>5 DEF InUse, Committing
    <3>2. sv.depth = 0 /\ sv.pend \subseteq Task \X (1 .. sv.depth)
      BY <1>2, <3>1 DEF NotCommitted, EndsOK
    <3>3. sv.pend = {}
      BY <3>2
    <3> QED
      BY <3>3 DEF Writers
  <2> QED
    BY <2>2, <2>3, <2>4, <2>5
<1> QED
  BY <1>1, <1>2 DEF WireOwn, Open

\* Every step of a task's work but the last concerns the task's connection.
LEMMA WorkTouches ==
    ASSUME NEW t \in Task, PoolInv, SessionInv, OutcomeInv, Work(t), pc[t] # "leaving"
    PROVE  Touches(t, held[t])
<1> DEFINE c == held[t]
           cl == client[c]
           sv == server[c]
           S == kept[t]
<1> SUFFICES Touches(t, c)
  OBVIOUS
<1>1. pc[t] \in InHands /\ pc[t] \in Owning
  BY DEF Work, Begin, BeginReturns, BeginFails, ExecuteStatement, ExecuteReturns, ExecuteFails,
         ExecuteUnwinds, Commit, CommitReturns, CommitRefused, CommitUndone, Rollback, RollbackReturns,
         RollbackFails, Leave, InHands, InFlight, Owning
<1>2. /\ c \in Conn /\ cl \in ClientShape /\ Sound(cl) /\ cl.depth \in Int
      /\ cl.answer # "none" => cl.wire = "none"
      /\ \A u \in Task \ {t} : held[u] # c
  BY <1>1, OwnConnection DEF Typed, Sound, ClientShape
<1>3. EndsOK(cl, sv) /\ InUse(t, pc[t], cl, sv, S) /\ ~sv.cut
  BY <1>1, <1>2 DEF SessionInv, EndsInOrder, HandsInOrder, OutcomeInv, NothingCut
<1>4. ASSUME NEW cl2, client' = [client EXCEPT ![c] = cl2], UNCHANGED server, WireOwn(cl2, sv, result')
      PROVE  Touches(t, c)
  <2>1. /\ client'[c] = cl2 /\ server'[c] = sv
        /\ \A d \in Conn \ {c} : client'[d] = client[d] /\ server'[d] = server[d]
    BY <1>2, <1>4 DEF PoolInv, PoolShape, ConnShape
  <2> QED
    BY <1>2, <1>3, <1>4, <2>1 DEF Touches
<1>5. ASSUME NEW sql \in Statement, client' = [client EXCEPT ![c] = Sent(@, t, sql)], UNCHANGED server,
             pc[t] \in {"holding", "body", "execute", "commit"},
             pc[t] = "execute" => cl.answer = "err",
             pc[t] = "commit" => Arm = "pg" /\ cl.answer = "err"
      PROVE  Touches(t, c)
  <2>1. client' = [client EXCEPT ![c] = Sent(cl, t, sql)]
    BY <1>5
  <2>2. Sends(cl, Sent(cl, t, sql), t, sql)
    BY <1>2, SentFacts DEF Sends
  <2> HIDE DEF c, cl, sv, S
  <2>3. WireOwn(Sent(cl, t, sql), sv, result')
    BY <1>3, <1>5, <2>2, SendsTouch
  <2> QED
    BY <1>4, <1>5, <2>1, <2>3
<1>6. ASSUME NEW cl2, client' = [client EXCEPT ![c] = cl2], UNCHANGED server, cl2.wire = "none"
      PROVE  Touches(t, c)
  BY <1>4, <1>6 DEF WireOwn
<1>7. ASSUME NEW d \in Int, cl.answer # "none"
      PROVE  /\ Settled(cl, d).wire = "none" /\ Settled(cl, d) \in ClientShape
  BY <1>2, <1>7, SettledFacts DEF Sound
<1>8. cl.answer # "none" => Returned(cl).wire = "none"
  BY <1>2, ReturnedFacts
<1>9. /\ BeginSql(cl.depth) \in Statement /\ CommitSql(cl.depth) \in Statement
      /\ RollbackSql(cl.depth) \in Statement /\ "EXECUTE" \in Statement
      /\ Deeper(cl) \in Int /\ Shallower(cl) \in Int
  BY <1>2 DEF BeginSql, CommitSql, RollbackSql, Statement, Controls, Deeper, Shallower
<1>10. Cl(t) = cl
  BY DEF Cl
<1> HIDE DEF c, cl, sv, S
<1>11. CASE Begin(t)
  <2>1. /\ client' = [client EXCEPT ![c] = Sent(@, t, BeginSql(cl.depth))] /\ UNCHANGED server
        /\ pc[t] \in {"holding", "body"}
    BY <1>11 DEF Begin, BeginTransaction, c, cl
  <2> QED
    BY <1>5, <1>9, <2>1
<1>12. CASE ExecuteStatement(t)
  <2>1. /\ client' = [client EXCEPT ![c] = Sent(@, t, "EXECUTE")] /\ UNCHANGED server
        /\ pc[t] \in {"holding", "body"}
    BY <1>12 DEF ExecuteStatement, Execute, c, cl
  <2> QED
    BY <1>5, <1>9, <2>1
<1>13. CASE Commit(t)
  <2>1. /\ client' = [client EXCEPT ![c] = Sent(@, t, CommitSql(cl.depth))] /\ UNCHANGED server
        /\ pc[t] = "body"
    BY <1>13 DEF Commit, CommitTransaction, c, cl
  <2> QED
    BY <1>5, <1>9, <2>1
<1>14. CASE ExecuteUnwinds(t) \/ CommitUndone(t) \/ Rollback(t)
  <2>1. /\ client' = [client EXCEPT ![c] = Sent(@, t, RollbackSql(cl.depth))] /\ UNCHANGED server
        /\ pc[t] \in {"execute", "commit", "body"}
        /\ pc[t] = "execute" => cl.answer = "err"
        /\ pc[t] = "commit" => Arm = "pg" /\ cl.answer = "err"
    BY <1>10, <1>14 DEF ExecuteUnwinds, CommitUndone, Rollback, RollbackTransaction, c, cl
  <2> QED
    BY <1>5, <1>9, <2>1
<1>15. CASE BeginReturns(t) \/ BeginFails(t)
  <2>1. /\ \E d \in Int : client' = [client EXCEPT ![c] = Settled(cl, d)]
        /\ UNCHANGED server /\ cl.answer # "none"
    BY <1>2, <1>9, <1>10, <1>15 DEF BeginReturns, BeginFails, c, cl
  <2> QED
    BY <1>6, <1>7, <2>1
<1>16. CASE ExecuteReturns(t) \/ ExecuteFails(t)
  <2>1. /\ client' = [client EXCEPT ![c] = Returned(cl)]
        /\ UNCHANGED server /\ cl.answer # "none"
    BY <1>10, <1>16 DEF ExecuteReturns, ExecuteFails, c, cl
  <2> QED
    BY <1>6, <1>8, <2>1
<1>17. CASE CommitReturns(t) \/ CommitRefused(t) \/ RollbackReturns(t)
  <2>1. /\ \E d \in Int : client' = [client EXCEPT ![c] = Settled(cl, d)]
        /\ UNCHANGED server /\ cl.answer # "none"
    BY <1>2, <1>9, <1>10, <1>17 DEF CommitReturns, CommitRefused, RollbackReturns, c, cl
  <2> QED
    BY <1>6, <1>7, <2>1
<1>18. CASE RollbackFails(t)
  <2> DEFINE s == Settled(cl, cl.depth)
             cl2 == [s EXCEPT !.inError = TRUE]
  <2>1. client' = [client EXCEPT ![c] = cl2] /\ UNCHANGED server /\ cl.answer # "none"
    BY <1>10, <1>18 DEF RollbackFails, c, cl
  <2>2. s.wire = "none" /\ s \in ClientShape
    BY <1>2, <1>7, <2>1
  <2> HIDE DEF s
  <2>3. cl2.wire = "none"
    BY <2>2 DEF ClientShape
  <2> HIDE DEF cl2
  <2> QED
    BY <1>6, <2>1, <2>3
<1>19. ~Leave(t)
  BY DEF Leave
<1> QED
  BY <1>11, <1>12, <1>13, <1>14, <1>15, <1>16, <1>17, <1>18, <1>19 DEF Work

\* What is on the wire of a discarded connection is still its sender's.
LEMMA DiscardedBy ==
    ASSUME NEW cl \in ClientShape, Sound(cl)
    PROVE  /\ Dropped(cl).wire # "none" => Dropped(cl).by = cl.by
           /\ Discarded(cl).wire # "none" => cl.life # "lost" /\ Discarded(cl).by = cl.by
<1>1. Dropped(cl).wire # "none" => Dropped(cl).by = cl.by
  BY DEF Dropped, ClientShape
<1>2. CASE cl.life = "lost"
  BY <1>1, <1>2, DiscardedFacts
<1>3. CASE cl.life # "lost"
  <2> DEFINE d == Dropped(cl)
  <2>1. d \in ClientShape /\ (d.wire # "none" => d.by = cl.by)
    BY <1>1, DroppedFacts DEF Sound
  <2>2. Discarded(cl) = [d EXCEPT !.life = "closing"]
    BY <1>3 DEF Discarded
  <2> HIDE DEF d
  <2>3. Discarded(cl).wire # "none" => Discarded(cl).by = cl.by
    BY <2>1, <2>2 DEF ClientShape
  <2> QED
    BY <1>1, <1>3, <2>3
<1> QED
  BY <1>2, <1>3

\* A checkout discards a connection that nobody works with.
LEMMA DiscardTouches ==
    ASSUME NEW t \in Task, NEW c \in Conn, PoolInv, SessionInv, OutcomeInv,
           pc[t] \in {"acquired", "pinging"}, Live(client[c]),
           \A u \in Task \ {t} : held[u] # c /\ result'[u] = result[u],
           client' = [client EXCEPT ![c] = Discarded(@)], UNCHANGED server
    PROVE  Touches(t, c)
<1> DEFINE cl == client[c]
           cl2 == client'[c]
<1>1. Sound(cl) /\ cl \in ClientShape /\ (cl.wire # "none" => cl.by \in Task)
  BY DEF PoolInv, PoolShape, ConnShape, Sound
<1>2. /\ cl2 = Discarded(cl) /\ server'[c] = server[c]
      /\ \A d \in Conn \ {c} : client'[d] = client[d] /\ server'[d] = server[d]
  BY DEF PoolInv, PoolShape, ConnShape
<1>3. ~server[c].cut /\ WireOwn(cl, server[c], result) /\ result[t] = "none"
  BY DEF OutcomeInv, NothingCut, WiresOwn, Awaited, Waits
<1>4. ~cl.heard
  <2>1. pc[t] \notin InHands
    BY DEF InHands, InFlight
  <2> QED
    BY <2>1, AtRest DEF Resting
<1>5. ASSUME cl2.wire # "none"
      PROVE  cl.wire # "none" /\ cl2.by = cl.by /\ cl.life = "open"
  BY <1>1, <1>2, <1>5, DiscardedFacts, DiscardedBy DEF Live
<1>6. ASSUME cl.wire # "none" PROVE result'[cl.by] = "dropped"
  <2>1. result[cl.by] = "dropped" /\ cl.by \in Task
    BY <1>1, <1>3, <1>4, <1>6 DEF WireOwn
  <2> QED
    BY <1>3, <2>1
<1> HIDE DEF cl, cl2
<1>7. WireOwn(cl2, server[c], result')
  BY <1>3, <1>5, <1>6 DEF WireOwn
<1> QED
  BY <1>2, <1>3, <1>7 DEF Touches, cl2

\* A step of a checkout concerns one connection at most.
LEMMA CheckoutTouches ==
    ASSUME NEW t \in Task, PoolInv, SessionInv, OutcomeInv, Checkout(t)
    PROVE  TouchesOne(t)
<1>1. \A u \in Task \ {t} : result'[u] = result[u]
  BY DEF PoolInv, PoolShape, Checkout, Get, Grant, Acquire, Recycle, RecycleBroken, RecyclePanics,
         PingAnswered,
         PingFails, Create, Created, Finish, taskVars
<1>2. CASE Get(t) \/ Grant(t) \/ Acquire(t) \/ Recycle(t) \/ PingAnswered(t) \/ Create(t)
  BY <1>2 DEF Get, Grant, Acquire, Recycle, PingAnswered, Create, connVars, TouchesOne
<1>3. CASE RecycleBroken(t) \/ RecyclePanics(t)
  <2>1. /\ pc[t] = "acquired" /\ idle # <<>>
        /\ client' = [client EXCEPT ![Head(idle)] = Discarded(@)] /\ UNCHANGED server
    BY <1>3 DEF RecycleBroken, RecyclePanics
  <2>2. Head(idle) \in Conn /\ Live(client[Head(idle)]) /\ \A u \in Task : held[u] # Head(idle)
    BY <2>1, HeadOfIdle
  <2>3. Touches(t, Head(idle))
    BY <1>1, <2>1, <2>2, DiscardTouches
  <2> QED
    BY <2>2, <2>3 DEF TouchesOne
<1>4. CASE PingFails(t)
  <2>1. /\ pc[t] = "pinging" /\ pc[t] \in Owning
        /\ client' = [client EXCEPT ![held[t]] = Discarded(@)] /\ UNCHANGED server
    BY <1>4 DEF PingFails, Owning
  <2>2. Touches(t, held[t]) /\ held[t] \in Conn
    BY <1>1, <2>1, OwnConnection, DiscardTouches
  <2> QED
    BY <2>2 DEF TouchesOne
<1>5. CASE Created(t)
  <2>1. PICK c \in Conn : Establish(c)
    BY <1>5 DEF Created
  <2>2. /\ client'[c] = NewClient /\ server'[c] = NoTransaction
        /\ \A d \in Conn \ {c} : client'[d] = client[d] /\ server'[d] = server[d]
    BY <2>1 DEF Establish, PoolInv, PoolShape, ConnShape
  <2>3. \A u \in Task : held[u] # c
    BY <2>1 DEF Establish, Live, PoolInv, Ownership, Owned
  <2> HIDE DEF NewClient, NoTransaction
  <2>4. Touches(t, c)
    BY <2>2, <2>3, NewClientFacts, NoTransactionFacts DEF Touches, WireOwn
  <2> QED
    BY <2>4 DEF TouchesOne
<1> QED
  BY <1>2, <1>3, <1>4, <1>5 DEF Checkout

\* So does the end of a task.  A future dropped at work leaves its statement to
\* itself, and no BEGIN to whoever comes next.
LEMMA EndTouches ==
    ASSUME NEW t \in Task, PoolInv, SessionInv, OutcomeInv, BeginsWhole,
           \/ Leave(t) \/ WaitTimeout(t) \/ CreateFails(t) \/ Cancel(t)
    PROVE  TouchesOne(t)
<1>1. CASE Leave(t) \/ WaitTimeout(t) \/ CreateFails(t) \/ CancelWait(t) \/ CancelCreate(t)
  BY <1>1 DEF Leave, WaitTimeout, CreateFails, CancelWait, CancelCreate, connVars, TouchesOne
<1>2. CASE CancelPing(t)
  <2>1. /\ pc[t] = "pinging" /\ pc[t] \in Owning
        /\ client' = [client EXCEPT ![held[t]] = Discarded(@)] /\ UNCHANGED server
        /\ \A u \in Task \ {t} : result'[u] = result[u]
    BY <1>2 DEF CancelPing, Owning, Finish, PoolInv, PoolShape
  <2>2. Touches(t, held[t]) /\ held[t] \in Conn
    BY <2>1, OwnConnection, DiscardTouches
  <2> QED
    BY <2>2 DEF TouchesOne
<1>3. CASE CancelWork(t)
  <2> DEFINE c == held[t]
             cl == client[c]
             cut == server[c].cut \/ (Arm = "pg" /\ pc[t] = "begin" /\ Level(t) = 0)
             sv2 == [server[c] EXCEPT !.cut = cut]
  <2>1. /\ pc[t] \in InFlight \cup {"holding", "body"} /\ pc[t] \in InHands /\ pc[t] \in Owning
        /\ pc[t] \in CancelAt /\ result'[t] = "dropped"
    BY <1>3 DEF CancelWork, GiveBack, InHands, Owning, Finish, PoolInv, PoolShape
  <2>2. /\ c \in Conn /\ Typed(cl, server[c]) /\ cl \in ClientShape
        /\ \A u \in Task \ {t} : held[u] # c
    BY <2>1, OwnConnection
  <2>3. /\ client' = [client EXCEPT ![c] = Dropped(cl)]
        /\ server' = [server EXCEPT ![c] = sv2]
    BY <1>3 DEF CancelWork
  <2>4. /\ client'[c] = Dropped(cl) /\ server'[c] = sv2
        /\ \A d \in Conn \ {c} : client'[d] = client[d] /\ server'[d] = server[d]
    BY <2>2, <2>3 DEF PoolInv, PoolShape, ConnShape
  <2>5. ~server[c].cut /\ WireOwn(cl, server[c], result)
    BY <2>2 DEF OutcomeInv, NothingCut, WiresOwn
  <2>6. ~cut
    BY <2>1, <2>5 DEF BeginsWhole
  <2> HIDE DEF cut
  <2>7. ~sv2.cut /\ sv2.pend = server[c].pend
    BY <2>2, <2>6 DEF Typed, ServerShape
  <2>8. InUse(t, pc[t], cl, server[c], kept[t])
    BY <2>1 DEF SessionInv, HandsInOrder
  <2>9. cl.wire # "none" => cl.by = t
    BY <2>1, <2>8 DEF InUse, Calm, Pending
  <2>10. /\ Dropped(cl).life = cl.life /\ Dropped(cl).wire = cl.wire
         /\ Dropped(cl).wire # "none" => Dropped(cl).by = cl.by
    BY <2>2, DroppedFacts, DiscardedBy DEF Typed
  <2> HIDE DEF cl, sv2
  <2>11. WireOwn(Dropped(cl), sv2, result')
    BY <2>1, <2>5, <2>7, <2>9, <2>10 DEF WireOwn
  <2>12. Touches(t, c)
    BY <2>2, <2>4, <2>7, <2>11 DEF Touches
  <2> QED
    BY <2>2, <2>12 DEF TouchesOne
<1> QED
  BY <1>1, <1>2, <1>3 DEF Cancel

-----------------------------------------------------------------------------
(* A task's step and what its caller is told.                              *)

\* Nothing becomes durable, and no other task's account is touched.
OthersRest(t) ==
    /\ UNCHANGED db
    /\ \A u \in Task \ {t} : /\ pc'[u] = pc[u] /\ held'[u] = held[u]
                             /\ kept'[u] = kept[u] /\ result'[u] = result[u]

LEMMA TaskStepAlone ==
    ASSUME NEW t \in Task, PoolInv, TaskStep(t)
    PROVE  OthersRest(t)
<1>1. ASSUME NEW f, NEW f2, NEW v, NEW T, f \in [Task -> T], f2 = f \/ f2 = [f EXCEPT ![t] = v]
      PROVE  \A u \in Task \ {t} : f2[u] = f[u]
  BY <1>1
<1>2. /\ pc \in [Task -> Places] /\ held \in [Task -> Conn \cup {NoConn}]
      /\ kept \in [Task -> SUBSET Int] /\ result \in [Task -> Results]
  BY DEF PoolInv, PoolShape
<1>3. /\ UNCHANGED db
      /\ pc' = pc \/ \E v : pc' = [pc EXCEPT ![t] = v]
      /\ held' = held \/ \E v : held' = [held EXCEPT ![t] = v]
      /\ kept' = kept \/ \E v : kept' = [kept EXCEPT ![t] = v]
      /\ result' = result \/ \E v : result' = [result EXCEPT ![t] = v]
  <2>1. CASE Checkout(t)
    BY <2>1 DEF Checkout, Get, Grant, Acquire, Recycle, RecycleBroken, RecyclePanics, PingAnswered, PingFails,
                Create, Created, Establish, Goto, Finish, connVars, taskVars
  <2>2. CASE Work(t)
    <3>1. CASE \/ Begin(t) \/ BeginReturns(t) \/ BeginFails(t) \/ ExecuteStatement(t)
               \/ ExecuteReturns(t) \/ ExecuteFails(t) \/ ExecuteUnwinds(t) \/ Commit(t)
      BY <3>1 DEF Begin, BeginReturns, BeginFails, ExecuteStatement, ExecuteReturns, ExecuteFails,
                  ExecuteUnwinds, Commit, Goto, Finish
    <3>2. CASE \/ CommitReturns(t) \/ CommitRefused(t) \/ CommitUndone(t) \/ Rollback(t)
               \/ RollbackReturns(t) \/ RollbackFails(t) \/ Leave(t)
      BY <3>2 DEF CommitReturns, CommitRefused, CommitUndone, Rollback, RollbackReturns,
                  RollbackFails, Leave, GiveBack, Goto, Finish, connVars
    <3> QED
      BY <2>2, <3>1, <3>2 DEF Work
  <2>3. CASE WaitTimeout(t) \/ CreateFails(t) \/ Cancel(t)
    BY <2>3 DEF WaitTimeout, GiveUp, CreateFails, Cancel, CancelWait, CancelCreate, CancelPing, CancelWork,
                GiveBack, Goto, Finish, connVars
  <2> QED
    BY <2>1, <2>2, <2>3 DEF TaskStep
<1> QED
  BY <1>1, <1>2, <1>3 DEF OthersRest

\* What t's caller is told is true of the durable work.
Truthful(t) ==
    \/ result'[t] = "ok" /\ (kept'[t] # {} <=> t \in db)
    \/ result'[t] \in {"unknown", "dropped"}
    \/ result'[t] \in {"failed", "refused", "panicked"} /\ t \notin db

\* The caller waits on, is told, or was told before.
WaitsOn(t) ==
    /\ Waits(pc[t]) /\ Waits(pc'[t])
    /\ result'[t] = result[t]
    /\ Balance(db, t, pc'[t], client'[held'[t]], kept'[t])

IsTold(t) == Waits(pc[t]) /\ ~Waits(pc'[t]) /\ Truthful(t)

WasTold(t) ==
    /\ ~Waits(pc[t]) /\ ~Waits(pc'[t])
    /\ result'[t] = result[t] /\ kept'[t] = kept[t]

\* Ending a call, and telling its caller r.
LEMMA Tells ==
    ASSUME NEW t \in Task, NEW p \in {"leaving", "done"}, NEW r \in Results, PoolInv,
           Waits(pc[t]), Finish(t, p, r),
           r = "ok" => (kept'[t] # {} <=> t \in db),
           r \in {"failed", "refused", "panicked"} => t \notin db,
           r # "none"
    PROVE  IsTold(t)
<1>1. pc'[t] = p /\ result'[t] = r
  BY DEF Finish, Goto, PoolInv, PoolShape
<1> QED
  BY <1>1 DEF IsTold, Truthful, Waits, Results

\* A task with nothing durable goes on to a place that decides nothing.
LEMMA GoesOn ==
    ASSUME NEW t \in Task, NEW p \in Places, PoolInv, Waits(pc[t]), Goto(t, p), UNCHANGED result,
           Waits(p), p \notin {"execute", "commit", "undo"}, t \notin db
    PROVE  WaitsOn(t)
<1>1. pc'[t] = p /\ result'[t] = result[t]
  BY DEF Goto, PoolInv, PoolShape
<1>2. Balance(db, t, p, client'[held'[t]], kept'[t])
  BY BalanceElsewhere
<1> QED
  BY <1>1, <1>2 DEF WaitsOn

\* A checkout makes nothing durable, and its caller waits on unless it panics.
LEMMA CheckoutAccount ==
    ASSUME NEW t \in Task, PoolInv, OutcomeInv, Checkout(t)
    PROVE  WaitsOn(t) \/ IsTold(t)
<1>1. pc[t] \in {"new", "waiting", "granted", "acquired", "pinging", "creating"}
  BY DEF Checkout, Get, Grant, Acquire, Recycle, RecycleBroken, RecyclePanics, PingAnswered, PingFails,
         Create, Created
<1>2. Waits(pc[t]) /\ t \notin db
  <2>1. Waits(pc[t])
    BY <1>1 DEF Waits
  <2>2. Balance(db, t, pc[t], client[held[t]], kept[t])
    BY <2>1 DEF OutcomeInv, Balances
  <2> QED
    BY <1>1, <2>1, <2>2, BalanceElsewhere
<1>3. CASE RecyclePanics(t)
  <2>1. Finish(t, "done", "panicked")
    BY <1>3 DEF RecyclePanics
  <2> QED
    BY <1>2, <2>1, Tells DEF Results
<1>4. CASE ~RecyclePanics(t)
  <2>1. /\ UNCHANGED result
        /\ \E p \in {"waiting", "granted", "acquired", "pinging", "holding", "creating"} : Goto(t, p)
    <3>1. CASE RecycleBroken(t)
      <4>1. Goto(t, "acquired")
        BY <3>1 DEF RecycleBroken, taskVars, Goto, PoolInv, PoolShape
      <4> QED
        BY <3>1, <4>1 DEF RecycleBroken, taskVars
    <3>2. CASE ~RecycleBroken(t)
      BY <1>4, <3>2 DEF Checkout, Get, Grant, Acquire, Recycle, PingAnswered, PingFails, Create, Created
    <3> QED
      BY <3>1, <3>2
  <2> QED
    BY <1>2, <2>1, GoesOn DEF Places, Awaits, Waits
<1> QED
  BY <1>3, <1>4

\* What t waits for at its place, and what is durable of its work.
LEMMA AtPlace ==
    ASSUME NEW t \in Task, PoolInv, SessionInv, OutcomeInv, pc[t] \in InHands, pc[t] # "leaving"
    PROVE  /\ Waits(pc[t]) /\ result[t] = "none"
           /\ Balance(db, t, pc[t], Cl(t), kept[t])
           /\ pc[t] \notin {"execute", "commit", "undo"} => t \notin db
           /\ held[t] \in Conn /\ Cl(t) \in ClientShape
           /\ InUse(t, pc[t], Cl(t), server[held[t]], kept[t])
           /\ Arm \in {"pg", "sqlite"} /\ Cl(t).depth \in Int
           /\ Level(t) = Cl(t).depth /\ Ended(t) = EndedBy(Cl(t))
<1>1. Waits(pc[t])
  BY DEF Waits, InHands, InFlight
<1>2. result[t] = "none" /\ Balance(db, t, pc[t], Cl(t), kept[t])
  BY <1>1 DEF OutcomeInv, Awaited, Balances, Cl
<1>3. pc[t] \notin {"execute", "commit", "undo"} => t \notin db
  BY <1>2, BalanceElsewhere
<1>4. /\ held[t] \in Conn /\ Cl(t) \in ClientShape
      /\ InUse(t, pc[t], Cl(t), server[held[t]], kept[t])
  BY OwnConnection DEF Owning, SessionInv, HandsInOrder, Cl
<1>5. /\ Arm \in {"pg", "sqlite"} /\ Cl(t).depth \in Int
      /\ Level(t) = Cl(t).depth /\ Ended(t) = EndedBy(Cl(t))
  BY <1>4, ArmAssumption DEF ClientShape, Level, Ended, EndedBy, Cl
<1> QED
  BY <1>1, <1>2, <1>3, <1>4, <1>5

\* The work of a task tells its caller the truth.
LEMMA WorkAccount ==
    ASSUME NEW t \in Task, PoolInv, SessionInv, OutcomeInv, Work(t), pc[t] # "leaving"
    PROVE  WaitsOn(t) \/ IsTold(t)
<1> DEFINE cl == Cl(t)
           S == kept[t]
<1>1. pc[t] \in InHands
  BY DEF Work, Begin, BeginReturns, BeginFails, ExecuteStatement, ExecuteReturns, ExecuteFails,
         ExecuteUnwinds, Commit, CommitReturns, CommitRefused, CommitUndone, Rollback, RollbackReturns,
         RollbackFails, Leave, InHands, InFlight
<1>2. /\ Waits(pc[t]) /\ result[t] = "none"
      /\ Balance(db, t, pc[t], cl, S)
      /\ pc[t] \notin {"execute", "commit", "undo"} => t \notin db
      /\ held[t] \in Conn /\ cl \in ClientShape
      /\ InUse(t, pc[t], cl, server[held[t]], S)
      /\ Arm \in {"pg", "sqlite"} /\ cl.depth \in Int
      /\ Level(t) = cl.depth /\ Ended(t) = EndedBy(cl)
  BY <1>1, AtPlace
<1>3. pc[t] \in InFlight => Pending(t, cl)
  BY <1>2 DEF InUse
<1>4. /\ {"begin", "body", "rollback"} \subseteq Places
      /\ \A p \in {"begin", "body", "rollback"} : Waits(p) /\ p \notin {"execute", "commit", "undo"}
      /\ {"ok", "failed", "unknown"} \subseteq Results \ {"none"}
  BY DEF Places, Awaits, Waits, Results
<1>5. ASSUME NEW p \in {"execute", "commit", "undo"}, NEW sql \in Statement, Goto(t, p), 
             client' = [client EXCEPT ![held[t]] = Sent(@, t, sql)], UNCHANGED <<held, kept, result>>,
             t \in db => p = "undo" /\ cl.life = "lost"
      PROVE  WaitsOn(t)
  <2>1. pc'[t] = p /\ client'[held'[t]] = Sent(cl, t, sql)
    BY <1>2, <1>5 DEF PoolInv, PoolShape, ConnShape, Goto, Cl
  <2>2. Sent(cl, t, sql).answer = "none" /\ Sent(cl, t, sql).life = cl.life
    BY <1>2, SentFacts
  <2> HIDE DEF cl
  <2>3. Balance(db, t, p, Sent(cl, t, sql), S)
    BY <1>5, <2>2 DEF Balance, Done, MaybeDone
  <2> QED
    BY <1>2, <1>5, <2>1, <2>3 DEF WaitsOn, Waits
<1> HIDE DEF cl
<1>6. CASE Begin(t) \/ BeginReturns(t)
  <2>1. UNCHANGED result /\ (Goto(t, "begin") \/ Goto(t, "body")) /\ t \notin db
    BY <1>2, <1>6 DEF Begin, BeginReturns
  <2> QED
    BY <1>2, <1>4, <2>1, GoesOn
<1>7. CASE BeginFails(t)
  <2>1. t \notin db
    BY <1>2, <1>7 DEF BeginFails
  <2>2. CASE Finish(t, "leaving", "failed")
    BY <1>2, <1>4, <2>1, <2>2, Tells
  <2>3. CASE Goto(t, "body") /\ UNCHANGED result
    BY <1>2, <1>4, <2>1, <2>3, GoesOn
  <2> QED
    BY <1>7, <2>2, <2>3 DEF BeginFails
<1>8. CASE ExecuteStatement(t)
  <2>1. /\ Goto(t, "execute") /\ client' = [client EXCEPT ![held[t]] = Sent(@, t, "EXECUTE")]
        /\ UNCHANGED <<held, kept, result>> /\ t \notin db
    BY <1>2, <1>8 DEF ExecuteStatement, Execute
  <2> QED
    BY <1>5, <2>1 DEF Statement
<1>9. CASE ExecuteReturns(t)
  <2>1. pc[t] = "execute" /\ cl.answer = "ok"
    BY <1>9 DEF ExecuteReturns, cl
  <2>2. CASE cl.depth = 0
    <3>1. Finish(t, "leaving", "ok") /\ kept' = [kept EXCEPT ![t] = @ \cup {cl.depth}]
      BY <1>2, <1>9, <2>2 DEF ExecuteReturns
    <3>2. kept'[t] # {}
      BY <3>1 DEF PoolInv, PoolShape
    <3>3. t \in db
      BY <1>2, <2>1, <2>2 DEF Balance, Done
    <3> QED
      BY <1>2, <1>4, <3>1, <3>2, <3>3, Tells
  <2>3. CASE cl.depth # 0
    <3>1. Goto(t, "body") /\ UNCHANGED result
      BY <1>2, <1>9, <2>3 DEF ExecuteReturns
    <3>2. t \notin db
      BY <1>2, <2>1, <2>3 DEF Balance, Done, MaybeDone
    <3> QED
      BY <1>2, <1>4, <3>1, <3>2, GoesOn
  <2> QED
    BY <2>2, <2>3
<1>10. CASE ExecuteFails(t)
  <2>1. /\ pc[t] = "execute" /\ cl.answer = "err"
        /\ Finish(t, "leaving", IF cl.life = "lost" THEN "unknown" ELSE "failed")
    BY <1>10 DEF ExecuteFails, cl
  <2>2. cl.life # "lost" => t \notin db
    BY <1>2, <2>1 DEF Balance, Done, MaybeDone
  <2> QED
    BY <1>2, <1>4, <2>1, <2>2, Tells
<1>11. CASE ExecuteUnwinds(t)
  <2>1. pc[t] = "execute" /\ cl.answer = "err" /\ cl.depth > 0 /\ Goto(t, "rollback") /\ UNCHANGED result
    BY <1>2, <1>11 DEF ExecuteUnwinds, cl
  <2>2. t \notin db
    BY <1>2, <2>1 DEF Balance, Done, MaybeDone
  <2> QED
    BY <1>2, <1>4, <2>1, <2>2, GoesOn
<1>12. CASE Commit(t)
  <2>1. /\ Goto(t, "commit") /\ client' = [client EXCEPT ![held[t]] = Sent(@, t, CommitSql(Cl(t).depth))]
        /\ UNCHANGED <<held, kept, result>> /\ t \notin db
    BY <1>2, <1>12 DEF Commit, CommitTransaction, Cl
  <2>2. CommitSql(Cl(t).depth) \in Statement
    BY DEF CommitSql, Statement, Controls
  <2> QED
    BY <1>5, <2>1, <2>2
<1>13. CASE CommitReturns(t)
  <2>1. /\ pc[t] = "commit" /\ cl.answer = "ok"
        /\ kept' = [kept EXCEPT ![t] = Merged(S, EndedBy(cl))]
    BY <1>2, <1>13 DEF CommitReturns, cl
  <2>2. CASE EndedBy(cl) = 1
    <3>1. Finish(t, "leaving", "ok")
      BY <1>2, <1>13, <2>2 DEF CommitReturns
    <3>2. kept'[t] = Merged(S, EndedBy(cl))
      BY <2>1 DEF PoolInv, PoolShape
    <3>3. kept'[t] # {} <=> S # {}
      BY <3>2 DEF Merged
    <3>4. S # {} <=> t \in db
      BY <1>2, <2>1, <2>2 DEF Balance, Done, MaybeDone
    <3> QED
      BY <1>2, <1>4, <3>1, <3>3, <3>4, Tells
  <2>3. CASE EndedBy(cl) # 1
    <3>1. Goto(t, "body") /\ UNCHANGED result
      BY <1>2, <1>13, <2>3 DEF CommitReturns
    <3>2. t \notin db
      BY <1>2, <2>1, <2>3 DEF Balance, Done, MaybeDone
    <3> QED
      BY <1>2, <1>4, <3>1, <3>2, GoesOn
  <2> QED
    BY <2>2, <2>3
<1>14. CASE CommitRefused(t)
  <2>1. pc[t] = "commit" /\ cl.answer = "err"
    BY <1>14 DEF CommitRefused, cl
  <2>2. CASE cl.depth = 1
    <3>1. Finish(t, "leaving", IF cl.life = "lost" THEN "unknown" ELSE "failed")
      BY <1>2, <1>14, <2>2 DEF CommitRefused, cl
    <3>2. cl.life # "lost" => t \notin db
      BY <1>2, <2>1 DEF Balance, Done, MaybeDone
    <3> QED
      BY <1>2, <1>4, <3>1, <3>2, Tells
  <2>3. CASE cl.depth # 1
    <3>1. Goto(t, "body") /\ UNCHANGED result
      BY <1>2, <1>14, <2>3 DEF CommitRefused
    <3>2. t \notin db
      BY <1>2, <2>1, <2>3 DEF Balance, Done, MaybeDone
    <3> QED
      BY <1>2, <1>4, <3>1, <3>2, GoesOn
  <2> QED
    BY <2>2, <2>3
<1>15. CASE CommitUndone(t)
  <2>1. /\ pc[t] = "commit" /\ cl.answer = "err" /\ Goto(t, "undo")
        /\ client' = [client EXCEPT ![held[t]] = Sent(@, t, RollbackSql(Cl(t).depth))]
        /\ UNCHANGED <<held, kept, result>>
    BY <1>15 DEF CommitUndone, RollbackTransaction, Cl, cl
  <2>2. t \in db => cl.life = "lost"
    BY <1>2, <2>1 DEF Balance, Done, MaybeDone
  <2>3. RollbackSql(Cl(t).depth) \in Statement
    BY DEF RollbackSql, Statement, Controls
  <2> QED
    BY <1>5, <2>1, <2>2, <2>3
<1>16. CASE Rollback(t)
  <2>1. UNCHANGED result /\ Goto(t, "rollback") /\ t \notin db
    BY <1>2, <1>16 DEF Rollback
  <2> QED
    BY <1>2, <1>4, <2>1, GoesOn
<1>17. CASE RollbackReturns(t)
  <2>1. t \notin db
    <3>1. CASE pc[t] = "rollback"
      BY <1>2, <3>1
    <3>2. CASE pc[t] = "undo" /\ cl.answer = "ok"
      <4>1. cl.life = "open"
        BY <1>3, <3>2 DEF InFlight, Pending, Open
      <4> QED
        BY <1>2, <3>2, <4>1 DEF Balance, Done, MaybeDone
    <3>3. CASE pc[t] = "commit" /\ cl.answer = "err" /\ cl.depth = 0
      BY <1>2, <3>3 DEF Balance, Done, MaybeDone
    <3> QED
      BY <1>2, <1>17, <3>1, <3>2, <3>3 DEF RollbackReturns, cl
  <2>2. CASE Finish(t, "leaving", "failed")
    BY <1>2, <1>4, <2>1, <2>2, Tells
  <2>3. CASE Goto(t, "body") /\ UNCHANGED result
    BY <1>2, <1>4, <2>1, <2>3, GoesOn
  <2> QED
    BY <1>17, <2>2, <2>3 DEF RollbackReturns
<1>18. CASE RollbackFails(t)
  <2>1. Finish(t, "leaving", IF pc[t] = "undo" THEN "unknown" ELSE "failed")
    BY <1>18 DEF RollbackFails
  <2>2. pc[t] # "undo" => t \notin db
    BY <1>2, <1>18 DEF RollbackFails
  <2> QED
    BY <1>2, <1>4, <2>1, <2>2, Tells
<1>19. ~Leave(t)
  BY DEF Leave
<1> QED
  BY <1>6, <1>7, <1>8, <1>9, <1>10, <1>11, <1>12, <1>13, <1>14, <1>15, <1>16, <1>17, <1>18, <1>19
  DEF Work

\* At its end the caller is told that it gave up, or was told before.
LEMMA EndAccount ==
    ASSUME NEW t \in Task, PoolInv, OutcomeInv,
           \/ Leave(t) \/ WaitTimeout(t) \/ CreateFails(t) \/ Cancel(t)
    PROVE  IsTold(t) \/ WasTold(t)
<1>1. CASE Leave(t)
  <2>1. pc[t] = "leaving" /\ pc'[t] = "done" /\ UNCHANGED <<result, kept>>
    BY <1>1 DEF Leave, Goto, PoolInv, PoolShape
  <2> QED
    BY <2>1 DEF WasTold, Waits
<1>2. CASE WaitTimeout(t) \/ CreateFails(t)
  <2>1. Finish(t, "done", "refused") /\ pc[t] \in {"waiting", "granted", "creating"} /\ Waits(pc[t])
    BY <1>2 DEF WaitTimeout, GiveUp, CreateFails, Waits
  <2>2. Balance(db, t, pc[t], client[held[t]], kept[t])
    BY <2>1 DEF OutcomeInv, Balances
  <2>3. t \notin db
    BY <2>1, <2>2, BalanceElsewhere
  <2> QED
    BY <2>1, <2>3, Tells DEF Results
<1>3. CASE Cancel(t)
  <2>1. Finish(t, "done", "dropped") /\ Waits(pc[t])
    BY <1>3 DEF Cancel, CancelWait, GiveUp, CancelCreate, CancelPing, CancelWork, InFlight, Waits
  <2> QED
    BY <2>1, Tells DEF Results
<1> QED
  BY <1>1, <1>2, <1>3

\* Every step of a task touches one connection at most and keeps its caller's
\* account right.
LEMMA TaskStepOutcome ==
    ASSUME NEW t \in Task, PoolInv, SessionInv, OutcomeInv, BeginsWhole, TaskStep(t)
    PROVE  /\ TouchesOne(t) /\ OthersRest(t)
           /\ WaitsOn(t) \/ IsTold(t) \/ WasTold(t)
<1>1. OthersRest(t)
  BY TaskStepAlone
<1>2. CASE Checkout(t)
  BY <1>1, <1>2, CheckoutTouches, CheckoutAccount
<1>3. CASE Work(t) /\ pc[t] # "leaving"
  <2>1. pc[t] \in Owning
    BY <1>3 DEF Work, Begin, BeginReturns, BeginFails, ExecuteStatement, ExecuteReturns, ExecuteFails,
                ExecuteUnwinds, Commit, CommitReturns, CommitRefused, CommitUndone, Rollback,
                RollbackReturns, RollbackFails, Leave, InHands, InFlight, Owning
  <2>2. held[t] \in Conn
    BY <2>1, OwnConnection
  <2> QED
    BY <1>1, <1>3, <2>2, WorkTouches, WorkAccount DEF TouchesOne
<1>4. CASE Work(t) /\ pc[t] = "leaving"
  <2>1. Leave(t)
    BY <1>4 DEF Work, Begin, BeginReturns, BeginFails, ExecuteStatement, ExecuteReturns,
                ExecuteFails, ExecuteUnwinds, Commit, CommitReturns, CommitRefused, CommitUndone, Rollback,
                RollbackReturns, RollbackFails
  <2> QED
    BY <1>1, <2>1, EndTouches, EndAccount
<1>5. CASE WaitTimeout(t) \/ CreateFails(t) \/ Cancel(t)
  BY <1>1, <1>5, EndTouches, EndAccount
<1> QED
  BY <1>2, <1>3, <1>4, <1>5 DEF TaskStep

\* So it keeps the invariant of the outcomes.
LEMMA TaskOutcome ==
    ASSUME NEW t \in Task, PoolInv, OutcomeInv, TouchesOne(t), OthersRest(t),
           WaitsOn(t) \/ IsTold(t) \/ WasTold(t)
    PROVE  OutcomeInv'
<1>1. \A u \in Task \ {t} : /\ pc'[u] = pc[u] /\ held'[u] = held[u]
                            /\ kept'[u] = kept[u] /\ result'[u] = result[u]
  BY DEF OthersRest
<1>2. result'[t] = result[t] \/ result[t] = "none"
  BY DEF WaitsOn, IsTold, WasTold, OutcomeInv, Awaited
<1>3. \A u \in Task : result[u] = "dropped" => result'[u] = "dropped"
  BY <1>1, <1>2
<1>4. NothingCut'
  BY DEF TouchesOne, Touches, OutcomeInv, NothingCut
<1>5. WiresOwn'
  <2> SUFFICES ASSUME NEW d \in Conn PROVE WireOwn(client'[d], server'[d], result')
    BY DEF WiresOwn
  <2>1. WireOwn(client[d], server[d], result)
    BY DEF OutcomeInv, WiresOwn
  <2>2. client[d].wire # "none" => client[d].by \in Task
    BY DEF PoolInv, PoolShape, ConnShape, Sound
  <2>3. WireOwn(client[d], server[d], result')
    BY <1>3, <2>1, <2>2 DEF WireOwn
  <2>4. \/ client'[d] = client[d] /\ server'[d] = server[d]
        \/ WireOwn(client'[d], server'[d], result')
    BY DEF TouchesOne, Touches
  <2> QED
    BY <2>3, <2>4
<1>6. Awaited'
  <2> SUFFICES ASSUME NEW u \in Task, Waits(pc'[u]) PROVE result'[u] = "none"
    BY DEF Awaited
  <2>1. CASE u = t
    BY <2>1 DEF WaitsOn, IsTold, WasTold, OutcomeInv, Awaited
  <2>2. CASE u # t
    BY <1>1, <2>2 DEF OutcomeInv, Awaited
  <2> QED
    BY <2>1, <2>2
<1>7. Balances'
  <2> SUFFICES ASSUME NEW u \in Task, Waits(pc'[u])
               PROVE  Balance(db', u, pc'[u], client'[held'[u]], kept'[u])
    BY DEF Balances
  <2>1. db' = db
    BY DEF OthersRest
  <2>2. CASE u = t
    BY <2>1, <2>2 DEF WaitsOn, IsTold, WasTold
  <2>3. CASE u # t
    <3>1. /\ pc'[u] = pc[u] /\ held'[u] = held[u] /\ kept'[u] = kept[u]
          /\ Balance(db, u, pc[u], client[held[u]], kept[u])
      BY <1>1, <2>3 DEF OutcomeInv, Balances
    <3>2. CASE pc[u] \in {"execute", "commit", "undo"}
      <4>1. held[u] \in Conn
        BY <3>2 DEF PoolInv, PoolShape, Owning, InHands, InFlight
      <4>2. client'[held[u]] = client[held[u]]
        BY <2>3, <4>1 DEF TouchesOne, Touches
      <4> QED
        BY <2>1, <3>1, <4>2
    <3>3. CASE pc[u] \notin {"execute", "commit", "undo"}
      BY <2>1, <3>1, <3>3, BalanceElsewhere
    <3> QED
      BY <3>2, <3>3
  <2> QED
    BY <2>2, <2>3
<1> QED
  BY <1>4, <1>5, <1>6, <1>7 DEF OutcomeInv

LEMMA InitOutcome == Init => OutcomeInv
<1> SUFFICES ASSUME Init PROVE OutcomeInv
  OBVIOUS
<1>1. \A c \in Conn : client[c] = NoClient /\ server[c] = NoTransaction
  BY DEF Init, ConnInit
<1>2. \A t \in Task : pc[t] = "new" /\ result[t] = "none" /\ t \notin db
  BY DEF Init, ConnInit
<1> HIDE DEF NoClient, NoTransaction
<1>3. NothingCut /\ WiresOwn
  BY <1>1, NoClientFacts, NoTransactionFacts DEF NothingCut, WiresOwn, WireOwn
<1>4. Awaited /\ Balances
  BY <1>2, BalanceElsewhere DEF Awaited, Balances
<1> QED
  BY <1>3, <1>4 DEF OutcomeInv

LEMMA StepOutcome ==
    ASSUME PoolInv, SessionInv, OutcomeInv, BeginsWhole, [Next]_vars
    PROVE  OutcomeInv'
<1>1. ASSUME NEW t \in Task, TaskStep(t) PROVE OutcomeInv'
  BY <1>1, TaskStepOutcome, TaskOutcome
<1>2. ASSUME NEW c \in Conn, ConnStep(c) PROVE OutcomeInv'
  BY <1>2, ServerOutcome
<1>3. CASE UNCHANGED vars
  BY <1>3 DEF vars, OutcomeInv, NothingCut, WiresOwn, Awaited, Balances
<1> QED
  BY <1>1, <1>2, <1>3 DEF Next, Rest

\* On every connection the statement on the wire is its sender's own affair,
\* and what is durable of a task's work is what its caller is about to be told.
THEOREM OutcomeInvHolds == BeginsWhole => (Spec => []OutcomeInv)
<1> SUFFICES ASSUME BeginsWhole PROVE Spec => []OutcomeInv
  OBVIOUS
<1>1. Init => OutcomeInv
  BY InitOutcome
<1>2. PoolInv /\ SessionInv /\ OutcomeInv /\ [Next]_vars => OutcomeInv'
  BY StepOutcome
<1> QED
  BY <1>1, <1>2, SessionInvHolds, PTL DEF Spec

\* Once a caller has its result, or its future is gone, its work becomes durable
\* through its own statement still on the wire or not at all: no later user of
\* the connection commits what another left behind.
THEOREM NeverLate == BeginsWhole => (Spec => NoLateCommit)
<1> SUFFICES ASSUME BeginsWhole PROVE Spec => NoLateCommit
  OBVIOUS
<1> DEFINE Late == \A t \in db' \ db : result[t] # "none" =>
                      \E c \in Conn : client[c].by = t /\ client[c].wire \in {"COMMIT", "EXECUTE"}
<1>1. PoolInv /\ SessionInv /\ OutcomeInv /\ [Next]_vars => [Late]_vars
  <2> SUFFICES ASSUME PoolInv, SessionInv, OutcomeInv, Next PROVE Late
    OBVIOUS
  <2>1. ASSUME NEW t \in Task, TaskStep(t) PROVE db' = db
    BY <2>1, TaskStepOutcome DEF OthersRest
  <2>2. ASSUME NEW c \in Conn, ConnStep(c) PROVE Late
    BY <2>2, GrownByWire DEF ConnStep
  <2>3. UNCHANGED vars => db' = db
    BY DEF vars
  <2> QED
    BY <2>1, <2>2, <2>3 DEF Next, Rest
<1> QED
  BY <1>1, SessionInvHolds, OutcomeInvHolds, PTL DEF Spec, NoLateCommit

-----------------------------------------------------------------------------
(* The promise of Outcomes.                                                *)

\* What the callers know, as Outcomes has it.
Callers == [t \in Task |-> ToldCaller(t)]

\* A step of a task is the telling of its outcome, or none.
LEMMA TaskStepIsPromised ==
    ASSUME NEW t \in Task, PoolInv, OutcomeInv, OthersRest(t),
           WaitsOn(t) \/ IsTold(t) \/ WasTold(t)
    PROVE  [Promise!Next]_<<db, Callers>>
<1>1. \A u \in Task \ {t} : ToldCaller(u)' = ToldCaller(u)
  BY DEF OthersRest, ToldCaller
<1>2. Callers = [u \in Task |-> ToldCaller(u)] /\ Callers' = [u \in Task |-> ToldCaller(u)']
  BY DEF Callers
<1>3. Callers' = [Callers EXCEPT ![t] = ToldCaller(t)']
  BY <1>1, <1>2
<1>4. db' = db
  BY DEF OthersRest
<1>5. CASE WaitsOn(t) \/ WasTold(t)
  <2>1. ToldCaller(t)' = ToldCaller(t)
    <3>1. CASE WasTold(t)
      BY <3>1 DEF WasTold, ToldCaller
    <3>2. CASE WaitsOn(t)
      <4>1. result'[t] = "none" /\ result[t] = "none"
        BY <3>2 DEF WaitsOn, OutcomeInv, Awaited
      <4> QED
        BY <4>1 DEF ToldCaller
    <3> QED
      BY <1>5, <3>1, <3>2
  <2>2. Callers' = Callers
    BY <1>1, <1>2, <2>1
  <2> QED
    BY <1>4, <2>2
<1>6. CASE IsTold(t)
  <2> DEFINE r == ToldCaller(t)'
  <2>1. result[t] = "none"
    BY <1>6 DEF IsTold, OutcomeInv, Awaited
  <2>2. r \in {"done", "nothing", "unknown"}
    BY <1>6 DEF IsTold, Truthful, ToldCaller
  <2>3. (r = "done" => t \in db') /\ (r = "nothing" => t \notin db')
    BY <1>4, <1>6 DEF IsTold, Truthful, ToldCaller
  <2> HIDE DEF r
  <2>4. ToldCaller(t) = "pending"
    BY <2>1 DEF ToldCaller
  <2>5. Callers[t] = "pending"
    BY <1>2, <2>4
  <2>6. Callers' = [Callers EXCEPT ![t] = r]
    BY <1>3 DEF r
  <2>7. Promise!Tell(t, r)
    BY <1>4, <2>3, <2>5, <2>6 DEF Promise!Tell, Callers
  <2>8. r \in Promise!Told \ {"pending"}
    BY <2>2 DEF Promise!Told
  <2> QED
    BY <2>7, <2>8 DEF Promise!Next
<1> QED
  BY <1>5, <1>6

\* A step of the server is the moment a unit of work takes effect, while its
\* caller waits or after it has turned away, or no step of the promise at all.
LEMMA ServerStepIsPromised ==
    ASSUME NEW c \in Conn, PoolInv, SessionInv, OutcomeInv, ConnStep(c)
    PROVE  [Promise!Next]_<<db, Callers>>
<1>1. ServerStep(c) \/ Lose(c)
  BY DEF ConnStep
<1>2. \A u \in Task : ToldCaller(u)' = ToldCaller(u)
  BY DEF ConnStep, taskVars, ToldCaller
<1>3. Callers' = Callers
  BY <1>2 DEF Callers
<1>4. CASE db' = db
  BY <1>3, <1>4
<1>5. CASE db' # db
  <2> DEFINE t == client[c].by
  <2>1. /\ client[c].wire \in {"COMMIT", "EXECUTE"} /\ t \in Task
        /\ db' = db \cup {t}
    BY <1>1, <1>5, GrownByWire
  <2>2. result[t] \in {"none", "dropped"}
    <3>1. CASE client[c].heard
      <4>1. pc[t] \in InFlight
        BY <2>1, <3>1, SenderWaits
      <4> QED
        BY <2>1, <4>1 DEF OutcomeInv, Awaited, Waits, InFlight
    <3>2. CASE ~client[c].heard
      BY <2>1, <3>2 DEF OutcomeInv, WiresOwn, WireOwn
    <3> QED
      BY <3>1, <3>2
  <2> HIDE DEF t
  <2>3. ToldCaller(t) \in {"pending", "unknown"}
    BY <2>2 DEF ToldCaller
  <2>4. Callers[t] \in {"pending", "unknown"}
    BY <2>1, <2>3 DEF Callers
  <2>5. Promise!TakeEffect(t)
    BY <1>3, <2>1, <2>4 DEF Promise!TakeEffect, Callers
  <2> QED
    BY <2>1, <2>5 DEF Promise!Next
<1> QED
  BY <1>4, <1>5

LEMMA StepIsPromised ==
    ASSUME PoolInv, SessionInv, OutcomeInv, BeginsWhole, [Next]_vars
    PROVE  [Promise!Next]_<<db, Callers>>
<1>1. ASSUME NEW t \in Task, TaskStep(t) PROVE [Promise!Next]_<<db, Callers>>
  BY <1>1, TaskStepOutcome, TaskStepIsPromised
<1>2. ASSUME NEW c \in Conn, ConnStep(c) PROVE [Promise!Next]_<<db, Callers>>
  BY <1>2, ServerStepIsPromised
<1>3. CASE UNCHANGED vars
  <2>1. \A u \in Task : ToldCaller(u)' = ToldCaller(u)
    BY <1>3 DEF vars, ToldCaller
  <2> QED
    BY <1>3, <2>1 DEF vars, Callers
<1> QED
  BY <1>1, <1>2, <1>3 DEF Next, Rest

\* The deadpool pool implements Outcomes, through cancellations at any await
\* but a Postgres BEGIN, lost sessions and refused commits: work reported done
\* is durable, work reported failed never is, and no unit takes effect by
\* another user's hand after its caller was told.
THEOREM AsyncKeepsPromise == BeginsWhole => (Spec => KeepsPromise)
<1> SUFFICES ASSUME BeginsWhole PROVE Spec => KeepsPromise
  OBVIOUS
<1>1. Init => Promise!Init
  BY DEF Init, ConnInit, Promise!Init, ToldCaller
<1>2. PoolInv /\ SessionInv /\ OutcomeInv /\ [Next]_vars => [Promise!Next]_<<db, Callers>>
  BY StepIsPromised
<1> QED
  BY <1>1, <1>2, SessionInvHolds, OutcomeInvHolds, PTL DEF Spec, KeepsPromise, Promise!Spec, Callers

=============================================================================
