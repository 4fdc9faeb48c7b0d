-------------------------- MODULE AsyncConnection --------------------------
(***************************************************************************)
(* One AsyncDualConnection and the database session behind it: the two     *)
(* ends of a connection and the statements that travel between them.       *)
(*                                                                         *)
(* The client end is what async_connection.rs holds: the active arm, its   *)
(* transaction manager (status depth, error state) and, on the Postgres    *)
(* arm only, the `is_broken` flag that diesel-async raises while a         *)
(* transaction statement is in flight.  The server end is the session of   *)
(* the database: the open transaction, its savepoints and its writes.      *)
(*                                                                         *)
(* A statement is a call that another process answers.  On Postgres the    *)
(* server answers and the CLIENT then updates its status; on SQLite a      *)
(* blocking job runs the whole manager call, status update included, and   *)
(* goes on when nobody waits for it any more.                              *)
(*                                                                         *)
(* A write is named by the task that made it; pend is the set of pairs     *)
(* <<task, level>> of the writes of the open transaction.  A savepoint     *)
(* that was rolled back to and still exists under its name is merged into  *)
(* its parent: the two cannot be told apart by any later statement.        *)
(***************************************************************************)
EXTENDS Naturals

CONSTANTS
    Task,       \* the application's tasks (request handlers, say)
    Nobody,     \* no task
    Conn,       \* identities for the connections alive at a time
    Arm,        \* the backend the URL names: "pg" or "sqlite"
    MaxDepth    \* bound on the nesting of transactions

ASSUME ArmAssumption   == Arm \in {"pg", "sqlite"}
ASSUME DepthAssumption == MaxDepth \in Nat \ {0}
ASSUME NobodyAssumption == Nobody \notin Task

VARIABLES
    client,     \* client[c]: the program's end of connection c
    server,     \* server[c]: the database's session for c
    db          \* the tasks whose write is durable

connVars == <<client, server, db>>

-----------------------------------------------------------------------------
Depth == 0 .. MaxDepth

Controls  == {"BEGIN", "SAVEPOINT", "COMMIT", "RELEASE", "ROLLBACK", "ROLLBACK TO"}
Statement == Controls \cup {"EXECUTE"}

Life == {"absent", "open", "lost", "closing"}

ClientEnd == [life    : Life,
              depth   : Depth,          \* TransactionManagerStatus, valid
              inError : BOOLEAN,        \* TransactionManagerStatus::InError
              flag    : BOOLEAN,        \* AnsiTransactionManager::is_broken
              wire    : Statement \cup {"none"},
              by      : Task \cup {Nobody},     \* who sent what is on the wire
              heard   : BOOLEAN,        \* its future is still polled
              answer  : {"none", "ok", "err"}]

ServerEnd == [depth   : Depth,
              aborted : BOOLEAN,
              pend    : SUBSET (Task \X (1 .. MaxDepth)),
              cut     : BOOLEAN]        \* history: a BEGIN on it was dropped

NewClient == [life |-> "open", depth |-> 0, inError |-> FALSE, flag |-> FALSE,
              wire |-> "none", by |-> Nobody, heard |-> FALSE, answer |-> "none"]

NoClient == [NewClient EXCEPT !.life = "absent"]

NoTransaction == [depth |-> 0, aborted |-> FALSE, pend |-> {}, cut |-> FALSE]

ConnTypeOK ==
    /\ client \in [Conn -> ClientEnd]
    /\ server \in [Conn -> ServerEnd]
    /\ db \subseteq Task

ConnInit ==
    /\ client = [c \in Conn |-> NoClient]
    /\ server = [c \in Conn |-> NoTransaction]
    /\ db = {}

-----------------------------------------------------------------------------
(* The client end. *)

\* AsyncDualConnection::establish: a fresh session of the arm the URL names.
Establish(c) ==
    /\ client[c].life = "absent"
    /\ client' = [client EXCEPT ![c] = NewClient]
    /\ server' = [server EXCEPT ![c] = NoTransaction]
    /\ UNCHANGED db

\* A statement goes out.  The Postgres manager raises is_broken for the time
\* a transaction statement is in flight (diesel-async's critical block).
Sent(cl, t, sql) ==
    [cl EXCEPT !.wire = sql, !.by = t, !.heard = TRUE, !.answer = "none",
               !.flag = @ \/ (Arm = "pg" /\ sql \in Controls)]

\* begin_transaction of the active arm, at the depth its status shows.
BeginSql(d)    == IF d = 0 THEN "BEGIN" ELSE "SAVEPOINT"
CommitSql(d)   == IF d = 1 THEN "COMMIT" ELSE "RELEASE"
RollbackSql(d) == IF d = 1 THEN "ROLLBACK" ELSE "ROLLBACK TO"

BeginTransaction(c, t) ==
    client' = [client EXCEPT ![c] = Sent(@, t, BeginSql(@.depth))]

\* Mutant: the commit dispatches to the arm's rollback.
CommitRollsBack(c, t) ==
    client' = [client EXCEPT ![c] = Sent(@, t, RollbackSql(@.depth))]

CommitTransaction(c, t) ==
    client' = [client EXCEPT ![c] = Sent(@, t, CommitSql(@.depth))]

RollbackTransaction(c, t) ==
    client' = [client EXCEPT ![c] = Sent(@, t, RollbackSql(@.depth))]

\* execute_returning_count: the arm's future for the statement.
Execute(c, t) ==
    client' = [client EXCEPT ![c] = Sent(@, t, "EXECUTE")]

\* The future of a statement returns and takes the answer.
Returned(cl) == [cl EXCEPT !.answer = "none", !.heard = FALSE, !.by = Nobody]

\* A transaction statement also lowers the flag and leaves status depth d.
Settled(cl, d) == [Returned(cl) EXCEPT !.flag = FALSE, !.depth = d]

\* On SQLite the blocking job has already moved the status.
Deeper(cl)    == IF Arm = "pg" THEN cl.depth + 1 ELSE cl.depth
Shallower(cl) == IF Arm = "pg" THEN cl.depth - 1 ELSE cl.depth

\* The future is dropped: nobody takes the answer; what was sent stays sent.
Dropped(cl) ==
    [cl EXCEPT !.answer = "none", !.heard = FALSE,
               !.by = IF cl.wire = "none" THEN Nobody ELSE @]

\* Mutant: only an error counts as broken, not an open transaction.
BrokenOnlyInError(c) == client[c].inError

\* is_broken_transaction_manager as AsyncDualConnection has it: the trait's
\* default, which looks at the status and at nothing of the arm.
IsBrokenTransactionManager(c) == client[c].inError \/ client[c].depth > 0

\* A running SQLite job shares the connection; looking at the status panics.
Shared(c) == Arm = "sqlite" /\ client[c].wire # "none"

\* What `SELECT 1` finds.
Responds(c) == client[c].life = "open" /\ ~server[c].aborted

\* Mutant: a lost session is taken for a live one.
DiscardedAlive(cl) == [Dropped(cl) EXCEPT !.life = "closing"]

\* The handle goes away.  What is on the wire of a live session is still
\* carried out.
Discarded(cl) ==
    IF cl.life = "lost"
      THEN [NewClient EXCEPT !.life = "closing"]
      ELSE [Dropped(cl) EXCEPT !.life = "closing"]

-----------------------------------------------------------------------------
(* The server end: what the database, or the blocking job, does with the    *)
(* statement on the wire.                                                   *)

Working(c) == client[c].wire # "none" /\ client[c].life \in {"open", "closing"}

\* The answer, for who still listens, and on SQLite the status with it.
Answered(cl, a, d) ==
    [cl EXCEPT !.wire = "none", !.answer = IF cl.heard THEN a ELSE "none",
               !.by = IF cl.heard THEN @ ELSE Nobody,
               !.depth = IF Arm = "sqlite" THEN d ELSE @]

Reply(c, a, d) == client' = [client EXCEPT ![c] = Answered(@, a, d)]

\* BEGIN inside an open transaction is a warning, not an error.
ServerBegin(c) ==
    /\ Working(c)
    /\ client[c].wire = "BEGIN"
    /\ server' = [server EXCEPT ![c].depth = IF @ = 0 THEN 1 ELSE @]
    /\ Reply(c, "ok", client[c].depth + 1)
    /\ UNCHANGED db

ServerSavepoint(c) ==
    /\ Working(c)
    /\ client[c].wire = "SAVEPOINT"
    /\ server' = [server EXCEPT ![c].depth = @ + 1]
    /\ Reply(c, "ok", client[c].depth + 1)
    /\ UNCHANGED db

ServerExecute(c) ==
    /\ Working(c)
    /\ client[c].wire = "EXECUTE"
    /\ IF server[c].depth = 0
         THEN db' = db \cup {client[c].by} /\ UNCHANGED server
         ELSE /\ server' = [server EXCEPT ![c].pend =
                               @ \cup {<<client[c].by, server[c].depth>>}]
              /\ UNCHANGED db
    /\ Reply(c, "ok", client[c].depth)

\* A violated constraint, a busy file: Postgres aborts the open transaction.
ServerExecuteFails(c) ==
    /\ Working(c)
    /\ client[c].wire = "EXECUTE"
    /\ server' = [server EXCEPT ![c].aborted = Arm = "pg" /\ server[c].depth > 0]
    /\ Reply(c, "err", client[c].depth)
    /\ UNCHANGED db

Writers(pend) == {p[1] : p \in pend}

ServerCommit(c) ==
    /\ Working(c)
    /\ client[c].wire = "COMMIT"
    /\ db' = db \cup Writers(server[c].pend)
    /\ server' = [server EXCEPT ![c] = NoTransaction]
    /\ Reply(c, "ok", client[c].depth - 1)

\* A deferred constraint, a serialization failure: Postgres has rolled back; on
\* SQLite the job itself may send the ROLLBACK before it answers.
ServerCommitFails(c) ==
    /\ Working(c)
    /\ client[c].wire = "COMMIT"
    /\ server' = [server EXCEPT ![c] = NoTransaction]
    /\ Reply(c, "err", client[c].depth - 1)
    /\ UNCHANGED db

\* Or it does not: SQLite refuses and keeps the transaction open, and so does
\* the job's manager.
ServerCommitRefused(c) ==
    /\ Arm = "sqlite"
    /\ Working(c)
    /\ client[c].wire = "COMMIT"
    /\ Reply(c, "err", client[c].depth)
    /\ UNCHANGED <<server, db>>

\* The level's writes become its parent's.
ServerRelease(c) ==
    /\ Working(c)
    /\ client[c].wire = "RELEASE"
    /\ server' = [server EXCEPT
          ![c].depth = @ - 1,
          ![c].pend  = {<<p[1], IF p[2] = server[c].depth THEN p[2] - 1 ELSE p[2]>> : p \in @}]
    /\ Reply(c, "ok", client[c].depth - 1)
    /\ UNCHANGED db

ServerRollback(c) ==
    /\ Working(c)
    /\ client[c].wire = "ROLLBACK"
    /\ server' = [server EXCEPT ![c] = NoTransaction]
    /\ Reply(c, "ok", client[c].depth - 1)
    /\ UNCHANGED db

ServerRollbackTo(c) ==
    /\ Working(c)
    /\ client[c].wire = "ROLLBACK TO"
    /\ server' = [server EXCEPT
          ![c].depth   = @ - 1,
          ![c].aborted = FALSE,
          ![c].pend    = {p \in @ : p[2] < server[c].depth}]
    /\ Reply(c, "ok", client[c].depth - 1)
    /\ UNCHANGED db

\* Without its session, the client end learns of an error if it listens.
Severed(cl) ==
    [cl EXCEPT !.life = "lost", !.wire = "none",
               !.by = IF cl.heard THEN @ ELSE Nobody,
               !.answer = IF cl.heard THEN "err" ELSE "none"]

\* The Postgres session ends under the client: its transaction is rolled back
\* and an answer that was under way is lost.
Lose(c) ==
    /\ Arm = "pg"
    /\ client[c].life = "open"
    /\ client' = [client EXCEPT ![c] = Severed(@)]
    /\ server' = [server EXCEPT ![c] = NoTransaction]
    /\ UNCHANGED db

\* A statement on a lost connection fails at once.
Refuse(c) ==
    /\ client[c].life = "lost"
    /\ client[c].wire # "none"
    /\ Reply(c, "err", client[c].depth)
    /\ UNCHANGED <<server, db>>

\* A discarded connection closes once its statements are through; the database
\* rolls back what was open.
Close(c) ==
    /\ client[c].life = "closing"
    /\ client[c].wire = "none"
    /\ client' = [client EXCEPT ![c] = NoClient]
    /\ server' = [server EXCEPT ![c] = NoTransaction]
    /\ UNCHANGED db

ServerStep(c) ==
    \/ ServerBegin(c)
    \/ ServerSavepoint(c)
    \/ ServerExecute(c)
    \/ ServerExecuteFails(c)
    \/ ServerCommit(c)
    \/ ServerCommitFails(c)
    \/ ServerCommitRefused(c)
    \/ ServerRelease(c)
    \/ ServerRollback(c)
    \/ ServerRollbackTo(c)
    \/ Refuse(c)
    \/ Close(c)
=============================================================================
