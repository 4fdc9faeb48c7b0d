------------------------------ MODULE AsyncPool ------------------------------
(***************************************************************************)
(* AsyncPool: deadpool over AsyncDualConnection, and the tasks that use it *)
(* through async_pool.rs and async_connection.rs.                          *)
(*                                                                         *)
(* A task checks a connection out, does one unit of work with it (a        *)
(* statement of its own or a transaction with nested ones, as the closure  *)
(* passed to `transaction` decides) and gives the connection back.  At     *)
(* every await its future may be dropped, and the connection guard with    *)
(* it, which returns the connection to the pool in whatever state it is.   *)
(*                                                                         *)
(* A checkout is granted a permit of the pool's semaphore in arrival order *)
(* (a grant may find its task timing out or dropped, and then moves on),   *)
(* then tries the idle connections one by one: one whose transaction       *)
(* manager is broken, or which does not answer `SELECT 1`, is dropped and  *)
(* the next is tried; with none left a connection is established.          *)
(***************************************************************************)
EXTENDS AsyncConnection, Sequences, FiniteSets

CONSTANTS
    NoConn,     \* no connection
    MaxSize,    \* AsyncBuilder::max_size
    Timeouts,   \* whether AsyncBuilder::connection_timeout was set
    MaxStmts,   \* bound on the statements of one closure
    CancelAt    \* the awaits at which a future may be dropped

Awaits == {"waiting", "pinging", "creating", "holding", "body",
           "begin", "execute", "commit", "rollback", "undo"}

ASSUME PoolAssumption ==
    /\ IsFiniteSet(Task)
    /\ MaxSize \in Nat \ {0}
    /\ MaxStmts \in Nat
    /\ Timeouts \in BOOLEAN
    /\ CancelAt \subseteq Awaits
    /\ NoConn \notin Conn

VARIABLES
    pc,         \* pc[t]: the await, or the place between two, where t stands
    held,       \* held[t]: the connection in t's hands
    kept,       \* kept[t]: the levels at which t's writes stand, as t knows
    budget,     \* budget[t]: statements t's closure may still issue
    result,     \* result[t]: what the caller was told of t's work
    queue,      \* tasks waiting for a permit, first come first
    permits,    \* free permits
    idle        \* idle connections, longest idle first

taskVars == <<pc, held, kept, budget, result>>
poolVars == <<queue, permits, idle>>
vars     == <<client, server, db, pc, held, kept, budget, result, queue, permits, idle>>

-----------------------------------------------------------------------------
Places == Awaits \cup {"new", "granted", "acquired", "leaving", "done"}

\* The future has a statement out.
InFlight == {"begin", "execute", "commit", "rollback", "undo"}

\* The task has the connection to itself.
InHands == InFlight \cup {"holding", "body", "leaving"}

\* The task has a permit of the pool.
Permitted == InHands \cup {"granted", "acquired", "pinging", "creating"}

Results == {"none", "ok", "failed", "unknown", "refused", "panicked", "dropped"}

TypeOK ==
    /\ ConnTypeOK
    /\ pc \in [Task -> Places]
    /\ held \in [Task -> Conn \cup {NoConn}]
    /\ kept \in [Task -> SUBSET Depth]
    /\ budget \in [Task -> 0 .. MaxStmts]
    /\ result \in [Task -> Results]
    /\ queue \in Seq(Task)
    /\ permits \in 0 .. MaxSize
    /\ idle \in Seq(Conn)

Init ==
    /\ ConnInit
    /\ pc     = [t \in Task |-> "new"]
    /\ held   = [t \in Task |-> NoConn]
    /\ kept   = [t \in Task |-> {}]
    /\ budget = [t \in Task |-> MaxStmts]
    /\ result = [t \in Task |-> "none"]
    /\ queue = <<>>
    /\ permits = MaxSize
    /\ idle = <<>>

Goto(t, p) == pc' = [pc EXCEPT ![t] = p]

\* The task's call is over: r is what its caller sees.
Finish(t, p, r) ==
    /\ Goto(t, p)
    /\ result' = [result EXCEPT ![t] = r]

-----------------------------------------------------------------------------
(* The checkout: AsyncPool::get and deadpool's Pool::timeout_get.          *)

Get(t) ==
    /\ pc[t] = "new"
    /\ Goto(t, "waiting")
    /\ queue' = Append(queue, t)
    /\ UNCHANGED <<connVars, held, kept, budget, result, permits, idle>>

\* The semaphore assigns a permit to the first waiter, whose future has still
\* to be polled.
Grant(t) ==
    /\ pc[t] = "waiting"
    /\ queue # <<>> /\ t = Head(queue)
    /\ permits > 0
    /\ queue' = Tail(queue)
    /\ permits' = permits - 1
    /\ Goto(t, "granted")
    /\ UNCHANGED <<connVars, held, kept, budget, result, idle>>

Acquire(t) ==
    /\ pc[t] = "granted"
    /\ Goto(t, "acquired")
    /\ UNCHANGED <<connVars, held, kept, budget, result, poolVars>>

LeaveQueue(t) ==
    \E i \in DOMAIN queue :
        /\ queue[i] = t
        /\ queue' = SubSeq(queue, 1, i - 1) \o SubSeq(queue, i + 1, Len(queue))

\* Mutant: a permit on its way to a waiter that gives up is lost.
GiveUpNoPermit(t) ==
    \/ pc[t] = "waiting" /\ LeaveQueue(t) /\ UNCHANGED permits
    \/ pc[t] = "granted" /\ UNCHANGED <<queue, permits>>

\* A waiter's future goes away: out of the queue, or with a permit assigned to
\* it meanwhile, which is free again.
GiveUp(t) ==
    \/ pc[t] = "waiting" /\ LeaveQueue(t) /\ UNCHANGED permits
    \/ pc[t] = "granted" /\ permits' = permits + 1 /\ UNCHANGED queue

WaitTimeout(t) ==
    /\ Timeouts
    /\ GiveUp(t)
    /\ Finish(t, "done", "refused")
    /\ UNCHANGED <<connVars, held, kept, budget, idle>>

\* An idle connection that passes the manager's look at its status is pinged.
Recycle(t) ==
    /\ pc[t] = "acquired"
    /\ idle # <<>>
    /\ ~Shared(Head(idle))
    /\ ~IsBrokenTransactionManager(Head(idle))
    /\ idle' = Tail(idle)
    /\ held' = [held EXCEPT ![t] = Head(idle)]
    /\ Goto(t, "pinging")
    /\ UNCHANGED <<connVars, kept, budget, result, queue, permits>>

\* One that fails it is dropped, and the next one tried.
RecycleBroken(t) ==
    /\ pc[t] = "acquired"
    /\ idle # <<>>
    /\ ~Shared(Head(idle))
    /\ IsBrokenTransactionManager(Head(idle))
    /\ idle' = Tail(idle)
    /\ client' = [client EXCEPT ![Head(idle)] = Discarded(@)]
    /\ UNCHANGED <<server, db, taskVars, queue, permits>>

\* The look itself panics while a dropped future's SQLite job still runs: the
\* unwinding checkout drops the connection and gives the permit back.
RecyclePanics(t) ==
    /\ pc[t] = "acquired"
    /\ idle # <<>>
    /\ Shared(Head(idle))
    /\ idle' = Tail(idle)
    /\ client' = [client EXCEPT ![Head(idle)] = Discarded(@)]
    /\ permits' = permits + 1
    /\ Finish(t, "done", "panicked")
    /\ UNCHANGED <<server, db, held, kept, budget, queue>>

\* `SELECT 1` is answered after every statement sent before it.
PingAnswered(t) ==
    /\ pc[t] = "pinging"
    /\ client[held[t]].wire = "none"
    /\ Responds(held[t])
    /\ Goto(t, "holding")
    /\ UNCHANGED <<connVars, held, kept, budget, result, poolVars>>

PingFails(t) ==
    /\ pc[t] = "pinging"
    /\ client[held[t]].wire = "none"
    /\ ~Responds(held[t])
    /\ client' = [client EXCEPT ![held[t]] = Discarded(@)]
    /\ held' = [held EXCEPT ![t] = NoConn]
    /\ Goto(t, "acquired")
    /\ UNCHANGED <<server, db, kept, budget, result, poolVars>>

Create(t) ==
    /\ pc[t] = "acquired"
    /\ idle = <<>>
    /\ Goto(t, "creating")
    /\ UNCHANGED <<connVars, held, kept, budget, result, poolVars>>

Created(t) ==
    /\ pc[t] = "creating"
    /\ \E c \in Conn :
          /\ Establish(c)
          /\ held' = [held EXCEPT ![t] = c]
    /\ Goto(t, "holding")
    /\ UNCHANGED <<kept, budget, result, poolVars>>

\* The database refuses, or create_timeout passes.
CreateFails(t) ==
    /\ pc[t] = "creating"
    /\ permits' = permits + 1
    /\ Finish(t, "done", "refused")
    /\ UNCHANGED <<connVars, held, kept, budget, queue, idle>>

-----------------------------------------------------------------------------
(* The work: RunQueryDsl and AsyncConnection::transaction.                 *)

Cl(t) == client[held[t]]

\* The level at which the task's next write would stand.
Level(t) == Cl(t).depth

\* transaction(): begin, at the top or nested in a closure.
Begin(t) ==
    /\ \/ pc[t] = "holding"
       \/ pc[t] = "body" /\ budget[t] > 0 /\ Level(t) < MaxDepth
    /\ BeginTransaction(held[t], t)
    /\ Goto(t, "begin")
    /\ budget' = IF pc[t] = "body" THEN [budget EXCEPT ![t] = @ - 1] ELSE budget
    /\ UNCHANGED <<server, db, held, kept, result, poolVars>>

BeginReturns(t) ==
    /\ pc[t] = "begin"
    /\ Cl(t).answer = "ok"
    /\ client' = [client EXCEPT ![held[t]] = Settled(@, Deeper(@))]
    /\ Goto(t, "body")
    /\ UNCHANGED <<server, db, held, kept, budget, result, poolVars>>

\* A begin that fails: the outermost ends the call, the error of a nested one
\* goes to the closure around it.
BeginFails(t) ==
    /\ pc[t] = "begin"
    /\ Cl(t).answer = "err"
    /\ client' = [client EXCEPT ![held[t]] = Settled(@, @.depth)]
    /\ IF Level(t) = 0
         THEN Finish(t, "leaving", "failed")
         ELSE Goto(t, "body") /\ UNCHANGED result
    /\ UNCHANGED <<server, db, held, kept, budget, poolVars>>

ExecuteStatement(t) ==
    /\ pc[t] \in {"holding", "body"}
    /\ budget[t] > 0
    /\ Execute(held[t], t)
    /\ Goto(t, "execute")
    /\ budget' = [budget EXCEPT ![t] = @ - 1]
    /\ UNCHANGED <<server, db, held, kept, result, poolVars>>

ExecuteReturns(t) ==
    /\ pc[t] = "execute"
    /\ Cl(t).answer = "ok"
    /\ client' = [client EXCEPT ![held[t]] = Returned(@)]
    /\ kept' = [kept EXCEPT ![t] = @ \cup {Level(t)}]
    /\ IF Level(t) = 0
         THEN Finish(t, "leaving", "ok")
         ELSE Goto(t, "body") /\ UNCHANGED result
    /\ UNCHANGED <<server, db, held, budget, poolVars>>

\* Outside a transaction the error is the caller's, and one on a lost
\* connection leaves open whether the statement was carried out.
ExecuteFails(t) ==
    /\ pc[t] = "execute"
    /\ Cl(t).answer = "err"
    /\ Level(t) = 0
    /\ client' = [client EXCEPT ![held[t]] = Returned(@)]
    /\ Finish(t, "leaving", IF Cl(t).life = "lost" THEN "unknown" ELSE "failed")
    /\ UNCHANGED <<server, db, held, kept, budget, poolVars>>

\* In a closure it becomes the closure's error, and the innermost transaction
\* is rolled back.
ExecuteUnwinds(t) ==
    /\ pc[t] = "execute"
    /\ Cl(t).answer = "err"
    /\ Level(t) > 0
    /\ RollbackTransaction(held[t], t)
    /\ Goto(t, "rollback")
    /\ UNCHANGED <<server, db, held, kept, budget, result, poolVars>>

\* The closure ends with Ok.
Commit(t) ==
    /\ pc[t] = "body"
    /\ CommitTransaction(held[t], t)
    /\ Goto(t, "commit")
    /\ UNCHANGED <<server, db, held, kept, budget, result, poolVars>>

\* What the task's writes stand for once level d ends.
Merged(S, d) == {IF l = d THEN d - 1 ELSE l : l \in S}

\* The depth of the transaction that has just ended, on either arm.
Ended(t) == IF Arm = "pg" THEN Cl(t).depth ELSE Cl(t).depth + 1

\* The closure's Ok stands: the call is over, or the closure around goes on.
CommitReturns(t) ==
    /\ pc[t] = "commit"
    /\ Cl(t).answer = "ok"
    /\ client' = [client EXCEPT ![held[t]] = Settled(@, Shallower(@))]
    /\ kept' = [kept EXCEPT ![t] = Merged(@, Ended(t))]
    /\ IF Ended(t) = 1
         THEN Finish(t, "leaving", "ok")
         ELSE Goto(t, "body") /\ UNCHANGED result
    /\ UNCHANGED <<server, db, held, budget, poolVars>>

\* A commit failed and the manager leaves it at that: its status still shows the
\* transaction, whatever became of it, so no checkout takes the connection.
CommitRefused(t) ==
    /\ pc[t] = "commit"
    /\ Cl(t).answer = "err"
    /\ Level(t) > 0
    /\ client' = [client EXCEPT ![held[t]] = Settled(@, @.depth)]
    /\ IF Level(t) = 1
         THEN Finish(t, "leaving", IF Cl(t).life = "lost" THEN "unknown" ELSE "failed")
         ELSE Goto(t, "body") /\ UNCHANGED result
    /\ UNCHANGED <<server, db, held, kept, budget, poolVars>>

\* On Postgres the manager may answer a failed commit with a rollback.
CommitUndone(t) ==
    /\ Arm = "pg"
    /\ pc[t] = "commit"
    /\ Cl(t).answer = "err"
    /\ RollbackTransaction(held[t], t)
    /\ Goto(t, "undo")
    /\ UNCHANGED <<server, db, held, kept, budget, result, poolVars>>

\* The closure ends with Err.
Rollback(t) ==
    /\ pc[t] = "body"
    /\ RollbackTransaction(held[t], t)
    /\ Goto(t, "rollback")
    /\ UNCHANGED <<server, db, held, kept, budget, result, poolVars>>

\* A level is undone: by the closure's Err, by the manager after a failed
\* commit or, on SQLite, by the commit's own job.
RollbackReturns(t) ==
    /\ \/ pc[t] \in {"rollback", "undo"} /\ Cl(t).answer = "ok"
       \/ Arm = "sqlite" /\ pc[t] = "commit" /\ Cl(t).answer = "err" /\ Level(t) = 0
    /\ client' = [client EXCEPT ![held[t]] = Settled(@, Shallower(@))]
    /\ kept' = [kept EXCEPT ![t] = @ \ {Ended(t)}]
    /\ IF Ended(t) = 1
         THEN Finish(t, "leaving", "failed")
         ELSE Goto(t, "body") /\ UNCHANGED result
    /\ UNCHANGED <<server, db, held, budget, poolVars>>

\* A rollback that fails leaves the manager in error; after a failed commit
\* the caller does not know what became of the work.
RollbackFails(t) ==
    /\ pc[t] \in {"rollback", "undo"}
    /\ Cl(t).answer = "err"
    /\ client' = [client EXCEPT ![held[t]] = [Settled(@, @.depth) EXCEPT !.inError = TRUE]]
    /\ Finish(t, "leaving", IF pc[t] = "undo" THEN "unknown" ELSE "failed")
    /\ UNCHANGED <<server, db, held, kept, budget, poolVars>>

-----------------------------------------------------------------------------
(* Giving the connection back.                                             *)

\* Mutant: the connection comes back, its permit does not.
GiveBackNoPermit(t) ==
    /\ idle' = Append(idle, held[t])
    /\ held' = [held EXCEPT ![t] = NoConn]
    /\ UNCHANGED permits

\* Dropping the guard queues the connection as idle, unchecked.
GiveBack(t) ==
    /\ idle' = Append(idle, held[t])
    /\ permits' = permits + 1
    /\ held' = [held EXCEPT ![t] = NoConn]

Leave(t) ==
    /\ pc[t] = "leaving"
    /\ GiveBack(t)
    /\ Goto(t, "done")
    /\ UNCHANGED <<connVars, kept, budget, result, queue>>

\* The task's future is dropped while it waits for the pool.
CancelWait(t) ==
    /\ "waiting" \in CancelAt
    /\ GiveUp(t)
    /\ Finish(t, "done", "dropped")
    /\ UNCHANGED <<connVars, held, kept, budget, idle>>

\* The permit is free again.
CancelCreate(t) ==
    /\ pc[t] \in {"creating"} \cap CancelAt
    /\ permits' = permits + 1
    /\ Finish(t, "done", "dropped")
    /\ UNCHANGED <<connVars, held, kept, budget, queue, idle>>

\* A connection under test is dropped with the checkout.
CancelPing(t) ==
    /\ pc[t] \in {"pinging"} \cap CancelAt
    /\ client' = [client EXCEPT ![held[t]] = Discarded(@)]
    /\ held' = [held EXCEPT ![t] = NoConn]
    /\ permits' = permits + 1
    /\ Finish(t, "done", "dropped")
    /\ UNCHANGED <<server, db, kept, budget, queue, idle>>

\* The task's future is dropped at work: what it sent stays sent.
CancelWork(t) ==
    /\ pc[t] \in (InFlight \cup {"holding", "body"}) \cap CancelAt
    /\ client' = [client EXCEPT ![held[t]] = Dropped(@)]
    /\ server' = [server EXCEPT ![held[t]].cut =
                     @ \/ (Arm = "pg" /\ pc[t] = "begin" /\ Level(t) = 0)]
    /\ GiveBack(t)
    /\ Finish(t, "done", "dropped")
    /\ UNCHANGED <<db, kept, budget, queue>>

-----------------------------------------------------------------------------
Cancel(t) == CancelWait(t) \/ CancelCreate(t) \/ CancelPing(t) \/ CancelWork(t)

Checkout(t) ==
    \/ Get(t)
    \/ Grant(t)
    \/ Acquire(t)
    \/ Recycle(t)
    \/ RecycleBroken(t)
    \/ RecyclePanics(t)
    \/ PingAnswered(t)
    \/ PingFails(t)
    \/ Create(t)
    \/ Created(t)

Work(t) ==
    \/ Begin(t)
    \/ BeginReturns(t)
    \/ BeginFails(t)
    \/ ExecuteStatement(t)
    \/ ExecuteReturns(t)
    \/ ExecuteFails(t)
    \/ ExecuteUnwinds(t)
    \/ Commit(t)
    \/ CommitReturns(t)
    \/ CommitRefused(t)
    \/ CommitUndone(t)
    \/ Rollback(t)
    \/ RollbackReturns(t)
    \/ RollbackFails(t)
    \/ Leave(t)

TaskStep(t) == Checkout(t) \/ Work(t) \/ WaitTimeout(t) \/ CreateFails(t) \/ Cancel(t)

ConnStep(c) == (ServerStep(c) \/ Lose(c)) /\ UNCHANGED <<taskVars, poolVars>>

\* Every task has been served: the system rests.
Rest ==
    /\ \A t \in Task : pc[t] = "done"
    /\ UNCHANGED vars

Next ==
    \/ \E t \in Task : TaskStep(t)
    \/ \E c \in Conn : ConnStep(c)
    \/ Rest

Spec == Init /\ [][Next]_vars

\* The executor polls every task that can go on, closures end, and the database
\* works off what it was sent.  Nothing is assumed of timeouts, of dropped
\* futures or of lost connections.
Fairness ==
    /\ \A t \in Task : WF_vars(Checkout(t)) /\ WF_vars(Work(t))
    /\ \A c \in Conn : WF_vars(ServerStep(c) /\ UNCHANGED <<taskVars, poolVars>>)

FairSpec == Spec /\ Fairness

-----------------------------------------------------------------------------
(* Properties.                                                             *)

\* A connection fresh from a checkout carries no open transaction of an earlier
\* user, however its future ended, unless a BEGIN was dropped on it: whatever
\* is left open otherwise shows in the status and is_broken drops it.
CleanUnlessCut ==
    \A t \in Task : pc[t] = "holding" =>
        \/ server[held[t]].depth = 0 /\ server[held[t]].pend = {}
        \/ server[held[t]].cut

\* Between two statements the status of the transaction manager, the task's
\* account of its own writes and the server's session agree: the commit or
\* rollback that the status picks ends the level the task believes it ends.
Agreement ==
    \A t \in Task :
        /\ pc[t] \in {"holding", "body"}
        /\ Cl(t).life = "open"
        /\ ~server[held[t]].cut
        => /\ server[held[t]].depth = Cl(t).depth
           /\ server[held[t]].pend = {t} \X kept[t]

\* The pool neither leaks nor doubles a slot, at whatever await a checkout or
\* its user is dropped: every permit is free or with a task, a live connection
\* is idle once or in the hands of one task, and there are at most max_size.
SlotsConserved ==
    /\ permits + Cardinality({t \in Task : pc[t] \in Permitted}) = MaxSize
    /\ Cardinality({c \in Conn : client[c].life \in {"open", "lost"}}) <= MaxSize
    /\ \A c \in Conn : client[c].life \in {"open", "lost"} =>
          Cardinality({i \in DOMAIN idle : idle[i] = c})
            + Cardinality({t \in Task : held[t] = c}) = 1

\* Once a caller has its result, or its future is gone, its work becomes durable
\* only through its own statement still on the wire: no later user of the
\* connection commits it.
NoLateCommit ==
    [][\A t \in db' \ db : result[t] # "none" =>
          \E c \in Conn : client[c].by = t /\ client[c].wire \in {"COMMIT", "EXECUTE"}]_vars

\* Every call of the pool returns, whatever the other tasks do with their
\* connections: no permit is lost and no waiter overlooked.
EveryCallReturns == \A t \in Task : pc[t] = "waiting" ~> pc[t] = "done"

\* async_pool.rs: "dropped when their transaction manager is broken".  The
\* Postgres arm's manager is broken when a transaction statement was cut off.
BrokenDropped == \A t \in Task : pc[t] = "holding" => ~client[held[t]].flag

\* What the caller knows once t's future has returned.
ToldCaller(t) ==
    CASE result[t] = "none" -> "pending"
      [] result[t] = "ok" /\ kept[t] # {} -> "done"
      [] result[t] \in {"unknown", "dropped"} -> "unknown"
      [] OTHER -> "nothing"

Promise == INSTANCE Outcomes
              WITH durable <- db, told <- [t \in Task |-> ToldCaller(t)]

\* The pool keeps what its callers rely on: work reported done is durable, work
\* reported failed never is, and each unit takes effect on its own.
KeepsPromise == Promise!Spec
=============================================================================
