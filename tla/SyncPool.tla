------------------------------ MODULE SyncPool ------------------------------
(***************************************************************************)
(* Pool: r2d2 over DualConnection (pool.rs, pg.rs) and the threads that    *)
(* use it.                                                                 *)
(*                                                                         *)
(* A pool is built for a URL, eagerly or lazily.  Connections are opened   *)
(* in the background and retried until one succeeds; r2d2 keeps count of   *)
(* those that are open (num) and under way (pending).  A thread that finds *)
(* none idle sleeps on a condition variable; who pushes a connection wakes *)
(* one sleeper, which may find the connection gone again.  A connection is *)
(* pinged when it is taken (is_valid) and dropped when it comes back with  *)
(* an open or broken transaction (has_broken).                             *)
(*                                                                         *)
(* A statement blocks its thread and is one step.  On Postgres the session *)
(* may be cut at any moment; libpq then reports it and the transaction     *)
(* manager turns to its error state, at the next statement.  A closure may *)
(* return, fail or panic at any point.                                     *)
(***************************************************************************)
EXTENDS DualUrl, SequencesExt

CONSTANTS
    Thread,     \* the threads of the application
    Conn,       \* identities for the connections open at a time
    NoConn,     \* no connection
    Urls,       \* the URLs a pool is built for
    MaxSize,    \* Builder::max_size
    MinIdle,    \* Builder::min_idle, or MaxSize where it is not set
    MaxDepth,   \* bound on the nesting of transactions
    MaxStmts,   \* bound on the statements of one closure
    MaxFaults   \* bound on lost sessions and server outages

ASSUME SyncPoolAssumption ==
    /\ MaxSize \in Nat \ {0}
    /\ MinIdle \in 1 .. MaxSize
    /\ MaxDepth \in Nat \ {0}
    /\ MaxStmts \in Nat /\ MaxFaults \in Nat
    /\ Urls \subseteq Url
    /\ Cardinality(Conn) = MaxSize /\ NoConn \notin Conn

VARIABLES
    url,        \* what the pool was built for
    phase,      \* how far the pool is
    up,         \* the server takes connections
    conn,       \* conn[c]: the program's end of c
    session,    \* session[c]: the database's end
    db,         \* the threads whose work is durable
    pc,         \* pc[t]: where thread t stands
    held,       \* held[t]: the connection in t's hands
    kept,       \* kept[t]: the levels at which t's writes stand, as t knows
    budget,     \* budget[t]: statements t's closure may still issue
    result,     \* result[t]: what t's caller was told
    idle,       \* the idle connections; the last one is taken first
    num,        \* num_conns
    pending,    \* pending_conns
    faults      \* faults still to come

connVars   == <<conn, session>>
threadVars == <<pc, held, kept, budget, result>>
countVars  == <<idle, num, pending>>
vars == <<url, phase, up, conn, session, db, pc, held, kept, budget, result,
          idle, num, pending, faults>>

-----------------------------------------------------------------------------
Phases  == {"new", "building", "ready", "refused"}
Places  == {"new", "trying", "waiting", "testing", "holding", "body", "unwinding",
            "leaving", "done"}
InHands == {"testing", "holding", "body", "unwinding", "leaving"}
Results == {"none", "ok", "failed", "unknown", "refused", "panicked"}
Level   == 0 .. MaxDepth
Opened  == {Server, Memory, Refused} \cup {File(u) : u \in Url}

NoConnection  == [life |-> "absent", opened |-> Refused, depth |-> 0, inError |-> FALSE]
NoTransaction == [depth |-> 0, aborted |-> FALSE, pend |-> {}]

TypeOK ==
    /\ url \in Urls /\ phase \in Phases /\ up \in BOOLEAN
    /\ conn \in [Conn -> [life : {"absent", "live", "cut"}, opened : Opened,
                          depth : Level, inError : BOOLEAN]]
    /\ session \in [Conn -> [depth : Level, aborted : BOOLEAN,
                             pend : SUBSET (Thread \X (1 .. MaxDepth))]]
    /\ db \subseteq Thread
    /\ pc \in [Thread -> Places]
    /\ held \in [Thread -> Conn \cup {NoConn}]
    /\ kept \in [Thread -> SUBSET Level]
    /\ budget \in [Thread -> 0 .. MaxStmts]
    /\ result \in [Thread -> Results]
    /\ idle \in Seq(Conn)
    /\ num \in 0 .. MaxSize /\ pending \in 0 .. MaxSize
    /\ faults \in 0 .. MaxFaults

Init ==
    /\ url \in Urls /\ phase = "new" /\ up \in BOOLEAN
    /\ conn = [c \in Conn |-> NoConnection]
    /\ session = [c \in Conn |-> NoTransaction]
    /\ db = {}
    /\ pc     = [t \in Thread |-> "new"]
    /\ held   = [t \in Thread |-> NoConn]
    /\ kept   = [t \in Thread |-> {}]
    /\ budget = [t \in Thread |-> MaxStmts]
    /\ result = [t \in Thread |-> "none"]
    /\ idle = <<>> /\ num = 0 /\ pending = 0
    /\ faults = MaxFaults

Goto(t, p) == pc' = [pc EXCEPT ![t] = p]

\* Mutant: nobody is told of a connection that comes back.
NotifyNobody(places) == pc' = places

\* notify_one: one sleeper, if there is one, goes back to look.
Notify(places) ==
    \/ pc' = places /\ \A w \in Thread : places[w] # "waiting"
    \/ \E w \in Thread : places[w] = "waiting" /\ pc' = [places EXCEPT ![w] = "trying"]

\* Mutant: the room left under max_size is not looked at.
RefillUnbounded(i, n) == pending' = pending + Max({MinIdle - i, 0})

\* establish_idle_connections, with i idle and n open connections.
Refill(i, n) ==
    LET missing == Max({MinIdle - i, 0})
        room    == Max({MaxSize - n - pending, 0})
    IN pending' = pending + Min({missing, room})

-----------------------------------------------------------------------------
(* Building the pool.                                                      *)

ConnectUnknown ==
    /\ phase = "new" /\ DetectBackend(url) = "unknown"
    /\ phase' = "refused"
    /\ UNCHANGED <<url, up, connVars, db, threadVars, countVars, faults>>

\* Builder::connect waits for the first connections, connect_lazy does not;
\* both set them off.
Start(p) ==
    /\ phase = "new" /\ DetectBackend(url) # "unknown"
    /\ phase' = p
    /\ Refill(0, 0)
    /\ UNCHANGED <<url, up, connVars, db, threadVars, idle, num, faults>>

Connect     == Start("building")
ConnectLazy == Start("ready")

BuildReady ==
    /\ phase = "building" /\ num = MinIdle
    /\ phase' = "ready"
    /\ UNCHANGED <<url, up, connVars, db, threadVars, countVars, faults>>

\* The half-built pool is dropped with what it had opened.
BuildTimeout ==
    /\ phase = "building" /\ num # MinIdle
    /\ phase' = "refused"
    /\ conn' = [c \in Conn |-> NoConnection]
    /\ session' = [c \in Conn |-> NoTransaction]
    /\ idle' = <<>> /\ num' = 0 /\ pending' = 0
    /\ UNCHANGED <<url, up, db, threadVars, faults>>

\* Mutant: the derived establish, which tries Postgres and then SQLite.
ReachedDerived ==
    IF PgOpens(url) = Server /\ up THEN Server ELSE SqliteOpens(url)

\* DualConnectionManager::connect at this moment.
Reached == IF Opens(url) = Server /\ ~up THEN Refused ELSE Opens(url)

\* A background connect succeeds; one that fails is retried, and still pending.
Establish(c) ==
    /\ phase \in {"building", "ready"} /\ pending > 0
    /\ conn[c].life = "absent" /\ Reached # Refused
    /\ conn' = [conn EXCEPT ![c] = [NoConnection EXCEPT !.life = "live", !.opened = Reached]]
    /\ idle' = Append(idle, c) /\ num' = num + 1 /\ pending' = pending - 1
    /\ Notify(pc)
    /\ UNCHANGED <<url, phase, up, session, db, held, kept, budget, result, faults>>

-----------------------------------------------------------------------------
(* The server.                                                             *)

CutOff(C) ==
    /\ conn' = [c \in Conn |-> IF c \in C THEN [conn[c] EXCEPT !.life = "cut"] ELSE conn[c]]
    /\ session' = [c \in Conn |-> IF c \in C THEN NoTransaction ELSE session[c]]

OnServer(c) == conn[c].life = "live" /\ conn[c].opened = Server

Lose(c) ==
    /\ OnServer(c) /\ faults > 0
    /\ faults' = faults - 1
    /\ CutOff({c})
    /\ UNCHANGED <<url, phase, up, db, threadVars, countVars>>

ServerDown ==
    /\ DetectBackend(url) = "pg" /\ up /\ faults > 0
    /\ up' = FALSE /\ faults' = faults - 1
    /\ CutOff({c \in Conn : OnServer(c)})
    /\ UNCHANGED <<url, phase, db, threadVars, countVars>>

ServerUp ==
    /\ ~up
    /\ up' = TRUE
    /\ UNCHANGED <<url, phase, connVars, db, threadVars, countVars, faults>>

-----------------------------------------------------------------------------
(* The checkout: Pool::get.                                                *)

Get(t) ==
    /\ phase = "ready" /\ pc[t] = "new"
    /\ Goto(t, "trying")
    /\ UNCHANGED <<url, phase, up, connVars, db, held, kept, budget, result, countVars, faults>>

Take(t) ==
    /\ pc[t] = "trying" /\ idle # <<>>
    /\ held' = [held EXCEPT ![t] = Last(idle)]
    /\ idle' = Front(idle)
    /\ Refill(Len(idle) - 1, num)
    /\ Goto(t, "testing")
    /\ UNCHANGED <<url, phase, up, connVars, db, kept, budget, result, num, faults>>

\* add_connection, then asleep.
Wait(t) ==
    /\ pc[t] = "trying" /\ idle = <<>>
    /\ pending' = IF num + pending < MaxSize THEN pending + 1 ELSE pending
    /\ Goto(t, "waiting")
    /\ UNCHANGED <<url, phase, up, connVars, db, held, kept, budget, result, idle, num, faults>>

Timeout(t) ==
    /\ pc[t] = "waiting"
    /\ Goto(t, "done")
    /\ result' = [result EXCEPT ![t] = "refused"]
    /\ UNCHANGED <<url, phase, up, connVars, db, held, kept, budget, countVars, faults>>

\* is_valid: the arm's ping, SELECT 1.
IsValid(c) == conn[c].life = "live" /\ ~session[c].aborted

TestOk(t) ==
    /\ pc[t] = "testing" /\ IsValid(held[t])
    /\ Goto(t, "holding")
    /\ UNCHANGED <<url, phase, up, connVars, db, held, kept, budget, result, countVars, faults>>

\* Mutant: the count of open connections is left as it was.
DropUncounted(t) ==
    /\ conn' = [conn EXCEPT ![held[t]] = NoConnection]
    /\ session' = [session EXCEPT ![held[t]] = NoTransaction]
    /\ held' = [held EXCEPT ![t] = NoConn]
    /\ UNCHANGED num
    /\ Refill(Len(idle), num)

\* drop_conns: the database rolls back what was open.
Drop(t) ==
    /\ conn' = [conn EXCEPT ![held[t]] = NoConnection]
    /\ session' = [session EXCEPT ![held[t]] = NoTransaction]
    /\ held' = [held EXCEPT ![t] = NoConn]
    /\ num' = num - 1
    /\ Refill(Len(idle), num - 1)

TestFails(t) ==
    /\ pc[t] = "testing" /\ ~IsValid(held[t])
    /\ Drop(t)
    /\ Goto(t, "trying")
    /\ UNCHANGED <<url, phase, up, db, kept, budget, result, idle, faults>>

-----------------------------------------------------------------------------
(* The work: statements and transactions of DualConnection.                *)

Status(t) == conn[held[t]].depth
Alive(t)  == conn[held[t]].life = "live"
AtWork(t) == pc[t] \in {"holding", "body"}

\* Nothing outside the connection in t's hands and t itself.
PoolStill == UNCHANGED <<url, phase, up, countVars, held>>

Finish(t, r) ==
    /\ Goto(t, "leaving")
    /\ result' = [result EXCEPT ![t] = r]

\* A nested transaction is one of the closure's statements.
Begin(t) ==
    /\ AtWork(t) /\ Alive(t) /\ Status(t) < MaxDepth
    /\ \/ pc[t] = "holding" /\ UNCHANGED budget
       \/ pc[t] = "body" /\ budget[t] > 0 /\ budget' = [budget EXCEPT ![t] = @ - 1]
    /\ conn' = [conn EXCEPT ![held[t]].depth = @ + 1]
    /\ session' = [session EXCEPT ![held[t]].depth = @ + 1]
    /\ Goto(t, "body")
    /\ UNCHANGED <<db, kept, result, faults>> /\ PoolStill

\* A statement of its own ends the unit of work; one in a transaction goes on.
Execute(t) ==
    /\ AtWork(t) /\ Alive(t) /\ budget[t] > 0
    /\ budget' = [budget EXCEPT ![t] = @ - 1]
    /\ kept' = [kept EXCEPT ![t] = @ \cup {Status(t)}]
    /\ IF session[held[t]].depth = 0
         THEN db' = db \cup {t} /\ UNCHANGED session
         ELSE /\ session' = [session EXCEPT ![held[t]].pend =
                                @ \cup {<<t, session[held[t]].depth>>}]
              /\ UNCHANGED db
    /\ IF pc[t] = "holding" THEN Finish(t, "ok") ELSE UNCHANGED <<pc, result>>
    /\ UNCHANGED <<conn, faults>> /\ PoolStill

\* The database refuses: Postgres aborts the transaction.  `?` leaves the closure.
ExecuteFails(t) ==
    /\ AtWork(t) /\ Alive(t) /\ budget[t] > 0
    /\ session' = [session EXCEPT ![held[t]].aborted =
                      DetectBackend(url) = "pg" /\ session[held[t]].depth > 0]
    /\ IF pc[t] = "holding" THEN Finish(t, "failed")
                            ELSE Goto(t, "unwinding") /\ UNCHANGED result
    /\ UNCHANGED <<conn, db, kept, budget, faults>> /\ PoolStill

\* The closure returns an error of its own, or panics: no rollback then.
Unwind(t) ==
    /\ pc[t] = "body"
    /\ Goto(t, "unwinding")
    /\ UNCHANGED <<connVars, db, kept, budget, result, faults>> /\ PoolStill

Panic(t) ==
    /\ AtWork(t)
    /\ Finish(t, "panicked")
    /\ UNCHANGED <<connVars, db, kept, budget, faults>> /\ PoolStill

\* What the arm's COMMIT makes durable.
Committed(t) == db \cup {p[1] : p \in session[held[t]].pend}

Commit(t) ==
    /\ pc[t] = "body" /\ Alive(t) /\ Status(t) = 1
    /\ db' = Committed(t)
    /\ session' = [session EXCEPT ![held[t]] = NoTransaction]
    /\ conn' = [conn EXCEPT ![held[t]].depth = 0]
    /\ Finish(t, "ok")
    /\ UNCHANGED <<kept, budget, faults>> /\ PoolStill

\* A deferred constraint: Postgres has rolled back and libpq says so; SQLite
\* leaves the transaction open, and the status with it.
CommitRefused(t) ==
    /\ pc[t] = "body" /\ Alive(t) /\ Status(t) = 1
    /\ IF DetectBackend(url) = "pg"
         THEN /\ session' = [session EXCEPT ![held[t]] = NoTransaction]
              /\ conn' = [conn EXCEPT ![held[t]].depth = 0]
         ELSE UNCHANGED connVars
    /\ Finish(t, "failed")
    /\ UNCHANGED <<db, kept, budget, faults>> /\ PoolStill

\* The session ends with the work durable and the answer under way: that of a
\* COMMIT, or of a statement of its own.
AnswerLost(t) ==
    /\ AtWork(t) /\ OnServer(held[t]) /\ faults > 0
    /\ \/ pc[t] = "body" /\ Status(t) = 1 /\ db' = Committed(t)
       \/ pc[t] = "holding" /\ budget[t] > 0 /\ db' = db \cup {t}
    /\ faults' = faults - 1
    /\ session' = [session EXCEPT ![held[t]] = NoTransaction]
    /\ conn' = [conn EXCEPT ![held[t]].life = "cut", ![held[t]].inError = TRUE]
    /\ Finish(t, "unknown")
    /\ UNCHANGED <<kept, budget>> /\ PoolStill

\* RELEASE SAVEPOINT: the level's writes become its parent's.
Release(t) ==
    /\ pc[t] = "body" /\ Alive(t) /\ Status(t) > 1
    /\ LET d == session[held[t]].depth IN
       session' = [session EXCEPT
          ![held[t]].depth = d - 1,
          ![held[t]].pend = {<<p[1], Min({p[2], d - 1})>> : p \in @}]
    /\ kept' = [kept EXCEPT ![t] = {Min({l, Status(t) - 1}) : l \in @}]
    /\ conn' = [conn EXCEPT ![held[t]].depth = @ - 1]
    /\ UNCHANGED <<db, pc, budget, result, faults>> /\ PoolStill

Rollback(t) ==
    /\ pc[t] = "unwinding" /\ Alive(t) /\ Status(t) = 1
    /\ session' = [session EXCEPT ![held[t]] = NoTransaction]
    /\ conn' = [conn EXCEPT ![held[t]].depth = 0]
    /\ kept' = [kept EXCEPT ![t] = {}]
    /\ Finish(t, "failed")
    /\ UNCHANGED <<db, budget, faults>> /\ PoolStill

\* The outer closure passes the error on or goes on without the nested work.
RollbackTo(t) ==
    /\ pc[t] = "unwinding" /\ Alive(t) /\ Status(t) > 1
    /\ LET d == session[held[t]].depth IN
       session' = [session EXCEPT
          ![held[t]].depth = d - 1, ![held[t]].aborted = FALSE,
          ![held[t]].pend = {p \in @ : p[2] < d}]
    /\ conn' = [conn EXCEPT ![held[t]].depth = @ - 1]
    /\ kept' = [kept EXCEPT ![t] = {l \in @ : l < Status(t)}]
    /\ \E p \in {"body", "unwinding"} : Goto(t, p)
    /\ UNCHANGED <<db, budget, result, faults>> /\ PoolStill

\* The first statement on a session that was cut: the manager is in error and
\* every level gives up.  Whether a COMMIT was the one that fell into the gap
\* its caller cannot tell.
Broken(t) ==
    /\ AtWork(t) \/ pc[t] = "unwinding"
    /\ conn[held[t]].life = "cut"
    /\ conn' = [conn EXCEPT ![held[t]].inError = TRUE]
    /\ \E r \in {"failed", "unknown"} : Finish(t, r)
    /\ UNCHANGED <<session, db, kept, budget, faults>> /\ PoolStill

Leave(t) ==
    /\ pc[t] = "holding"
    /\ Finish(t, "ok")
    /\ UNCHANGED <<connVars, db, kept, budget, faults>> /\ PoolStill

-----------------------------------------------------------------------------
(* The way back: PooledConnection::drop, in a panic too.                   *)

\* Mutant: an open transaction is none of the pool's business.
BrokenOnlyInError(c) == conn[c].inError

\* has_broken: the arm's is_broken.
HasBroken(c) == conn[c].inError \/ conn[c].depth > 0

PutBack(t) ==
    /\ pc[t] = "leaving" /\ ~HasBroken(held[t])
    /\ idle' = Append(idle, held[t])
    /\ held' = [held EXCEPT ![t] = NoConn]
    /\ Notify([pc EXCEPT ![t] = "done"])
    /\ UNCHANGED <<url, phase, up, connVars, db, kept, budget, result, num, pending, faults>>

\* Nobody is woken: the connection that takes its place will.
PutBackBroken(t) ==
    /\ pc[t] = "leaving" /\ HasBroken(held[t])
    /\ Drop(t)
    /\ Goto(t, "done")
    /\ UNCHANGED <<url, phase, up, db, kept, budget, result, idle, faults>>

-----------------------------------------------------------------------------
Building == ConnectUnknown \/ Connect \/ ConnectLazy \/ BuildReady

Checkout(t) == Get(t) \/ Take(t) \/ Wait(t) \/ TestOk(t) \/ TestFails(t)

Work(t) ==
    \/ Begin(t) \/ Execute(t) \/ ExecuteFails(t) \/ Unwind(t) \/ Leave(t)
    \/ Commit(t) \/ CommitRefused(t) \/ Release(t) \/ Rollback(t) \/ RollbackTo(t)
    \/ Broken(t) \/ PutBack(t) \/ PutBackBroken(t)

\* Every thread has been served, or there is no pool to be served by.
Rest ==
    /\ phase = "refused" \/ \A t \in Thread : pc[t] = "done"
    /\ UNCHANGED vars

Next ==
    \/ Building \/ BuildTimeout
    \/ \E c \in Conn : Establish(c) \/ Lose(c)
    \/ ServerDown \/ ServerUp
    \/ \E t \in Thread : Checkout(t) \/ Work(t) \/ Timeout(t) \/ Panic(t) \/ AnswerLost(t)
    \/ Rest

Spec == Init /\ [][Next]_vars

\* Threads go on, closures end, the background connects are retried and the
\* server comes back up.  Nothing is assumed of timeouts, panics and faults.
Fairness ==
    /\ WF_vars(Building) /\ WF_vars(ServerUp)
    /\ \A c \in Conn : WF_vars(Establish(c))
    /\ \A t \in Thread : WF_vars(Checkout(t)) /\ WF_vars(Work(t))

FairSpec == Spec /\ Fairness

-----------------------------------------------------------------------------
(* Properties.                                                             *)

\* r2d2 hands a connection out on the word of has_broken alone (SELECT 1
\* succeeds inside a transaction): whoever starts to work finds it outside any
\* transaction, whatever its last user did, panics and refused commits included.
StartsClean ==
    \A t \in Thread : pc[t] = "holding" =>
        /\ conn[held[t]].depth = 0 /\ ~conn[held[t]].inError
        /\ session[held[t]] = NoTransaction

\* The counts on which r2d2 decides whether to open another connection are
\* those of the connections there are, across pings that fail, users that
\* panic and sessions that are cut; each is idle once or in one thread's hands.
CountsMatch ==
    LET Open == {c \in Conn : conn[c].life # "absent"} IN
    /\ num = Cardinality(Open)
    /\ num + pending <= MaxSize
    /\ \A c \in Conn :
          Cardinality({i \in DOMAIN idle : idle[i] = c})
            + Cardinality({t \in Thread : held[t] = c}) = IF c \in Open THEN 1 ELSE 0

\* pool.rs: "the pool establishes exactly the detected backend".  Through
\* outages and retries every connection is on the database the URL names, the
\* one an async connection for the same URL is on; only for a URL written with
\* capitals or blanks may that be a file of another name.
OpensWhatItNames ==
    \A c \in Conn : conn[c].life # "absent" =>
        /\ conn[c].opened = AsyncOpens(url)
        /\ \/ conn[c].opened = Named(url)
           \/ (Loose(url) /\ DetectBackend(url) = "sqlite" /\ conn[c].opened.kind = "file")

\* A thread asleep for a connection is woken for one as long as the URL can be
\* opened at all, and a pool under construction is done: through outages, dead
\* connections that are replaced and wake-ups that come to nothing.
GetsServed ==
    Opens(url) # Refused =>
        /\ \A t \in Thread : pc[t] = "waiting" ~> pc[t] # "waiting"
        /\ \A t \in Thread : pc[t] = "trying" ~> pc[t] \in {"holding", "done"}
        /\ phase = "building" ~> phase # "building"

ToldCaller(t) ==
    CASE result[t] = "none"                    -> "pending"
      [] result[t] = "ok" /\ kept[t] # {}      -> "done"
      [] result[t] = "unknown"                 -> "unknown"
      [] OTHER                                 -> "nothing"

Promise == INSTANCE Outcomes
              WITH Task <- Thread, durable <- db, told <- [t \in Thread |-> ToldCaller(t)]

\* The r2d2 pool keeps the promise the async one keeps: work reported done is
\* durable, work that failed or panicked never is, whoever gets the connection.
KeepsPromise == Promise!Spec
=============================================================================
