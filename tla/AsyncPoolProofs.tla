-------------------------- MODULE AsyncPoolProofs --------------------------
(***************************************************************************)
(* Theorems about AsyncPool for any finite set of tasks, any connections,  *)
(* either arm and any max_size.                                            *)
(*                                                                         *)
(* First what each operation of the client end and each step of the server *)
(* leaves of a connection's shape: the type invariant without the bounds   *)
(* on depths, which is inductive by itself.  Then three layers, each       *)
(* inductive on top of the one below: the shape of the state, who owns     *)
(* each connection, and how many slots are taken.                          *)
(***************************************************************************)
EXTENDS AsyncPool, Integers, FiniteSetTheorems, TLAPS

-----------------------------------------------------------------------------
(* A connection.                                                           *)

ClientShape == [life    : Life,
                depth   : Int,
                inError : BOOLEAN,
                flag    : BOOLEAN,
                wire    : Statement \cup {"none"},
                by      : Task \cup {Nobody},
                heard   : BOOLEAN,
                answer  : {"none", "ok", "err"}]

ServerShape == [depth   : Int,
                aborted : BOOLEAN,
                pend    : SUBSET (Task \X Int),
                cut     : BOOLEAN]

\* What is on the wire has a sender, and an answer ends its statement.
Sound(cl) ==
    /\ cl \in ClientShape
    /\ cl.wire # "none" => cl.by \in Task
    /\ cl.answer # "none" => cl.wire = "none"

ConnShape ==
    /\ client \in [Conn -> ClientShape]
    /\ \A c \in Conn : Sound(client[c])
    /\ server \in [Conn -> ServerShape]
    /\ db \subseteq Task

\* The connection is one the pool accounts for.
Live(cl) == cl.life \in {"open", "lost"}

-----------------------------------------------------------------------------
(* The client end. *)

\* Sending a statement changes what is on the wire, not the status or the life.
LEMMA SentFacts ==
    ASSUME NEW cl \in ClientShape, NEW t \in Task, NEW sql \in Statement
    PROVE  /\ Sound(Sent(cl, t, sql))
           /\ Sent(cl, t, sql).life = cl.life
           /\ Sent(cl, t, sql).depth = cl.depth
           /\ (Sent(cl, t, sql).inError <=> cl.inError)
           /\ Sent(cl, t, sql).wire = sql
           /\ Sent(cl, t, sql).by = t
           /\ Sent(cl, t, sql).heard
           /\ Sent(cl, t, sql).answer = "none"
BY DEF Sent, Sound, ClientShape, Statement, Controls

\* A future that returns takes the answer and leaves the rest.
LEMMA ReturnedFacts ==
    ASSUME NEW cl \in ClientShape, Sound(cl), cl.wire = "none"
    PROVE  /\ Sound(Returned(cl))
           /\ Returned(cl).life = cl.life
           /\ Returned(cl).depth = cl.depth
           /\ (Returned(cl).inError <=> cl.inError)
           /\ Returned(cl).wire = "none"
           /\ Returned(cl).answer = "none"
           /\ ~Returned(cl).heard
BY DEF Returned, Sound, ClientShape

\* The return of a transaction statement sets the status to the depth it is given.
LEMMA SettledFacts ==
    ASSUME NEW cl \in ClientShape, Sound(cl), cl.wire = "none", NEW d \in Int
    PROVE  /\ Sound(Settled(cl, d))
           /\ Settled(cl, d).life = cl.life
           /\ Settled(cl, d).depth = d
           /\ (Settled(cl, d).inError <=> cl.inError)
           /\ Settled(cl, d).wire = "none"
           /\ Settled(cl, d).answer = "none"
           /\ ~Settled(cl, d).heard
BY DEF Settled, Returned, Sound, ClientShape

\* A dropped future leaves the wire, the status and the life as they are.
LEMMA DroppedFacts ==
    ASSUME NEW cl \in ClientShape, Sound(cl)
    PROVE  /\ Sound(Dropped(cl))
           /\ Dropped(cl).life = cl.life
           /\ Dropped(cl).depth = cl.depth
           /\ (Dropped(cl).inError <=> cl.inError)
           /\ Dropped(cl).wire = cl.wire
           /\ Dropped(cl).answer = "none"
           /\ ~Dropped(cl).heard
BY DEF Dropped, Sound, ClientShape

\* A fresh connection is open, idle and outside any transaction.
LEMMA NewClientFacts ==
    /\ Sound(NewClient) /\ Live(NewClient)
    /\ NewClient.life = "open" /\ NewClient.depth = 0
    /\ NewClient.wire = "none" /\ NewClient.answer = "none" /\ ~NewClient.heard
<1>1. NewClient \in ClientShape
  BY DEF NewClient, ClientShape, Life
<1>2. NewClient.life = "open" /\ NewClient.depth = 0
      /\ NewClient.wire = "none" /\ NewClient.answer = "none" /\ ~NewClient.heard
  BY DEF NewClient
<1> QED
  BY <1>1, <1>2 DEF Sound, Live

\* A record like a fresh one but for its life.
Fresh(l) == [NewClient EXCEPT !.life = l]

\* It is as idle as a fresh one.
LEMMA FreshWithLifeFacts ==
    ASSUME NEW l \in Life
    PROVE  /\ Sound(Fresh(l)) /\ Fresh(l).life = l
           /\ Fresh(l).depth = 0 /\ Fresh(l).wire = "none"
           /\ Fresh(l).answer = "none" /\ ~Fresh(l).heard
<1>1. NewClient \in ClientShape /\ ~NewClient.heard /\ NewClient.depth = 0
      /\ NewClient.wire = "none" /\ NewClient.answer = "none"
  BY NewClientFacts DEF NewClient, Sound
<1> HIDE DEF NewClient
<1> QED
  BY <1>1 DEF Fresh, Sound, ClientShape

\* A discarded connection is closing, with its statement still on the wire
\* unless the session is lost.
LEMMA DiscardedFacts ==
    ASSUME NEW cl \in ClientShape, Sound(cl)
    PROVE  /\ Sound(Discarded(cl))
           /\ Discarded(cl).life = "closing"
           /\ ~Live(Discarded(cl))
           /\ Discarded(cl).answer = "none"
           /\ ~Discarded(cl).heard
           /\ cl.life = "lost" => Discarded(cl).wire = "none" /\ Discarded(cl).depth = 0
           /\ cl.life # "lost" => Discarded(cl).wire = cl.wire /\ Discarded(cl).depth = cl.depth
<1>1. CASE cl.life = "lost"
  <2>1. Discarded(cl) = Fresh("closing")
    BY <1>1 DEF Discarded, Fresh
  <2>2. "closing" \in Life
    BY DEF Life
  <2> QED
    BY <1>1, <2>1, <2>2, FreshWithLifeFacts DEF Live
<1>2. CASE cl.life # "lost"
  <2> DEFINE d == Dropped(cl)
  <2>1. Sound(d) /\ d.depth = cl.depth /\ d.wire = cl.wire /\ d.answer = "none" /\ ~d.heard
    BY DroppedFacts
  <2>2. Discarded(cl) = [d EXCEPT !.life = "closing"]
    BY <1>2 DEF Discarded
  <2> HIDE DEF d
  <2> QED
    BY <1>2, <2>1, <2>2 DEF Sound, ClientShape, Live, Life
<1> QED
  BY <1>1, <1>2

\* An answer clears the wire and reaches whoever still listens.
LEMMA AnsweredFacts ==
    ASSUME NEW cl \in ClientShape, Sound(cl), NEW a \in {"ok", "err"}, NEW d \in Int
    PROVE  /\ Sound(Answered(cl, a, d))
           /\ Answered(cl, a, d).life = cl.life
           /\ Answered(cl, a, d).depth = IF Arm = "sqlite" THEN d ELSE cl.depth
           /\ (Answered(cl, a, d).inError <=> cl.inError)
           /\ Answered(cl, a, d).wire = "none"
           /\ (Answered(cl, a, d).heard <=> cl.heard)
           /\ cl.heard => Answered(cl, a, d).by = cl.by
           /\ Answered(cl, a, d).answer = IF cl.heard THEN a ELSE "none"
BY DEF Answered, Sound, ClientShape

\* A severed client end has nothing on the wire, and an error for who listens.
LEMMA SeveredFacts ==
    ASSUME NEW cl \in ClientShape, Sound(cl)
    PROVE  /\ Sound(Severed(cl))
           /\ Severed(cl).life = "lost"
           /\ Severed(cl).depth = cl.depth
           /\ (Severed(cl).inError <=> cl.inError)
           /\ Severed(cl).wire = "none"
           /\ (Severed(cl).heard <=> cl.heard)
           /\ cl.heard => Severed(cl).by = cl.by
           /\ Severed(cl).answer = IF cl.heard THEN "err" ELSE "none"
BY DEF Severed, Sound, ClientShape, Life

-----------------------------------------------------------------------------
(* The server end. *)

\* One connection's client end becomes cl, its server end sv.
Moved(c, cl, sv) ==
    /\ client' = [client EXCEPT ![c] = cl]
    /\ server' = [server EXCEPT ![c] = sv]

\* A step that replaces both ends of a connection by well-shaped ones keeps
\* the shape of all.
LEMMA MovedShape ==
    ASSUME NEW c \in Conn, NEW cl, NEW sv \in ServerShape,
           ConnShape, Sound(cl), Moved(c, cl, sv), db' \subseteq Task
    PROVE  /\ ConnShape'
           /\ client'[c] = cl /\ server'[c] = sv
           /\ \A d \in Conn \ {c} : client'[d] = client[d] /\ server'[d] = server[d]
<1>1. cl \in ClientShape
  BY DEF Sound
<1>2. client' \in [Conn -> ClientShape] /\ server' \in [Conn -> ServerShape]
  BY <1>1 DEF ConnShape, Moved
<1>3. /\ client'[c] = cl /\ server'[c] = sv
      /\ \A d \in Conn \ {c} : client'[d] = client[d] /\ server'[d] = server[d]
  BY DEF ConnShape, Moved
<1>4. \A d \in Conn : Sound(client'[d])
  BY <1>3 DEF ConnShape
<1> QED
  BY <1>2, <1>3, <1>4 DEF ConnShape, Sound

\* What an answering server does: the client end gets the answer, its own
\* session moves to sv.
LEMMA ReplyShape ==
    ASSUME NEW c \in Conn, NEW a \in {"ok", "err"}, NEW d \in Int, NEW sv \in ServerShape,
           ConnShape, Reply(c, a, d), server' = [server EXCEPT ![c] = sv], db' \subseteq Task
    PROVE  /\ ConnShape'
           /\ client'[c] = Answered(client[c], a, d) /\ server'[c] = sv
           /\ \A e \in Conn \ {c} : client'[e] = client[e] /\ server'[e] = server[e]
<1> DEFINE cl == Answered(client[c], a, d)
<1>1. Sound(client[c]) /\ client[c] \in ClientShape
  BY DEF ConnShape
<1>2. Sound(cl)
  BY <1>1, AnsweredFacts
<1>3. Moved(c, cl, sv)
  BY DEF Reply, Moved
<1> QED
  BY <1>2, <1>3, MovedShape

\* A session without a transaction has the shape.
LEMMA NoTransactionShape == NoTransaction \in ServerShape
BY DEF NoTransaction, ServerShape

\* The rest of the connections are not touched, and the pool's account of
\* connection c is not either.
Local(c) ==
    /\ \A d \in Conn \ {c} : client'[d] = client[d] /\ server'[d] = server[d]
    /\ Live(client'[c]) <=> Live(client[c])

\* Whatever the server does, the shape holds and the pool's account stands.
LEMMA ServerStepShape ==
    ASSUME NEW c \in Conn, ConnShape, ServerStep(c) \/ Lose(c)
    PROVE  ConnShape' /\ Local(c)
<1> DEFINE cl == client[c]
           sv == server[c]
<1>1. /\ Sound(cl) /\ cl \in ClientShape /\ sv \in ServerShape
      /\ db \subseteq Task
      /\ cl.depth + 1 \in Int /\ cl.depth - 1 \in Int /\ cl.depth \in Int
  BY DEF ConnShape, ClientShape
<1>2. ASSUME NEW a \in {"ok", "err"}, NEW d \in Int, NEW s \in ServerShape,
             Reply(c, a, d), server' = [server EXCEPT ![c] = s], db' \subseteq Task
      PROVE  ConnShape' /\ Local(c)
  <2>1. /\ ConnShape' /\ client'[c] = Answered(cl, a, d)
        /\ \A e \in Conn \ {c} : client'[e] = client[e] /\ server'[e] = server[e]
    BY <1>2, ReplyShape
  <2>2. Answered(cl, a, d).life = cl.life
    BY <1>1, AnsweredFacts
  <2> QED
    BY <2>1, <2>2 DEF Local, Live
<1>3. CASE ServerBegin(c)
  <2>1. [sv EXCEPT !.depth = IF @ = 0 THEN 1 ELSE @] \in ServerShape
    BY <1>1 DEF ServerShape
  <2> QED
    BY <1>1, <1>2, <1>3, <2>1 DEF ServerBegin
<1>4. CASE ServerSavepoint(c)
  <2>1. [sv EXCEPT !.depth = @ + 1] \in ServerShape
    BY <1>1 DEF ServerShape
  <2> QED
    BY <1>1, <1>2, <1>4, <2>1 DEF ServerSavepoint
<1>5. CASE ServerExecute(c)
  <2>1. cl.by \in Task
    BY <1>1, <1>5 DEF ServerExecute, Sound
  <2>2. [sv EXCEPT !.pend = @ \cup {<<cl.by, sv.depth>>}] \in ServerShape
    BY <1>1, <2>1 DEF ServerShape
  <2>3. server' = server => server' = [server EXCEPT ![c] = sv]
    BY DEF ConnShape
  <2> QED
    BY <1>1, <1>2, <1>5, <2>1, <2>2, <2>3 DEF ServerExecute
<1>6. CASE ServerExecuteFails(c)
  <2>1. [sv EXCEPT !.aborted = Arm = "pg" /\ sv.depth > 0] \in ServerShape
    BY <1>1 DEF ServerShape
  <2> QED
    BY <1>1, <1>2, <1>6, <2>1 DEF ServerExecuteFails
<1>7. CASE ServerCommit(c)
  <2>1. Writers(sv.pend) \subseteq Task
    BY <1>1 DEF Writers, ServerShape
  <2> QED
    BY <1>1, <1>2, <1>7, <2>1, NoTransactionShape DEF ServerCommit
<1>8. CASE ServerCommitFails(c)
  BY <1>1, <1>2, <1>8, NoTransactionShape DEF ServerCommitFails
<1>9. CASE ServerRelease(c)
  <2> DEFINE merged == {<<p[1], IF p[2] = sv.depth THEN p[2] - 1 ELSE p[2]>> : p \in sv.pend}
  <2>1. sv.depth - 1 \in Int /\ merged \subseteq Task \X Int
    BY <1>1 DEF ServerShape
  <2>2. [sv EXCEPT !.depth = @ - 1, !.pend = merged] \in ServerShape
    BY <1>1, <2>1 DEF ServerShape
  <2>3. server' = [server EXCEPT ![c] = [sv EXCEPT !.depth = @ - 1, !.pend = merged]]
    BY <1>9 DEF ServerRelease
  <2> QED
    BY <1>1, <1>2, <1>9, <2>2, <2>3 DEF ServerRelease
<1>10. CASE ServerRollback(c)
  BY <1>1, <1>2, <1>10, NoTransactionShape DEF ServerRollback
<1>11. CASE ServerRollbackTo(c)
  <2> DEFINE rest == {p \in sv.pend : p[2] < sv.depth}
  <2>1. sv.depth - 1 \in Int /\ rest \subseteq Task \X Int
    BY <1>1 DEF ServerShape
  <2>2. [sv EXCEPT !.depth = @ - 1, !.aborted = FALSE, !.pend = rest] \in ServerShape
    BY <1>1, <2>1 DEF ServerShape
  <2>3. server' = [server EXCEPT ![c] = [sv EXCEPT !.depth = @ - 1, !.aborted = FALSE, !.pend = rest]]
    BY <1>11 DEF ServerRollbackTo
  <2> QED
    BY <1>1, <1>2, <1>11, <2>2, <2>3 DEF ServerRollbackTo
<1>12. CASE Refuse(c)
  <2>1. server' = [server EXCEPT ![c] = sv]
    BY <1>12 DEF Refuse, ConnShape
  <2> QED
    BY <1>1, <1>2, <1>12, <2>1 DEF Refuse
<1>13. CASE Close(c)
  <2>1. Fresh("absent") = NoClient /\ "absent" \in Life
    BY DEF Fresh, NoClient, Life
  <2>2. Sound(NoClient) /\ NoClient.life = "absent"
    BY <2>1, FreshWithLifeFacts
  <2>3. Moved(c, NoClient, NoTransaction) /\ db' = db
    BY <1>13 DEF Close, Moved
  <2>4. /\ ConnShape' /\ client'[c] = NoClient
        /\ \A d \in Conn \ {c} : client'[d] = client[d] /\ server'[d] = server[d]
    BY <1>1, <2>2, <2>3, NoTransactionShape, MovedShape
  <2> QED
    BY <1>13, <2>2, <2>4 DEF Close, Local, Live
<1>14. CASE Lose(c)
  <2>1. Sound(Severed(cl)) /\ Severed(cl).life = "lost"
    BY <1>1, SeveredFacts
  <2>2. Moved(c, Severed(cl), NoTransaction) /\ db' = db
    BY <1>14 DEF Lose, Moved
  <2>3. /\ ConnShape' /\ client'[c] = Severed(cl)
        /\ \A d \in Conn \ {c} : client'[d] = client[d] /\ server'[d] = server[d]
    BY <1>1, <2>1, <2>2, NoTransactionShape, MovedShape
  <2> QED
    BY <1>14, <2>1, <2>3 DEF Lose, Local, Live
<1>15. CASE ServerCommitRefused(c)
  <2>1. server' = [server EXCEPT ![c] = sv]
    BY <1>15 DEF ServerCommitRefused, ConnShape
  <2> QED
    BY <1>1, <1>2, <1>15, <2>1 DEF ServerCommitRefused
<1> QED
  BY <1>3, <1>4, <1>5, <1>6, <1>7, <1>8, <1>9, <1>10, <1>11, <1>12, <1>13, <1>14, <1>15
  DEF ServerStep

-----------------------------------------------------------------------------
(* The pool.                                                               *)

\* The task has a connection, in its hands or under test.
Owning == InHands \cup {"pinging"}

\* A statement was answered or is on its way for a task that waits for it.
PoolShape ==
    /\ ConnShape
    /\ pc \in [Task -> Places]
    /\ held \in [Task -> Conn \cup {NoConn}]
    /\ kept \in [Task -> SUBSET Int]
    /\ budget \in [Task -> 0 .. MaxStmts]
    /\ result \in [Task -> Results]
    /\ queue \in Seq(Task)
    /\ permits \in Int
    /\ idle \in Seq(Conn)
    /\ \A t \in Task : held[t] \in Conn <=> pc[t] \in Owning

-----------------------------------------------------------------------------
(* The effect of a step on what the pool accounts for.                     *)

\* Task t moves to p, and nobody else moves.
MovedTo(t, p) ==
    /\ pc'[t] = p
    /\ \A u \in Task \ {t} : pc'[u] = pc[u]

\* Task t now holds h (a connection, or none); nobody else's hands change.
Holds(t, h) ==
    /\ held'[t] = h
    /\ \A u \in Task \ {t} : held'[u] = held[u]

\* The pool's account of every connection but c stands.
LiveElsewhere(c) == \A d \in Conn \ {c} : Live(client'[d]) <=> Live(client[d])
LiveSame         == \A d \in Conn : Live(client'[d]) <=> Live(client[d])

\* With a permit, and without a connection or the room for one.
Unladen == {"granted", "acquired"}

\* A step that leaves permits, connections and hands as they are and moves no
\* task from one side of a checkout to the other.
Quiet ==
    /\ UNCHANGED <<held, idle, permits>>
    /\ LiveSame
    /\ \A u \in Task : /\ pc'[u] \in Permitted <=> pc[u] \in Permitted
                       /\ pc'[u] \in Unladen <=> pc[u] \in Unladen

\* A waiter gets its permit.
TakesPermit(t) ==
    /\ pc[t] \notin Permitted /\ MovedTo(t, "granted")
    /\ permits > 0 /\ permits' = permits - 1
    /\ UNCHANGED <<held, idle>>
    /\ LiveSame

\* A checkout that holds nothing ends.
GivesPermit(t) ==
    /\ pc[t] \in {"granted", "creating"} /\ MovedTo(t, "done")
    /\ permits' = permits + 1
    /\ UNCHANGED <<held, idle>>
    /\ LiveSame

\* A checkout turns to creating a connection.
TurnsToCreate(t) ==
    /\ pc[t] = "acquired" /\ MovedTo(t, "creating")
    /\ idle = <<>>
    /\ UNCHANGED <<held, idle, permits>>
    /\ LiveSame

\* An idle connection goes under test.
TakesIdle(t) ==
    /\ pc[t] = "acquired" /\ MovedTo(t, "pinging")
    /\ idle # <<>> /\ idle' = Tail(idle)
    /\ Holds(t, Head(idle))
    /\ UNCHANGED permits
    /\ LiveSame

\* A connection is made, for t.
MakesConnection(t, c) ==
    /\ pc[t] = "creating" /\ MovedTo(t, "holding")
    /\ ~Live(client[c]) /\ Live(client'[c]) /\ LiveElsewhere(c)
    /\ Holds(t, c)
    /\ UNCHANGED <<idle, permits>>

\* The idle connection a checkout looks at is dropped; the checkout goes on,
\* or ends.
DropsIdle(t) ==
    /\ pc[t] = "acquired"
    /\ idle # <<>> /\ idle' = Tail(idle)
    /\ ~Live(client'[Head(idle)]) /\ LiveElsewhere(Head(idle))
    /\ UNCHANGED held
    /\ \/ MovedTo(t, "acquired") /\ permits' = permits
       \/ MovedTo(t, "done") /\ permits' = permits + 1

\* The connection under test is dropped; the checkout goes on, or ends.
DropsTested(t) ==
    /\ pc[t] = "pinging"
    /\ ~Live(client'[held[t]]) /\ LiveElsewhere(held[t])
    /\ Holds(t, NoConn)
    /\ UNCHANGED idle
    /\ \/ MovedTo(t, "acquired") /\ permits' = permits
       \/ MovedTo(t, "done") /\ permits' = permits + 1

\* A connection comes back.
GivesBack(t) ==
    /\ pc[t] \in InHands /\ MovedTo(t, "done")
    /\ idle' = Append(idle, held[t])
    /\ Holds(t, NoConn)
    /\ permits' = permits + 1
    /\ LiveSame

Effect ==
    \/ Quiet
    \/ \E t \in Task :
          \/ TakesPermit(t) \/ GivesPermit(t) \/ TurnsToCreate(t) \/ TakesIdle(t)
          \/ DropsIdle(t) \/ DropsTested(t) \/ GivesBack(t)
          \/ \E c \in Conn : MakesConnection(t, c)

-----------------------------------------------------------------------------
(* Each action keeps the shape, and has one of a few effects on the pool.  *)

\* A pool with no connection and every task new has the shape.
LEMMA InitShape == Init => PoolShape
<1> SUFFICES ASSUME Init PROVE PoolShape
  OBVIOUS
<1>1. Fresh("absent") = NoClient /\ "absent" \in Life
  BY DEF Fresh, NoClient, Life
<1>2. Sound(NoClient) /\ NoClient \in ClientShape
  BY <1>1, FreshWithLifeFacts DEF Sound
<1>3. ConnShape
  BY <1>2, NoTransactionShape DEF Init, ConnInit, ConnShape
<1>4. \A t \in Task : pc[t] = "new" /\ held[t] = NoConn
  BY DEF Init
<1>5. \A t \in Task : held[t] \in Conn <=> pc[t] \in Owning
  BY <1>4, PoolAssumption DEF Owning, InHands, InFlight
<1> QED
  BY <1>3, <1>5, PoolAssumption DEF Init, PoolShape, Places, Results

\* A client end replaced by a well-shaped one, the server's untouched.
LEMMA ClientMoves ==
    ASSUME NEW c \in Conn, NEW cl, ConnShape, Sound(cl),
           client' = [client EXCEPT ![c] = cl], UNCHANGED <<server, db>>
    PROVE  /\ ConnShape'
           /\ client'[c] = cl
           /\ \A d \in Conn \ {c} : client'[d] = client[d]
<1>1. server[c] \in ServerShape /\ server' = [server EXCEPT ![c] = server[c]] /\ db' \subseteq Task
  BY DEF ConnShape
<1>2. Moved(c, cl, server[c])
  BY <1>1 DEF Moved
<1> QED
  BY <1>1, <1>2, MovedShape

\* A task at work moves on, with the same connection: the pool sees nothing.
LEMMA WorkMoves ==
    ASSUME NEW t \in Task, NEW p \in InHands, NEW cl, PoolShape, pc[t] \in InHands,
           client' = [client EXCEPT ![held[t]] = cl], UNCHANGED <<server, db>>,
           Sound(cl), cl.life = client[held[t]].life,
           Goto(t, p),
           kept' \in [Task -> SUBSET Int], budget' \in [Task -> 0 .. MaxStmts],
           result' \in [Task -> Results], UNCHANGED <<held, poolVars>>
    PROVE  PoolShape' /\ Quiet
<1>1. held[t] \in Conn
  BY DEF PoolShape, Owning
<1>2. /\ ConnShape' /\ client'[held[t]] = cl
      /\ \A d \in Conn \ {held[t]} : client'[d] = client[d]
  BY <1>1, ClientMoves DEF PoolShape
<1>3. LiveSame
  BY <1>2 DEF LiveSame, Live
<1>4. pc' \in [Task -> Places] /\ MovedTo(t, p)
  BY DEF PoolShape, Goto, MovedTo, Places, Awaits, InHands, InFlight
<1>5. \A u \in Task : /\ pc'[u] \in Owning <=> pc[u] \in Owning
                      /\ pc'[u] \in Permitted <=> pc[u] \in Permitted
                      /\ pc'[u] \in Unladen <=> pc[u] \in Unladen
  BY <1>4 DEF MovedTo, Owning, Permitted, Unladen, InHands, InFlight
<1> QED
  BY <1>2, <1>3, <1>4, <1>5 DEF PoolShape, Quiet, poolVars

\* Every step of a task's work but the last keeps the shape and is quiet.
LEMMA WorkQuiet ==
    ASSUME NEW t \in Task, PoolShape, Work(t), pc[t] # "leaving"
    PROVE  PoolShape' /\ Quiet
<1> DEFINE c == held[t]
           cl == client[c]
<1>1. pc[t] \in InHands
  BY DEF Work, Begin, BeginReturns, BeginFails, ExecuteStatement, ExecuteReturns, ExecuteFails,
         ExecuteUnwinds, Commit, CommitReturns, CommitRefused, CommitUndone, Rollback, RollbackReturns,
         RollbackFails, Leave, InHands, InFlight
<1>2. c \in Conn
  BY <1>1 DEF PoolShape, Owning
<1>3. Sound(cl) /\ cl \in ClientShape /\ cl.depth \in Int
  BY <1>2 DEF PoolShape, ConnShape, ClientShape
<1>4. cl.answer # "none" => cl.wire = "none"
  BY <1>3 DEF Sound
<1>5. \A q \in InFlight \cup {"body", "leaving"} : q \in InHands
  BY DEF InHands
<1>6. /\ Deeper(cl) \in Int /\ Shallower(cl) \in Int /\ Ended(t) \in Int
  BY <1>3 DEF Deeper, Shallower, Ended, Cl
<1>7. /\ kept \in [Task -> SUBSET Int] /\ budget \in [Task -> 0 .. MaxStmts]
      /\ result \in [Task -> Results]
  BY DEF PoolShape
<1>8. \A r \in Results : [result EXCEPT ![t] = r] \in [Task -> Results]
  BY <1>7
<1>9. budget[t] > 0 => [budget EXCEPT ![t] = @ - 1] \in [Task -> 0 .. MaxStmts]
  BY <1>7, PoolAssumption
<1>10. ASSUME NEW sql \in Statement, NEW p \in InFlight,
              client' = [client EXCEPT ![c] = Sent(@, t, sql)], Goto(t, p),
              UNCHANGED <<server, db, held, kept, result, poolVars>>,
              budget' = budget \/ (budget' = [budget EXCEPT ![t] = @ - 1] /\ budget[t] > 0)
       PROVE  PoolShape' /\ Quiet
  <2>1. Sound(Sent(cl, t, sql)) /\ Sent(cl, t, sql).life = cl.life
    BY <1>3, <1>10, SentFacts
  <2>2. client' = [client EXCEPT ![c] = Sent(cl, t, sql)]
    BY <1>10
  <2>3. /\ budget' \in [Task -> 0 .. MaxStmts] /\ kept' \in [Task -> SUBSET Int]
        /\ result' \in [Task -> Results]
    BY <1>7, <1>9, <1>10
  <2>4. p \in InHands /\ UNCHANGED <<held, poolVars>>
    BY <1>5, <1>10
  <2> QED
    BY <1>1, <1>10, <2>1, <2>2, <2>3, <2>4, WorkMoves
<1>11. ASSUME NEW d \in Int, NEW p \in {"body", "leaving"}, cl.answer # "none",
              client' = [client EXCEPT ![c] = Settled(@, d)], Goto(t, p),
              kept' \in [Task -> SUBSET Int], result' \in [Task -> Results],
              UNCHANGED <<server, db, held, budget, poolVars>>
       PROVE  PoolShape' /\ Quiet
  <2>1. Sound(Settled(cl, d)) /\ Settled(cl, d).life = cl.life
    BY <1>3, <1>4, <1>11, SettledFacts
  <2> QED
    BY <1>1, <1>5, <1>7, <1>11, <2>1, WorkMoves
<1>12. ASSUME NEW p \in {"body", "leaving"}, cl.answer # "none",
              client' = [client EXCEPT ![c] = Returned(@)], Goto(t, p),
              kept' \in [Task -> SUBSET Int], result' \in [Task -> Results],
              UNCHANGED <<server, db, held, budget, poolVars>>
       PROVE  PoolShape' /\ Quiet
  <2>1. Sound(Returned(cl)) /\ Returned(cl).life = cl.life
    BY <1>3, <1>4, <1>12, ReturnedFacts
  <2> QED
    BY <1>1, <1>5, <1>7, <1>12, <2>1, WorkMoves
<1>13. /\ BeginSql(cl.depth) \in Statement /\ CommitSql(cl.depth) \in Statement
       /\ RollbackSql(cl.depth) \in Statement /\ "EXECUTE" \in Statement
       /\ {"begin", "execute", "commit", "rollback", "undo"} = InFlight
  BY DEF BeginSql, CommitSql, RollbackSql, Statement, Controls, InFlight
<1>14. CASE Begin(t)
  <2>1. /\ client' = [client EXCEPT ![c] = Sent(@, t, BeginSql(cl.depth))] /\ Goto(t, "begin")
        /\ UNCHANGED <<server, db, held, kept, result, poolVars>>
        /\ budget' = budget \/ (budget' = [budget EXCEPT ![t] = @ - 1] /\ budget[t] > 0)
    BY <1>14 DEF Begin, BeginTransaction
  <2> QED
    BY <1>10, <1>13, <2>1
<1>15. CASE BeginReturns(t)
  BY <1>6, <1>7, <1>11, <1>15 DEF BeginReturns, Cl
<1>16. CASE BeginFails(t)
  <2>1. "failed" \in Results
    BY DEF Results
  <2>2. \E p \in {"body", "leaving"} : Goto(t, p) /\ result' \in [Task -> Results]
    BY <1>7, <1>8, <1>16, <2>1 DEF BeginFails, Finish
  <2>3. /\ client' = [client EXCEPT ![c] = Settled(@, cl.depth)] /\ cl.answer # "none"
        /\ UNCHANGED <<server, db, held, kept, budget, poolVars>>
    BY <1>16 DEF BeginFails, Cl
  <2> QED
    BY <1>3, <1>7, <1>11, <2>2, <2>3
<1>17. CASE ExecuteStatement(t)
  BY <1>10, <1>13, <1>17 DEF ExecuteStatement, Execute
<1>18. CASE ExecuteReturns(t)
  <2>1. "ok" \in Results /\ Level(t) \in Int
    BY <1>3 DEF Results, Level, Cl
  <2>2. \E p \in {"body", "leaving"} : Goto(t, p) /\ result' \in [Task -> Results]
    BY <1>7, <1>8, <1>18, <2>1 DEF ExecuteReturns, Finish
  <2>3. kept' \in [Task -> SUBSET Int]
    BY <1>7, <1>18, <2>1 DEF ExecuteReturns
  <2> QED
    BY <1>12, <1>18, <2>2, <2>3 DEF ExecuteReturns, Cl
<1>19. CASE ExecuteFails(t)
  <2>1. {"unknown", "failed"} \subseteq Results
    BY DEF Results
  <2>2. Goto(t, "leaving") /\ result' \in [Task -> Results]
    BY <1>8, <1>19, <2>1 DEF ExecuteFails, Finish
  <2> QED
    BY <1>7, <1>12, <1>19, <2>2 DEF ExecuteFails, Cl
<1>20. CASE ExecuteUnwinds(t)
  <2>1. /\ client' = [client EXCEPT ![c] = Sent(@, t, RollbackSql(cl.depth))] /\ Goto(t, "rollback")
        /\ UNCHANGED <<server, db, held, kept, result, poolVars>>
        /\ budget' = budget
    BY <1>20 DEF ExecuteUnwinds, RollbackTransaction
  <2> QED
    BY <1>10, <1>13, <2>1
<1>21. CASE Commit(t)
  <2>1. /\ client' = [client EXCEPT ![c] = Sent(@, t, CommitSql(cl.depth))] /\ Goto(t, "commit")
        /\ UNCHANGED <<server, db, held, kept, result, poolVars>>
        /\ budget' = budget
    BY <1>21 DEF Commit, CommitTransaction
  <2> QED
    BY <1>10, <1>13, <2>1
<1>22. CASE CommitReturns(t)
  <2>1. "ok" \in Results
    BY DEF Results
  <2>2. \E p \in {"body", "leaving"} : Goto(t, p) /\ result' \in [Task -> Results]
    BY <1>7, <1>8, <1>22, <2>1 DEF CommitReturns, Finish
  <2>3. Merged(kept[t], Ended(t)) \in SUBSET Int
    BY <1>6, <1>7 DEF Merged
  <2>4. kept' \in [Task -> SUBSET Int]
    BY <1>7, <1>22, <2>3 DEF CommitReturns
  <2> QED
    BY <1>6, <1>11, <1>22, <2>2, <2>4 DEF CommitReturns, Cl
<1>23. CASE CommitUndone(t)
  <2>1. /\ client' = [client EXCEPT ![c] = Sent(@, t, RollbackSql(cl.depth))] /\ Goto(t, "undo")
        /\ UNCHANGED <<server, db, held, kept, result, poolVars>>
        /\ budget' = budget
    BY <1>23 DEF CommitUndone, RollbackTransaction
  <2> QED
    BY <1>10, <1>13, <2>1
<1>24. CASE Rollback(t)
  <2>1. /\ client' = [client EXCEPT ![c] = Sent(@, t, RollbackSql(cl.depth))] /\ Goto(t, "rollback")
        /\ UNCHANGED <<server, db, held, kept, result, poolVars>>
        /\ budget' = budget
    BY <1>24 DEF Rollback, RollbackTransaction
  <2> QED
    BY <1>10, <1>13, <2>1
<1>25. CASE RollbackReturns(t)
  <2>1. "failed" \in Results
    BY DEF Results
  <2>2. \E p \in {"body", "leaving"} : Goto(t, p) /\ result' \in [Task -> Results]
    BY <1>7, <1>8, <1>25, <2>1 DEF RollbackReturns, Finish
  <2>3. kept' \in [Task -> SUBSET Int]
    BY <1>7, <1>25 DEF RollbackReturns
  <2> QED
    BY <1>6, <1>11, <1>25, <2>2, <2>3 DEF RollbackReturns, Cl
<1>26. CASE RollbackFails(t)
  <2> DEFINE bad == [Settled(cl, cl.depth) EXCEPT !.inError = TRUE]
  <2>1. Sound(Settled(cl, cl.depth)) /\ Settled(cl, cl.depth).life = cl.life
    BY <1>3, <1>4, <1>26, SettledFacts DEF RollbackFails, Cl
  <2>2. Sound(bad) /\ bad.life = cl.life
    BY <2>1 DEF Sound, ClientShape
  <2>3. {"unknown", "failed"} \subseteq Results
    BY DEF Results
  <2>4. Goto(t, "leaving") /\ result' \in [Task -> Results]
    BY <1>8, <1>26, <2>3 DEF RollbackFails, Finish
  <2>5. client' = [client EXCEPT ![c] = bad] /\ UNCHANGED <<server, db, held, kept, budget, poolVars>>
    BY <1>26 DEF RollbackFails
  <2> HIDE DEF bad
  <2> QED
    BY <1>1, <1>5, <1>7, <2>2, <2>4, <2>5, WorkMoves
<1>27. CASE CommitRefused(t)
  <2>1. {"unknown", "failed"} \subseteq Results
    BY DEF Results
  <2>2. \E p \in {"body", "leaving"} : Goto(t, p) /\ result' \in [Task -> Results]
    BY <1>7, <1>8, <1>27, <2>1 DEF CommitRefused, Finish
  <2>3. /\ client' = [client EXCEPT ![c] = Settled(@, cl.depth)] /\ cl.answer # "none"
        /\ UNCHANGED <<server, db, held, kept, budget, poolVars>>
    BY <1>27 DEF CommitRefused, Cl
  <2> QED
    BY <1>3, <1>7, <1>11, <2>2, <2>3
<1> QED
  BY <1>14, <1>15, <1>16, <1>17, <1>18, <1>19, <1>20, <1>21, <1>22, <1>23, <1>24, <1>25, <1>26, <1>27
  DEF Work, Leave

\* Sequences: what the queue and the idle connections need.
LEMMA HeadTail ==
    ASSUME NEW S, NEW s \in Seq(S), s # <<>>
    PROVE  Head(s) \in S /\ Tail(s) \in Seq(S)
OBVIOUS

\* Taking one element out of the middle of a queue.
LEMMA CutOut ==
    ASSUME NEW S, NEW s \in Seq(S), NEW i \in DOMAIN s
    PROVE  SubSeq(s, 1, i - 1) \o SubSeq(s, i + 1, Len(s)) \in Seq(S)
<1>1. i \in 1 .. Len(s) /\ Len(s) \in Nat
  OBVIOUS
<1>2. SubSeq(s, 1, i - 1) \in Seq(S) /\ SubSeq(s, i + 1, Len(s)) \in Seq(S)
  BY <1>1
<1> QED
  BY <1>2

\* A move of one task, in types.
LEMMA GotoMoves ==
    ASSUME NEW t \in Task, NEW p \in Places, PoolShape, Goto(t, p)
    PROVE  pc' \in [Task -> Places] /\ MovedTo(t, p)
BY DEF PoolShape, Goto, MovedTo

\* Ending a call moves one task and records its result.
LEMMA FinishMoves ==
    ASSUME NEW t \in Task, NEW p \in Places, NEW r \in Results, PoolShape, Finish(t, p, r)
    PROVE  /\ pc' \in [Task -> Places] /\ MovedTo(t, p)
           /\ result' \in [Task -> Results]
<1>1. Goto(t, p) /\ result' = [result EXCEPT ![t] = r]
  BY DEF Finish
<1> QED
  BY <1>1, GotoMoves DEF PoolShape

\* Changing what one task holds leaves the other hands alone.
LEMMA HoldsMoves ==
    ASSUME NEW t \in Task, NEW h \in Conn \cup {NoConn}, PoolShape,
           held' = [held EXCEPT ![t] = h]
    PROVE  held' \in [Task -> Conn \cup {NoConn}] /\ Holds(t, h)
BY DEF PoolShape, Holds

\* What remains of the shape when the connections and the sequences have theirs.
LEMMA ShapeMoves ==
    ASSUME NEW t \in Task, NEW p \in Places, NEW h \in Conn \cup {NoConn}, PoolShape,
           ConnShape', queue' \in Seq(Task), idle' \in Seq(Conn), permits' \in Int,
           pc' \in [Task -> Places], MovedTo(t, p),
           held' \in [Task -> Conn \cup {NoConn}], Holds(t, h),
           h \in Conn <=> p \in Owning,
           result' \in [Task -> Results], UNCHANGED <<kept, budget>>
    PROVE  PoolShape'
<1>1. \A u \in Task : held'[u] \in Conn <=> pc'[u] \in Owning
  BY DEF PoolShape, MovedTo, Holds
<1> QED
  BY <1>1 DEF PoolShape

\* Connections untouched.
LEMMA ConnsRest ==
    ASSUME PoolShape, UNCHANGED connVars
    PROVE  ConnShape' /\ LiveSame
BY DEF PoolShape, ConnShape, Sound, connVars, LiveSame, Live

\* One connection's client end replaced, by one as live as it was.
LEMMA ConnKept ==
    ASSUME NEW c \in Conn, NEW cl, PoolShape, Sound(cl), cl.life = client[c].life,
           client' = [client EXCEPT ![c] = cl], UNCHANGED <<server, db>>
    PROVE  ConnShape' /\ LiveSame
<1>1. /\ ConnShape' /\ client'[c] = cl
      /\ \A d \in Conn \ {c} : client'[d] = client[d]
  BY ClientMoves DEF PoolShape
<1> QED
  BY <1>1 DEF LiveSame, Live

\* One connection discarded.
LEMMA ConnGone ==
    ASSUME NEW c \in Conn, PoolShape,
           client' = [client EXCEPT ![c] = Discarded(@)], UNCHANGED <<server, db>>
    PROVE  ConnShape' /\ ~Live(client'[c]) /\ LiveElsewhere(c)
<1>1. client[c] \in ClientShape /\ Sound(client[c])
  BY DEF PoolShape, ConnShape
<1>2. Sound(Discarded(client[c])) /\ ~Live(Discarded(client[c]))
  BY <1>1, DiscardedFacts
<1>3. client' = [client EXCEPT ![c] = Discarded(client[c])]
  OBVIOUS
<1>4. /\ ConnShape' /\ client'[c] = Discarded(client[c])
      /\ \A d \in Conn \ {c} : client'[d] = client[d]
  BY <1>2, <1>3, ClientMoves DEF PoolShape
<1> QED
  BY <1>2, <1>4 DEF LiveElsewhere

\* A checkout that stays empty-handed and leaves the connections alone.
LEMMA EmptyHanded ==
    ASSUME NEW t \in Task, NEW p \in Places \ Owning, PoolShape, pc[t] \notin Owning,
           UNCHANGED <<connVars, held, kept, budget>>,
           pc' \in [Task -> Places], MovedTo(t, p), result' \in [Task -> Results],
           queue' \in Seq(Task), permits' \in Int, idle' \in Seq(Conn)
    PROVE  PoolShape' /\ LiveSame
<1>1. ConnShape' /\ LiveSame
  BY ConnsRest
<1>2. held[t] \in Conn \cup {NoConn} /\ Holds(t, held[t]) /\ held' \in [Task -> Conn \cup {NoConn}]
  BY DEF PoolShape, Holds
<1>3. held[t] \in Conn <=> p \in Owning
  BY DEF PoolShape
<1> QED
  BY <1>1, <1>2, <1>3, ShapeMoves

\* Each step of a checkout keeps the shape and has its effect.
LEMMA CheckoutEffect ==
    ASSUME NEW t \in Task, PoolShape, Checkout(t)
    PROVE  PoolShape' /\ Effect
<1> USE DEF Places, Awaits, Owning, Permitted, Unladen, InHands, InFlight
<1>1. CASE Get(t)
  <2>1. pc' \in [Task -> Places] /\ MovedTo(t, "waiting")
    BY <1>1, GotoMoves DEF Get
  <2>2. queue' \in Seq(Task)
    BY <1>1 DEF Get, PoolShape
  <2>3. PoolShape' /\ LiveSame
    BY <1>1, <2>1, <2>2, EmptyHanded DEF Get, PoolShape
  <2> QED
    BY <1>1, <2>1, <2>3 DEF Get, Effect, Quiet, MovedTo
<1>2. CASE Grant(t)
  <2>1. pc' \in [Task -> Places] /\ MovedTo(t, "granted")
    BY <1>2, GotoMoves DEF Grant
  <2>2. queue' \in Seq(Task) /\ permits' \in Int
    BY <1>2 DEF Grant, PoolShape
  <2>3. PoolShape' /\ LiveSame
    BY <1>2, <2>1, <2>2, EmptyHanded DEF Grant, PoolShape
  <2>4. TakesPermit(t)
    BY <1>2, <2>1, <2>3 DEF Grant, TakesPermit
  <2> QED
    BY <2>3, <2>4 DEF Effect
<1>10. CASE Acquire(t)
  <2>1. pc' \in [Task -> Places] /\ MovedTo(t, "acquired")
    BY <1>10, GotoMoves DEF Acquire
  <2>2. PoolShape' /\ LiveSame
    BY <1>10, <2>1, EmptyHanded DEF Acquire, poolVars, PoolShape
  <2> QED
    BY <1>10, <2>1, <2>2 DEF Acquire, poolVars, Effect, Quiet, MovedTo
<1>3. CASE Recycle(t)
  <2>1. pc' \in [Task -> Places] /\ MovedTo(t, "pinging")
    BY <1>3, GotoMoves DEF Recycle
  <2>2. Head(idle) \in Conn /\ Tail(idle) \in Seq(Conn)
    BY <1>3, HeadTail DEF Recycle, PoolShape
  <2>3. held' \in [Task -> Conn \cup {NoConn}] /\ Holds(t, Head(idle))
    BY <1>3, <2>2, HoldsMoves DEF Recycle
  <2>4. ConnShape' /\ LiveSame
    BY <1>3, ConnsRest DEF Recycle
  <2>5. PoolShape'
    BY <1>3, <2>1, <2>2, <2>3, <2>4, ShapeMoves DEF Recycle, PoolShape
  <2>6. TakesIdle(t)
    BY <1>3, <2>1, <2>3, <2>4 DEF Recycle, TakesIdle
  <2> QED
    BY <2>5, <2>6 DEF Effect
<1>4. CASE RecycleBroken(t)
  <2>1. Head(idle) \in Conn /\ Tail(idle) \in Seq(Conn)
    BY <1>4, HeadTail DEF RecycleBroken, PoolShape
  <2>2. ConnShape' /\ ~Live(client'[Head(idle)]) /\ LiveElsewhere(Head(idle))
    BY <1>4, <2>1, ConnGone DEF RecycleBroken
  <2>3. PoolShape'
    BY <1>4, <2>1, <2>2 DEF RecycleBroken, taskVars, PoolShape
  <2>4. DropsIdle(t)
    BY <1>4, <2>2 DEF RecycleBroken, taskVars, DropsIdle, MovedTo
  <2> QED
    BY <2>3, <2>4 DEF Effect
<1>5. CASE RecyclePanics(t)
  <2>1. Head(idle) \in Conn /\ Tail(idle) \in Seq(Conn)
    BY <1>5, HeadTail DEF RecyclePanics, PoolShape
  <2>2. ConnShape' /\ ~Live(client'[Head(idle)]) /\ LiveElsewhere(Head(idle))
    BY <1>5, <2>1, ConnGone DEF RecyclePanics
  <2>3. "panicked" \in Results
    BY DEF Results
  <2>4. pc' \in [Task -> Places] /\ MovedTo(t, "done") /\ result' \in [Task -> Results]
    BY <1>5, <2>3, FinishMoves DEF RecyclePanics
  <2>5. held[t] \in Conn \cup {NoConn} /\ Holds(t, held[t]) /\ held' \in [Task -> Conn \cup {NoConn}]
        /\ held[t] \notin Conn
    BY <1>5 DEF PoolShape, RecyclePanics, Holds
  <2>6. permits' \in Int
    BY <1>5 DEF PoolShape, RecyclePanics
  <2>7. PoolShape'
    BY <1>5, <2>1, <2>2, <2>4, <2>5, <2>6, ShapeMoves DEF RecyclePanics, PoolShape
  <2>8. DropsIdle(t)
    BY <1>5, <2>2, <2>4 DEF RecyclePanics, DropsIdle
  <2> QED
    BY <2>7, <2>8 DEF Effect
<1>6. CASE PingAnswered(t)
  <2>1. pc' \in [Task -> Places] /\ MovedTo(t, "holding")
    BY <1>6, GotoMoves DEF PingAnswered
  <2>2. ConnShape' /\ LiveSame
    BY <1>6, ConnsRest DEF PingAnswered
  <2>3. held[t] \in Conn /\ Holds(t, held[t]) /\ held' \in [Task -> Conn \cup {NoConn}]
    BY <1>6 DEF PoolShape, PingAnswered, Holds
  <2>4. PoolShape'
    BY <1>6, <2>1, <2>2, <2>3, ShapeMoves DEF PingAnswered, poolVars, PoolShape
  <2> QED
    BY <1>6, <2>1, <2>2, <2>4 DEF PingAnswered, poolVars, Effect, Quiet, MovedTo
<1>7. CASE PingFails(t)
  <2>1. held[t] \in Conn
    BY <1>7 DEF PoolShape, PingFails
  <2>2. ConnShape' /\ ~Live(client'[held[t]]) /\ LiveElsewhere(held[t])
    BY <1>7, <2>1, ConnGone DEF PingFails
  <2>3. pc' \in [Task -> Places] /\ MovedTo(t, "acquired")
    BY <1>7, GotoMoves DEF PingFails
  <2>4. held' \in [Task -> Conn \cup {NoConn}] /\ Holds(t, NoConn)
    BY <1>7, HoldsMoves DEF PingFails
  <2>5. PoolShape'
    BY <1>7, <2>2, <2>3, <2>4, PoolAssumption, ShapeMoves DEF PingFails, poolVars, PoolShape
  <2>6. DropsTested(t)
    BY <1>7, <2>2, <2>3, <2>4 DEF PingFails, poolVars, DropsTested
  <2> QED
    BY <2>5, <2>6 DEF Effect
<1>8. CASE Create(t)
  <2>1. pc' \in [Task -> Places] /\ MovedTo(t, "creating")
    BY <1>8, GotoMoves DEF Create
  <2>2. PoolShape' /\ LiveSame
    BY <1>8, <2>1, EmptyHanded DEF Create, poolVars, PoolShape
  <2>3. TurnsToCreate(t)
    BY <1>8, <2>1, <2>2 DEF Create, poolVars, TurnsToCreate
  <2> QED
    BY <2>2, <2>3 DEF Effect
<1>9. CASE Created(t)
  <2>1. PICK c \in Conn : Establish(c) /\ held' = [held EXCEPT ![t] = c]
    BY <1>9 DEF Created
  <2>2. Sound(NewClient) /\ Live(NewClient)
    BY NewClientFacts
  <2>3. Moved(c, NewClient, NoTransaction) /\ db' \subseteq Task
    BY <2>1 DEF Establish, Moved, PoolShape, ConnShape
  <2>4. /\ ConnShape' /\ client'[c] = NewClient
        /\ \A d \in Conn \ {c} : client'[d] = client[d]
    BY <2>2, <2>3, NoTransactionShape, MovedShape DEF PoolShape
  <2>5. pc' \in [Task -> Places] /\ MovedTo(t, "holding")
    BY <1>9, GotoMoves DEF Created
  <2>6. held' \in [Task -> Conn \cup {NoConn}] /\ Holds(t, c)
    BY <2>1, HoldsMoves
  <2>7. PoolShape'
    BY <1>9, <2>4, <2>5, <2>6, ShapeMoves DEF Created, poolVars, PoolShape
  <2>8. MakesConnection(t, c)
    BY <1>9, <2>1, <2>2, <2>4, <2>5, <2>6
    DEF Created, Establish, poolVars, MakesConnection, Live, LiveElsewhere
  <2> QED
    BY <2>7, <2>8 DEF Effect
<1> QED
  BY <1>1, <1>2, <1>3, <1>4, <1>5, <1>6, <1>7, <1>8, <1>9, <1>10 DEF Checkout

\* Giving a connection back, after at most a change that leaves it as live.
LEMMA GiveBackEffect ==
    ASSUME NEW t \in Task, PoolShape, pc[t] \in InHands, GiveBack(t), ConnShape', LiveSame,
           Goto(t, "done"), result' \in [Task -> Results], UNCHANGED <<kept, budget, queue>>
    PROVE  PoolShape' /\ Effect
<1>1. pc' \in [Task -> Places] /\ MovedTo(t, "done")
  BY GotoMoves DEF Places
<1>2. held[t] \in Conn /\ idle' \in Seq(Conn)
  BY DEF PoolShape, Owning, GiveBack
<1>3. held' \in [Task -> Conn \cup {NoConn}] /\ Holds(t, NoConn)
  BY HoldsMoves DEF GiveBack
<1>4. permits' \in Int /\ queue' \in Seq(Task)
  BY DEF PoolShape, GiveBack
<1>5. "done" \in Places \ Owning
  BY DEF Places, Owning, InHands, InFlight
<1>6. PoolShape'
  BY <1>1, <1>2, <1>3, <1>4, <1>5, PoolAssumption, ShapeMoves
<1>7. GivesBack(t)
  BY <1>1, <1>3 DEF GiveBack, GivesBack
<1> QED
  BY <1>6, <1>7 DEF Effect

\* Leaving, timeouts and cancellations.
LEMMA EndEffect ==
    ASSUME NEW t \in Task, PoolShape,
           \/ Leave(t) \/ WaitTimeout(t) \/ CreateFails(t) \/ Cancel(t)
    PROVE  PoolShape' /\ Effect
<1> USE DEF Places, Awaits, Owning, Permitted, Unladen, InHands, InFlight
<1>1. {"refused", "dropped"} \subseteq Results
  BY DEF Results
<1>2. CASE Leave(t)
  <2>1. ConnShape' /\ LiveSame
    BY <1>2, ConnsRest DEF Leave
  <2>2. result' \in [Task -> Results]
    BY <1>2 DEF Leave, PoolShape
  <2> QED
    BY <1>2, <2>1, <2>2, GiveBackEffect DEF Leave
<1>3. ASSUME NEW r \in {"refused", "dropped"}, pc[t] = "waiting", LeaveQueue(t), Finish(t, "done", r),
             UNCHANGED <<connVars, held, kept, budget, permits, idle>>
      PROVE  PoolShape' /\ Effect
  <2>1. queue' \in Seq(Task)
    BY <1>3, CutOut DEF LeaveQueue, PoolShape
  <2>2. pc' \in [Task -> Places] /\ MovedTo(t, "done") /\ result' \in [Task -> Results]
    BY <1>1, <1>3, FinishMoves
  <2>3. PoolShape' /\ LiveSame
    BY <1>3, <2>1, <2>2, EmptyHanded DEF PoolShape
  <2> QED
    BY <1>3, <2>2, <2>3 DEF Effect, Quiet, MovedTo
<1>4. ASSUME NEW r \in {"refused", "dropped"}, pc[t] \in {"granted", "creating"}, permits' = permits + 1,
             Finish(t, "done", r), UNCHANGED <<connVars, held, kept, budget, queue, idle>>
      PROVE  PoolShape' /\ Effect
  <2>1. permits' \in Int
    BY <1>4 DEF PoolShape
  <2>2. pc' \in [Task -> Places] /\ MovedTo(t, "done") /\ result' \in [Task -> Results]
    BY <1>1, <1>4, FinishMoves
  <2>3. PoolShape' /\ LiveSame
    BY <1>4, <2>1, <2>2, EmptyHanded DEF PoolShape
  <2>4. GivesPermit(t)
    BY <1>4, <2>2, <2>3 DEF GivesPermit
  <2> QED
    BY <2>3, <2>4 DEF Effect
<1>11. ASSUME NEW r \in {"refused", "dropped"}, GiveUp(t), Finish(t, "done", r),
              UNCHANGED <<connVars, held, kept, budget, idle>>
       PROVE  PoolShape' /\ Effect
  BY <1>3, <1>4, <1>11 DEF GiveUp
<1>5. CASE WaitTimeout(t)
  BY <1>5, <1>11 DEF WaitTimeout
<1>6. CASE CreateFails(t)
  BY <1>4, <1>6 DEF CreateFails
<1>7. CASE CancelWait(t)
  BY <1>7, <1>11 DEF CancelWait
<1>8. CASE CancelCreate(t)
  BY <1>4, <1>8 DEF CancelCreate
<1>9. CASE CancelPing(t)
  <2>1. pc[t] = "pinging" /\ held[t] \in Conn
    BY <1>9 DEF PoolShape, CancelPing
  <2>2. ConnShape' /\ ~Live(client'[held[t]]) /\ LiveElsewhere(held[t])
    BY <1>9, <2>1, ConnGone DEF CancelPing
  <2>3. pc' \in [Task -> Places] /\ MovedTo(t, "done") /\ result' \in [Task -> Results]
    BY <1>1, <1>9, FinishMoves DEF CancelPing
  <2>4. held' \in [Task -> Conn \cup {NoConn}] /\ Holds(t, NoConn)
    BY <1>9, HoldsMoves DEF CancelPing
  <2>5. /\ permits' \in Int /\ queue' \in Seq(Task) /\ idle' \in Seq(Conn)
        /\ UNCHANGED <<kept, budget>>
    BY <1>9 DEF CancelPing, PoolShape
  <2>6. NoConn \in Conn <=> "done" \in Owning
    BY PoolAssumption
  <2>7. PoolShape'
    BY <2>2, <2>3, <2>4, <2>5, <2>6, ShapeMoves
  <2>8. DropsTested(t)
    BY <1>9, <2>1, <2>2, <2>3, <2>4 DEF CancelPing, DropsTested
  <2> QED
    BY <2>7, <2>8 DEF Effect
<1>10. CASE CancelWork(t)
  <2> DEFINE c == held[t]
             sv == [server[c] EXCEPT !.cut = @ \/ (Arm = "pg" /\ pc[t] = "begin" /\ Level(t) = 0)]
  <2>1. pc[t] \in InHands /\ c \in Conn
    BY <1>10 DEF PoolShape, CancelWork
  <2>2. Sound(client[c]) /\ client[c] \in ClientShape /\ server[c] \in ServerShape
    BY <2>1 DEF PoolShape, ConnShape
  <2>3. Sound(Dropped(client[c])) /\ Dropped(client[c]).life = client[c].life
    BY <2>2, DroppedFacts
  <2>4. sv \in ServerShape
    BY <2>2 DEF ServerShape
  <2>5. Moved(c, Dropped(client[c]), sv) /\ db' \subseteq Task
    BY <1>10 DEF CancelWork, Moved, PoolShape, ConnShape
  <2> HIDE DEF sv
  <2>6. /\ ConnShape' /\ client'[c] = Dropped(client[c])
        /\ \A d \in Conn \ {c} : client'[d] = client[d]
    BY <2>1, <2>3, <2>4, <2>5, MovedShape DEF PoolShape
  <2>7. LiveSame
    BY <2>3, <2>6 DEF LiveSame, Live
  <2>8. Goto(t, "done") /\ result' \in [Task -> Results]
    BY <1>1, <1>10, FinishMoves DEF CancelWork, Finish
  <2> QED
    BY <1>10, <2>1, <2>6, <2>7, <2>8, GiveBackEffect DEF CancelWork
<1> QED
  BY <1>2, <1>5, <1>6, <1>7, <1>8, <1>9, <1>10 DEF Cancel

\* Every step of the system keeps the shape and has one of the effects.
LEMMA StepEffect ==
    ASSUME PoolShape, [Next]_vars
    PROVE  PoolShape' /\ Effect
<1>1. ASSUME NEW t \in Task, TaskStep(t)
      PROVE  PoolShape' /\ Effect
  <2>1. CASE Checkout(t)
    BY <2>1, CheckoutEffect
  <2>2. CASE Work(t) /\ pc[t] # "leaving"
    BY <2>2, WorkQuiet DEF Effect
  <2>3. CASE Work(t) /\ pc[t] = "leaving"
    <3>1. Leave(t)
      BY <2>3 DEF Work, Begin, BeginReturns, BeginFails, ExecuteStatement, ExecuteReturns,
                  ExecuteFails, ExecuteUnwinds, Commit, CommitReturns, CommitRefused, CommitUndone, Rollback,
                  RollbackReturns, RollbackFails
    <3> QED
      BY <3>1, EndEffect
  <2>4. CASE WaitTimeout(t) \/ CreateFails(t) \/ Cancel(t)
    BY <2>4, EndEffect
  <2> QED
    BY <1>1, <2>1, <2>2, <2>3, <2>4 DEF TaskStep
<1>2. ASSUME NEW c \in Conn, ConnStep(c)
      PROVE  PoolShape' /\ Effect
  <2>1. ConnShape' /\ Local(c)
    BY <1>2, ServerStepShape DEF ConnStep, PoolShape
  <2>2. LiveSame
    BY <2>1 DEF Local, LiveSame
  <2>3. UNCHANGED <<pc, held, kept, budget, result, queue, permits, idle>>
    BY <1>2 DEF ConnStep, taskVars, poolVars
  <2> QED
    BY <2>1, <2>2, <2>3 DEF PoolShape, Effect, Quiet
<1>3. CASE UNCHANGED vars
  <2>1. ConnShape' /\ LiveSame
    BY <1>3, ConnsRest DEF vars, connVars
  <2> QED
    BY <1>3, <2>1 DEF vars, PoolShape, Effect, Quiet
<1> QED
  BY <1>1, <1>2, <1>3 DEF Next, Rest

-----------------------------------------------------------------------------
(* Ownership: a connection the pool accounts for is in one place.          *)

Owned(c) ==
    \/ \E t \in Task : held[t] = c
    \/ \E i \in DOMAIN idle : idle[i] = c

Ownership ==
    /\ \A t, u \in Task : held[t] \in Conn /\ held[t] = held[u] => t = u
    /\ \A t \in Task : \A i \in DOMAIN idle : held[t] # idle[i]
    /\ \A i, j \in DOMAIN idle : idle[i] = idle[j] => i = j
    /\ \A c \in Conn : Live(client[c]) <=> Owned(c)

\* Taking the first element away, by index.
LEMMA TailFacts ==
    ASSUME NEW S, NEW s \in Seq(S), s # <<>>
    PROVE  /\ 1 \in DOMAIN s /\ Head(s) = s[1] /\ Len(s) \in Nat \ {0}
           /\ Len(Tail(s)) = Len(s) - 1
           /\ DOMAIN s = 1 .. Len(s) /\ DOMAIN Tail(s) = 1 .. (Len(s) - 1)
           /\ \A i \in DOMAIN Tail(s) : i + 1 \in DOMAIN s /\ Tail(s)[i] = s[i + 1]
           /\ \A i \in DOMAIN s \ {1} : i - 1 \in DOMAIN Tail(s) /\ Tail(s)[i - 1] = s[i]
OBVIOUS

\* Adding an element at the end, by index.
LEMMA AppendFacts ==
    ASSUME NEW S, NEW s \in Seq(S), NEW e \in S
    PROVE  /\ Len(s) \in Nat /\ Len(Append(s, e)) = Len(s) + 1
           /\ DOMAIN s = 1 .. Len(s) /\ DOMAIN Append(s, e) = 1 .. (Len(s) + 1)
           /\ \A i \in DOMAIN s : Append(s, e)[i] = s[i]
           /\ Append(s, e)[Len(s) + 1] = e
OBVIOUS

\* At first nothing is live, idle or held.
LEMMA InitOwnership == Init => Ownership
<1> SUFFICES ASSUME Init PROVE Ownership
  OBVIOUS
<1>1. \A t \in Task : held[t] = NoConn
  BY DEF Init
<1>2. \A c \in Conn : client[c] = NoClient
  BY DEF Init, ConnInit
<1>3. ~Live(NoClient)
  BY DEF NoClient, NewClient, Live
<1>4. DOMAIN idle = {}
  BY DEF Init
<1>5. \A c \in Conn : ~Owned(c)
  BY <1>1, <1>4, PoolAssumption DEF Owned
<1> QED
  BY <1>1, <1>2, <1>3, <1>4, <1>5, PoolAssumption DEF Ownership

\* An idle connection leaves the queue: only the place of those behind changes.
LEMMA IdleTaken ==
    ASSUME PoolShape, Ownership, idle # <<>>, idle' = Tail(idle)
    PROVE  /\ Head(idle) \in Conn
           /\ \A i, j \in DOMAIN idle' : idle'[i] = idle'[j] => i = j
           /\ \A i \in DOMAIN idle' : /\ idle'[i] # Head(idle)
                                     /\ \E j \in DOMAIN idle : idle'[i] = idle[j]
           /\ \A j \in DOMAIN idle : \/ idle[j] = Head(idle)
                                     \/ \E i \in DOMAIN idle' : idle'[i] = idle[j]
<1>1. idle \in Seq(Conn)
  BY DEF PoolShape
<1>2. /\ 1 \in DOMAIN idle /\ Head(idle) = idle[1] /\ Len(idle) \in Nat \ {0}
      /\ DOMAIN idle = 1 .. Len(idle) /\ DOMAIN idle' = 1 .. (Len(idle) - 1)
      /\ \A i \in DOMAIN idle' : i + 1 \in DOMAIN idle /\ idle'[i] = idle[i + 1]
      /\ \A i \in DOMAIN idle \ {1} : i - 1 \in DOMAIN idle' /\ idle'[i - 1] = idle[i]
  BY <1>1, TailFacts
<1>3. \A i, j \in DOMAIN idle : idle[i] = idle[j] => i = j
  BY DEF Ownership
<1>4. Head(idle) \in Conn
  BY <1>1, HeadTail
<1>5. \A i \in DOMAIN idle' : i \in Int /\ i + 1 # 1
  BY <1>2
<1>6. \A i, j \in DOMAIN idle' : idle'[i] = idle'[j] => i = j
  BY <1>2, <1>3, <1>5
<1>7. \A i \in DOMAIN idle' : idle'[i] # Head(idle) /\ \E j \in DOMAIN idle : idle'[i] = idle[j]
  BY <1>2, <1>3, <1>5
<1>8. \A j \in DOMAIN idle : \/ idle[j] = Head(idle)
                           \/ \E i \in DOMAIN idle' : idle'[i] = idle[j]
  BY <1>2
<1> QED
  BY <1>4, <1>6, <1>7, <1>8

\* Nothing moves between places, and what is live stays so.
LEMMA SameOwnership ==
    ASSUME Ownership, UNCHANGED <<held, idle>>, LiveSame
    PROVE  Ownership'
<1>1. \A c \in Conn : Owned(c)' <=> Owned(c)
  BY DEF Owned
<1> QED
  BY <1>1 DEF Ownership, LiveSame

\* A connection that goes under test leaves the idle queue for its task.
LEMMA TakesIdleOwnership ==
    ASSUME NEW t \in Task, PoolShape, Ownership, TakesIdle(t)
    PROVE  Ownership'
<1>1. /\ Head(idle) \in Conn
      /\ \A i, j \in DOMAIN idle' : idle'[i] = idle'[j] => i = j
      /\ \A i \in DOMAIN idle' : idle'[i] # Head(idle) /\ \E j \in DOMAIN idle : idle'[i] = idle[j]
      /\ \A j \in DOMAIN idle : idle[j] = Head(idle) \/ \E i \in DOMAIN idle' : idle'[i] = idle[j]
  BY IdleTaken DEF TakesIdle
<1>2. 1 \in DOMAIN idle /\ Head(idle) = idle[1]
  BY TailFacts DEF TakesIdle, PoolShape
<1>3. held'[t] = Head(idle) /\ \A u \in Task \ {t} : held'[u] = held[u]
  BY DEF TakesIdle, Holds
<1>4. held[t] \notin Conn
  BY DEF PoolShape, TakesIdle, Owning, InHands, InFlight
<1>5. \A u, v \in Task : held'[u] \in Conn /\ held'[u] = held'[v] => u = v
  BY <1>2, <1>3 DEF Ownership
<1>6. \A u \in Task : \A i \in DOMAIN idle' : held'[u] # idle'[i]
  BY <1>1, <1>3 DEF Ownership
<1>7. \A c \in Conn : Owned(c)' <=> Owned(c)
  <2> SUFFICES ASSUME NEW c \in Conn PROVE Owned(c)' <=> Owned(c)
    OBVIOUS
  <2>1. ASSUME Owned(c) PROVE Owned(c)'
    BY <1>1, <1>3, <1>4, <2>1 DEF Owned
  <2>2. ASSUME Owned(c)' PROVE Owned(c)
    BY <1>1, <1>2, <1>3, <2>2 DEF Owned
  <2> QED
    BY <2>1, <2>2
<1> QED
  BY <1>1, <1>5, <1>6, <1>7 DEF Ownership, LiveSame, TakesIdle

\* A connection that is made has its task for an owner, and was free before.
LEMMA MakesConnectionOwnership ==
    ASSUME NEW t \in Task, NEW c \in Conn, PoolShape, Ownership, MakesConnection(t, c)
    PROVE  Ownership'
<1>1. held'[t] = c /\ \A u \in Task \ {t} : held'[u] = held[u]
  BY DEF MakesConnection, Holds
<1>2. ~Owned(c) /\ held[t] \notin Conn
  BY DEF MakesConnection, Ownership, PoolShape, Owning, InHands, InFlight
<1>3. \A d \in Conn \ {c} : Owned(d)' <=> Owned(d)
  BY <1>1, <1>2 DEF Owned, MakesConnection
<1>4. Owned(c)'
  BY <1>1 DEF Owned
<1>5. \A d \in Conn : Live(client'[d]) <=> Owned(d)'
  BY <1>3, <1>4 DEF MakesConnection, LiveElsewhere, Ownership
<1> QED
  BY <1>1, <1>2, <1>5 DEF Ownership, MakesConnection, Owned

\* A broken idle connection has no owner any more and is not live.
LEMMA DropsIdleOwnership ==
    ASSUME NEW t \in Task, PoolShape, Ownership, DropsIdle(t)
    PROVE  Ownership'
<1>1. /\ Head(idle) \in Conn
      /\ \A i, j \in DOMAIN idle' : idle'[i] = idle'[j] => i = j
      /\ \A i \in DOMAIN idle' : idle'[i] # Head(idle) /\ \E j \in DOMAIN idle : idle'[i] = idle[j]
      /\ \A j \in DOMAIN idle : idle[j] = Head(idle) \/ \E i \in DOMAIN idle' : idle'[i] = idle[j]
  BY IdleTaken DEF DropsIdle
<1>2. 1 \in DOMAIN idle /\ Head(idle) = idle[1]
  BY TailFacts DEF DropsIdle, PoolShape
<1>3. \A d \in Conn : d = Head(idle) => ~Owned(d)'
  BY <1>1, <1>2 DEF Owned, Ownership, DropsIdle
<1>4. \A d \in Conn \ {Head(idle)} : Owned(d)' <=> Owned(d)
  BY <1>1 DEF Owned, DropsIdle
<1>5. \A d \in Conn : Live(client'[d]) <=> Owned(d)'
  BY <1>3, <1>4 DEF DropsIdle, LiveElsewhere, Ownership
<1> QED
  BY <1>1, <1>5 DEF Ownership, DropsIdle

\* Nor has one that was dropped under test.
LEMMA DropsTestedOwnership ==
    ASSUME NEW t \in Task, PoolShape, Ownership, DropsTested(t)
    PROVE  Ownership'
<1>1. held'[t] = NoConn /\ \A u \in Task \ {t} : held'[u] = held[u]
  BY DEF DropsTested, Holds
<1>2. held[t] \in Conn
  BY DEF DropsTested, PoolShape, Owning
<1>3. \A d \in Conn : d = held[t] => ~Owned(d)'
  BY <1>1, <1>2, PoolAssumption DEF Owned, Ownership, DropsTested
<1>4. \A d \in Conn \ {held[t]} : Owned(d)' <=> Owned(d)
  BY <1>1, PoolAssumption DEF Owned, DropsTested
<1>5. \A d \in Conn : Live(client'[d]) <=> Owned(d)'
  BY <1>3, <1>4 DEF DropsTested, LiveElsewhere, Ownership
<1>6. \A i \in DOMAIN idle' : idle'[i] \in Conn
  BY DEF DropsTested, PoolShape
<1> QED
  BY <1>1, <1>5, <1>6, PoolAssumption DEF Ownership, DropsTested

\* A connection that comes back is idle once and in no hands.
LEMMA GivesBackOwnership ==
    ASSUME NEW t \in Task, PoolShape, Ownership, GivesBack(t)
    PROVE  Ownership'
<1>1. held'[t] = NoConn /\ \A u \in Task \ {t} : held'[u] = held[u]
  BY DEF GivesBack, Holds
<1>2. held[t] \in Conn
  BY DEF GivesBack, PoolShape, Owning
<1> DEFINE n == Len(idle) + 1
<1>3. /\ n \in Nat \ {0} /\ DOMAIN idle = 1 .. (n - 1) /\ DOMAIN idle' = 1 .. n
      /\ \A i \in DOMAIN idle : idle'[i] = idle[i]
      /\ idle'[n] = held[t]
  BY <1>2, AppendFacts DEF GivesBack, PoolShape
<1> HIDE DEF n
<1>4. \A i \in DOMAIN idle' : i \in DOMAIN idle \/ i = n
  BY <1>3
<1>5. n \in DOMAIN idle' /\ \A i \in DOMAIN idle : i \in DOMAIN idle'
  BY <1>3
<1>6. \A i \in DOMAIN idle : idle[i] \in Conn
  BY DEF PoolShape
<1>7. \A u, v \in Task : held'[u] \in Conn /\ held'[u] = held'[v] => u = v
  BY <1>1, PoolAssumption DEF Ownership
<1>8. \A u \in Task : \A i \in DOMAIN idle' : held'[u] # idle'[i]
  BY <1>1, <1>2, <1>3, <1>4, <1>6, PoolAssumption DEF Ownership
<1>9. \A i, j \in DOMAIN idle' : idle'[i] = idle'[j] => i = j
  BY <1>3, <1>4 DEF Ownership
<1>10. \A c \in Conn : Owned(c)' <=> Owned(c)
  <2> SUFFICES ASSUME NEW c \in Conn PROVE Owned(c)' <=> Owned(c)
    OBVIOUS
  <2>1. ASSUME Owned(c) PROVE Owned(c)'
    BY <1>1, <1>3, <1>5, <2>1 DEF Owned
  <2>2. ASSUME Owned(c)' PROVE Owned(c)
    BY <1>1, <1>3, <1>4, <2>2, PoolAssumption DEF Owned
  <2> QED
    BY <2>1, <2>2
<1> QED
  BY <1>7, <1>8, <1>9, <1>10 DEF Ownership, LiveSame, GivesBack

\* Every effect a step can have keeps the ownership.
LEMMA StepOwnership ==
    ASSUME PoolShape, Ownership, Effect
    PROVE  Ownership'
<1>1. CASE Quiet
  BY <1>1, SameOwnership DEF Quiet
<1>2. ASSUME NEW t \in Task, TakesPermit(t) \/ GivesPermit(t) \/ TurnsToCreate(t)
      PROVE  Ownership'
  BY <1>2, SameOwnership DEF TakesPermit, GivesPermit, TurnsToCreate
<1> QED
  BY <1>1, <1>2, TakesIdleOwnership, MakesConnectionOwnership, DropsIdleOwnership,
     DropsTestedOwnership, GivesBackOwnership DEF Effect

-----------------------------------------------------------------------------
(* Counting: a permit is free or with a task, and the idle connections fit *)
(* beside those that tasks have or make.                                   *)

Admitted == {t \in Task : pc[t] \in Permitted}
Using    == {t \in Task : pc[t] \in Permitted \ Unladen}

Counting ==
    /\ permits \in Nat
    /\ permits + Cardinality(Admitted) = MaxSize
    /\ Len(idle) + Cardinality(Using) <= MaxSize

\* Sets of tasks are finite; one task more or less counts for one.
LEMMA CountTasks ==
    ASSUME NEW A \in SUBSET Task
    PROVE  /\ IsFiniteSet(A) /\ Cardinality(A) \in Nat
           /\ \A t \in Task \ A : Cardinality(A \cup {t}) = Cardinality(A) + 1
           /\ \A t \in A : Cardinality(A \ {t}) = Cardinality(A) - 1
<1>1. IsFiniteSet(A) /\ Cardinality(A) \in Nat
  BY PoolAssumption, FS_Subset, FS_CardinalityType
<1>2. ASSUME NEW t \in Task \ A PROVE Cardinality(A \cup {t}) = Cardinality(A) + 1
  BY <1>1, <1>2, FS_AddElement
<1>3. ASSUME NEW t \in A PROVE Cardinality(A \ {t}) = Cardinality(A) - 1
  BY <1>1, <1>3, FS_RemoveElement
<1> QED
  BY <1>1, <1>2, <1>3

\* At first every permit is free.
LEMMA InitCounting == Init => Counting
<1> SUFFICES ASSUME Init PROVE Counting
  OBVIOUS
<1>1. \A t \in Task : pc[t] = "new"
  BY DEF Init
<1>2. Admitted = {} /\ Using = {}
  BY <1>1 DEF Admitted, Using, Permitted, Unladen, InHands, InFlight
<1>3. Len(idle) = 0 /\ permits = MaxSize
  BY DEF Init
<1> QED
  BY <1>2, <1>3, FS_EmptySet, PoolAssumption DEF Counting

\* Every effect a step can have keeps the count of permits, and the bound on
\* connections.
LEMMA StepCounting ==
    ASSUME PoolShape, PoolShape', Counting, Effect
    PROVE  Counting'
<1> DEFINE a == Cardinality(Admitted)
           u == Cardinality(Using)
<1>1. /\ Admitted \in SUBSET Task /\ Using \in SUBSET Task /\ a \in Nat /\ u \in Nat
      /\ Len(idle) \in Nat /\ permits \in Nat /\ MaxSize \in Nat
      /\ permits + a = MaxSize /\ Len(idle) + u <= MaxSize
  BY CountTasks, PoolAssumption DEF Admitted, Using, Counting, PoolShape
<1>2. \A t \in Task \ Admitted : Cardinality(Admitted \cup {t}) = a + 1
  BY <1>1, CountTasks
<1>3. \A t \in Admitted : Cardinality(Admitted \ {t}) = a - 1
  BY <1>1, CountTasks
<1>4. \A t \in Task \ Using : Cardinality(Using \cup {t}) = u + 1
  BY <1>1, CountTasks
<1>5. \A t \in Using : Cardinality(Using \ {t}) = u - 1
  BY <1>1, CountTasks
<1>6. idle # <<>> /\ idle' = Tail(idle) => Len(idle') = Len(idle) - 1
  BY TailFacts DEF PoolShape
<1> USE DEF Permitted, Unladen, InHands, InFlight
<1>7. CASE Quiet
  <2>1. Admitted' = Admitted /\ Using' = Using
    BY <1>7 DEF Admitted, Using, Quiet
  <2> QED
    BY <1>1, <1>7, <2>1 DEF Quiet, Counting
<1>8. ASSUME NEW t \in Task, TakesPermit(t) PROVE Counting'
  <2>1. /\ t \notin Admitted /\ t \notin Using
        /\ Admitted' = Admitted \cup {t} /\ Using' = Using
    BY <1>8 DEF Admitted, Using, TakesPermit, MovedTo
  <2> QED
    BY <1>1, <1>2, <1>8, <2>1 DEF TakesPermit, Counting
<1>9. ASSUME NEW t \in Task, GivesPermit(t) PROVE Counting'
  <2>1. t \in Admitted /\ Admitted' = Admitted \ {t}
    BY <1>9 DEF Admitted, GivesPermit, MovedTo
  <2>2. \/ t \in Using /\ Using' = Using \ {t}
        \/ Using' = Using
    BY <1>9 DEF Using, GivesPermit, MovedTo
  <2> QED
    BY <1>1, <1>3, <1>5, <1>9, <2>1, <2>2 DEF GivesPermit, Counting
<1>10. ASSUME NEW t \in Task, TurnsToCreate(t) PROVE Counting'
  <2>1. /\ t \notin Using /\ Admitted' = Admitted /\ Using' = Using \cup {t} /\ t \in Admitted
        /\ Using \cup {t} \in SUBSET Admitted
    BY <1>10 DEF Admitted, Using, TurnsToCreate, MovedTo
  <2>2. IsFiniteSet(Admitted)
    BY <1>1, CountTasks
  <2>3. Cardinality(Using \cup {t}) <= a
    BY <2>1, <2>2, FS_Subset
  <2>4. Len(idle') = 0
    BY <1>10 DEF TurnsToCreate
  <2> QED
    BY <1>1, <1>4, <1>10, <2>1, <2>3, <2>4 DEF TurnsToCreate, Counting
<1>11. ASSUME NEW t \in Task, TakesIdle(t) PROVE Counting'
  <2>1. /\ t \notin Using /\ Admitted' = Admitted /\ Using' = Using \cup {t}
    BY <1>11 DEF Admitted, Using, TakesIdle, MovedTo
  <2> QED
    BY <1>1, <1>4, <1>6, <1>11, <2>1 DEF TakesIdle, Counting
<1>12. ASSUME NEW t \in Task, NEW c \in Conn, MakesConnection(t, c) PROVE Counting'
  <2>1. Admitted' = Admitted /\ Using' = Using
    BY <1>12 DEF Admitted, Using, MakesConnection, MovedTo
  <2> QED
    BY <1>1, <1>12, <2>1 DEF MakesConnection, Counting
<1>13. ASSUME NEW t \in Task, DropsIdle(t) PROVE Counting'
  <2>1. t \in Admitted /\ t \notin Using /\ Len(idle') = Len(idle) - 1
    BY <1>6, <1>13 DEF Admitted, Using, DropsIdle
  <2>2. CASE MovedTo(t, "acquired") /\ permits' = permits
    <3>1. Admitted' = Admitted /\ Using' = Using
      BY <1>13, <2>2 DEF Admitted, Using, DropsIdle, MovedTo
    <3> QED
      BY <1>1, <2>1, <2>2, <3>1 DEF Counting
  <2>3. CASE MovedTo(t, "done") /\ permits' = permits + 1
    <3>1. Admitted' = Admitted \ {t} /\ Using' = Using
      BY <1>13, <2>3 DEF Admitted, Using, DropsIdle, MovedTo
    <3> QED
      BY <1>1, <1>3, <2>1, <2>3, <3>1 DEF Counting
  <2> QED
    BY <1>13, <2>2, <2>3 DEF DropsIdle
<1>14. ASSUME NEW t \in Task, DropsTested(t) PROVE Counting'
  <2>1. t \in Admitted /\ t \in Using /\ idle' = idle
    BY <1>14 DEF Admitted, Using, DropsTested
  <2>2. CASE MovedTo(t, "acquired") /\ permits' = permits
    <3>1. Admitted' = Admitted /\ Using' = Using \ {t}
      BY <1>14, <2>2 DEF Admitted, Using, DropsTested, MovedTo
    <3> QED
      BY <1>1, <1>5, <2>1, <2>2, <3>1 DEF Counting
  <2>3. CASE MovedTo(t, "done") /\ permits' = permits + 1
    <3>1. Admitted' = Admitted \ {t} /\ Using' = Using \ {t}
      BY <1>14, <2>3 DEF Admitted, Using, DropsTested, MovedTo
    <3> QED
      BY <1>1, <1>3, <1>5, <2>1, <2>3, <3>1 DEF Counting
  <2> QED
    BY <1>14, <2>2, <2>3 DEF DropsTested
<1>15. ASSUME NEW t \in Task, GivesBack(t) PROVE Counting'
  <2>1. /\ t \in Admitted /\ t \in Using
        /\ Admitted' = Admitted \ {t} /\ Using' = Using \ {t}
    BY <1>15 DEF Admitted, Using, GivesBack, MovedTo
  <2>2. held[t] \in Conn
    BY <1>15 DEF GivesBack, PoolShape, Owning
  <2>3. Len(idle') = Len(idle) + 1
    BY <1>15, <2>2, AppendFacts DEF GivesBack, PoolShape
  <2> QED
    BY <1>1, <1>3, <1>5, <1>15, <2>1, <2>3 DEF GivesBack, Counting
<1> QED
  BY <1>7, <1>8, <1>9, <1>10, <1>11, <1>12, <1>13, <1>14, <1>15 DEF Effect

-----------------------------------------------------------------------------
\* The inductive invariant of the pool.
PoolInv == PoolShape /\ Ownership /\ Counting

\* The three layers hold together, in every reachable state.
THEOREM PoolInvHolds == Spec => []PoolInv
<1>1. Init => PoolInv
  BY InitShape, InitOwnership, InitCounting DEF PoolInv
<1>2. PoolInv /\ [Next]_vars => PoolInv'
  BY StepEffect, StepOwnership, StepCounting DEF PoolInv
<1> QED
  BY <1>1, <1>2, PTL DEF Spec

\* There are no more live connections than idle places and tasks using one.
LEMMA LiveFit ==
    ASSUME PoolInv
    PROVE  Cardinality({c \in Conn : client[c].life \in {"open", "lost"}}) <= MaxSize
<1> DEFINE L == {c \in Conn : Live(client[c])}
           I == {c \in Conn : \E i \in DOMAIN idle : idle[i] = c}
           O == {t \in Task : held[t] \in Conn}
           H == {c \in Conn : \E t \in Task : held[t] = c}
<1>1. L = I \cup H
  BY DEF PoolInv, Ownership, Owned
<1>2. Len(idle) \in Nat /\ DOMAIN idle = 1 .. Len(idle) /\ \A i \in DOMAIN idle : idle[i] \in Conn
  BY DEF PoolInv, PoolShape
<1>3. IsFiniteSet(I) /\ Cardinality(I) <= Len(idle)
  <2> DEFINE n == Len(idle)
             f == [i \in 1 .. n |-> idle[i]]
  <2>1. f \in Surjection(1 .. n, I)
    BY <1>2 DEF Surjection
  <2>2. n \in Nat
    BY <1>2
  <2> HIDE DEF f, n, I
  <2>3. IsFiniteSet(1 .. n) /\ Cardinality(1 .. n) = IF 1 > n THEN 0 ELSE n - 1 + 1
    BY <2>2, FS_Interval
  <2>4. IsFiniteSet(I) /\ Cardinality(I) <= Cardinality(1 .. n)
    BY <2>1, <2>3, FS_Surjection
  <2>5. Cardinality(1 .. n) = n
    BY <2>2, <2>3
  <2> QED
    BY <2>4, <2>5 DEF n
<1>4. IsFiniteSet(Using) /\ Cardinality(Using) \in Nat
  BY CountTasks DEF Using
<1>5. IsFiniteSet(O) /\ Cardinality(O) <= Cardinality(Using)
  <2>1. O \in SUBSET Using
    BY DEF PoolInv, PoolShape, Using, Owning, Permitted, Unladen, InHands, InFlight
  <2> QED
    BY <1>4, <2>1, FS_Subset
<1>6. IsFiniteSet(H) /\ Cardinality(H) <= Cardinality(O)
  <2> DEFINE f == [t \in O |-> held[t]]
  <2>1. f \in Surjection(O, H)
    BY DEF Surjection
  <2> HIDE DEF f, O, H
  <2> QED
    BY <1>5, <2>1, FS_Surjection
<1>7. Cardinality(I \cup H) = Cardinality(I) + Cardinality(H) - Cardinality(I \cap H)
  BY <1>3, <1>6, FS_Union
<1>8. /\ Cardinality(I) \in Nat /\ Cardinality(H) \in Nat /\ Cardinality(O) \in Nat
      /\ Cardinality(I \cap H) \in Nat
  <2>1. I \cap H \in SUBSET I
    OBVIOUS
  <2>2. IsFiniteSet(I \cap H)
    BY <1>3, <2>1, FS_Subset
  <2> QED
    BY <1>3, <1>5, <1>6, <2>2, FS_CardinalityType
<1>9. Len(idle) + Cardinality(Using) <= MaxSize /\ MaxSize \in Nat
  BY PoolAssumption DEF PoolInv, Counting
<1>10. Cardinality(L) <= MaxSize
  <2> HIDE DEF L, I, O, H
  <2> QED
    BY <1>1, <1>2, <1>3, <1>4, <1>5, <1>6, <1>7, <1>8, <1>9
<1>11. L = {c \in Conn : client[c].life \in {"open", "lost"}}
  BY DEF Live
<1> QED
  BY <1>10, <1>11

\* A live connection is in one place.
LEMMA OnePlace ==
    ASSUME PoolInv, NEW c \in Conn, Live(client[c])
    PROVE  Cardinality({i \in DOMAIN idle : idle[i] = c})
             + Cardinality({t \in Task : held[t] = c}) = 1
<1> DEFINE I == {i \in DOMAIN idle : idle[i] = c}
           H == {t \in Task : held[t] = c}
<1>1. Ownership /\ Owned(c)
  BY DEF PoolInv, Ownership
<1>2. CASE \E t \in Task : held[t] = c
  <2>1. PICK t \in Task : held[t] = c
    BY <1>2
  <2>2. H = {t} /\ I = {}
    BY <1>1, <2>1 DEF Ownership
  <2>3. Cardinality(H) = 1 /\ Cardinality(I) = 0
    BY <2>2, FS_Singleton, FS_EmptySet
  <2> QED
    BY <2>3
<1>3. CASE \E i \in DOMAIN idle : idle[i] = c
  <2>1. PICK i \in DOMAIN idle : idle[i] = c
    BY <1>3
  <2>2. I = {i} /\ H = {}
    BY <1>1, <2>1 DEF Ownership
  <2>3. Cardinality(I) = 1 /\ Cardinality(H) = 0
    BY <2>2, FS_Singleton, FS_EmptySet
  <2> QED
    BY <2>3
<1> QED
  BY <1>1, <1>2, <1>3 DEF Owned

\* Whatever is cancelled, lost or dropped, at whatever await: the pool keeps its
\* permits, never has more than max_size connections, and has each live one in
\* one place; for every number of tasks, connections and slots.
THEOREM SlotsAlwaysConserved == Spec => []SlotsConserved
<1>1. PoolInv => SlotsConserved
  <2> SUFFICES ASSUME PoolInv PROVE SlotsConserved
    OBVIOUS
  <2>1. permits + Cardinality({t \in Task : pc[t] \in Permitted}) = MaxSize
    BY DEF PoolInv, Counting, Admitted
  <2>2. Cardinality({c \in Conn : client[c].life \in {"open", "lost"}}) <= MaxSize
    BY LiveFit
  <2>3. \A c \in Conn : client[c].life \in {"open", "lost"} =>
            Cardinality({i \in DOMAIN idle : idle[i] = c})
              + Cardinality({t \in Task : held[t] = c}) = 1
    BY OnePlace DEF Live
  <2> QED
    BY <2>1, <2>2, <2>3 DEF SlotsConserved
<1> QED
  BY <1>1, PoolInvHolds, PTL
=============================================================================
