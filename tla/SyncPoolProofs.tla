--------------------------- MODULE SyncPoolProofs ---------------------------
(***************************************************************************)
(* Theorems about SyncPool for any threads and connections, any set of     *)
(* URLs, any max_size and min_idle, any nesting, any number of faults.     *)
(*                                                                         *)
(* The inductive invariant says who has each connection, what r2d2 counts, *)
(* what the two ends of a connection are like, what each thread has done   *)
(* so far, and where connections come from.                                *)
(***************************************************************************)
EXTENDS SyncPool, FiniteSetTheorems, TLAPS

Open == {c \in Conn : conn[c].life # "absent"}

ConnEnd    == [life : {"absent", "live", "cut"}, opened : Opened,
               depth : Level, inError : BOOLEAN]
SessionEnd == [depth : Level, aborted : BOOLEAN,
               pend : SUBSET (Thread \X (1 .. MaxDepth))]

\* The types, but for the counts.
Types ==
    /\ url \in Urls /\ phase \in Phases /\ up \in BOOLEAN
    /\ conn \in [Conn -> ConnEnd]
    /\ session \in [Conn -> SessionEnd]
    /\ db \subseteq Thread
    /\ pc \in [Thread -> Places]
    /\ held \in [Thread -> Conn \cup {NoConn}]
    /\ kept \in [Thread -> SUBSET Level]
    /\ budget \in [Thread -> 0 .. MaxStmts]
    /\ result \in [Thread -> Results]
    /\ idle \in Seq(Conn)
    /\ faults \in 0 .. MaxFaults

Owned(c) ==
    \/ \E t \in Thread : held[t] = c
    \/ \E i \in DOMAIN idle : idle[i] = c

\* A connection is idle once or in one thread's hands, and it is open then.
Ownership ==
    /\ \A t \in Thread : held[t] \in Conn <=> pc[t] \in InHands
    /\ \A t, u \in Thread : held[t] \in Conn /\ held[t] = held[u] => t = u
    /\ \A i, j \in DOMAIN idle : idle[i] = idle[j] => i = j
    /\ \A t \in Thread : \A i \in DOMAIN idle : held[t] # idle[i]
    /\ \A c \in Conn : conn[c].life # "absent" <=> Owned(c)

\* What r2d2 counts is there, and what it asks for fits beside it.
Counting ==
    /\ IsFiniteSet(Open) /\ num = Cardinality(Open)
    /\ num \in Nat /\ pending \in Nat /\ num + pending <= MaxSize

\* The two ends of a connection: the manager knows of every transaction of a
\* session that lives, and nothing of its end before a statement says so.
Fits(cn, s) ==
    /\ s.depth = 0 => s = NoTransaction
    /\ \A p \in s.pend : p[2] <= s.depth
    /\ IF cn.life = "live" THEN cn.depth = s.depth /\ ~cn.inError
                           ELSE s = NoTransaction

\* What is_broken passes.
AtRest(cn) == cn.depth = 0 /\ ~cn.inError

Ends ==
    /\ \A c \in Conn : Fits(conn[c], session[c])
    /\ \A i \in DOMAIN idle : AtRest(conn[idle[i]])

\* What a thread that still works has in its hands and has done: nothing is
\* durable before its caller is told, and what a live session has pending is
\* what the thread wrote and did not take back.
Before == {"new", "trying", "waiting", "testing", "holding"}
Inside == {"body", "unwinding"}

Account(t) ==
    /\ pc[t] \in Before => kept[t] = {}
    /\ pc[t] \in Before \cup Inside => result[t] = "none" /\ t \notin db
    /\ pc[t] \in {"testing", "holding"} => AtRest(conn[held[t]])
    /\ pc[t] \in Inside =>
         /\ conn[held[t]].depth > 0
         /\ conn[held[t]].life = "live" => session[held[t]].pend = {t} \X kept[t]

Accounts == \A t \in Thread : Account(t)

\* A pool that is not ready serves nobody, and one that opens connections does
\* so for a URL whose backend was detected.
Origins ==
    /\ phase # "ready" => \A t \in Thread : pc[t] = "new"
    /\ phase \in {"building", "ready"} => DetectBackend(url) # "unknown"
    /\ phase \in {"new", "refused"} => Open = {}
    /\ \A c \in Open : conn[c].opened = Opens(url) /\ Opens(url) # Refused

SyncInv == Types /\ Ownership /\ Counting /\ Ends /\ Accounts /\ Origins

-----------------------------------------------------------------------------
(* Facts about the operators.                                              *)

\* Max and Min of two numbers are what they should be.
LEMMA MaxOfTwo ==
    ASSUME NEW a \in Int, NEW b \in Int
    PROVE  Max({a, b}) = IF a >= b THEN a ELSE b
<1> DEFINE m == IF a >= b THEN a ELSE b
<1>1. m \in {a, b} /\ \A y \in {a, b} : m >= y
  OBVIOUS
<1>2. \A x \in {a, b} : (\A y \in {a, b} : x >= y) => x = m
  OBVIOUS
<1> QED
  BY <1>1, <1>2 DEF Max

LEMMA MinOfTwo ==
    ASSUME NEW a \in Int, NEW b \in Int
    PROVE  Min({a, b}) = IF a <= b THEN a ELSE b
<1> DEFINE m == IF a <= b THEN a ELSE b
<1>1. m \in {a, b} /\ \A y \in {a, b} : m <= y
  OBVIOUS
<1>2. \A x \in {a, b} : (\A y \in {a, b} : x <= y) => x = m
  OBVIOUS
<1> QED
  BY <1>1, <1>2 DEF Min

\* establish_idle_connections asks for no more than there is room for.
LEMMA RefillFits ==
    ASSUME NEW i \in Nat, NEW n \in Nat, pending \in Nat, n + pending <= MaxSize, Refill(i, n)
    PROVE  pending' \in Nat /\ n + pending' <= MaxSize
<1> DEFINE missing == Max({MinIdle - i, 0})
           room    == Max({MaxSize - n - pending, 0})
<1>1. MinIdle \in Int /\ MaxSize \in Int
  BY SyncPoolAssumption
<1>2. missing \in Nat /\ room \in Nat /\ room = MaxSize - n - pending
  BY <1>1, MaxOfTwo, MinIdle - i \in Int, MaxSize - n - pending \in Int, 0 \in Int
<1>3. pending' = pending + Min({missing, room})
  BY DEF Refill
<1> HIDE DEF missing, room
<1>4. Min({missing, room}) \in Nat /\ Min({missing, room}) <= room
  BY <1>2, MinOfTwo
<1> QED
  BY <1>1, <1>2, <1>3, <1>4

\* The connection taken and the queue that is left, by index.
LEMMA FrontFacts ==
    ASSUME NEW S, NEW s \in Seq(S), s # <<>>
    PROVE  /\ Len(s) \in Nat \ {0} /\ DOMAIN s = 1 .. Len(s)
           /\ Last(s) = s[Len(s)] /\ Last(s) \in S
           /\ Front(s) \in Seq(S) /\ DOMAIN Front(s) = 1 .. (Len(s) - 1)
           /\ \A i \in DOMAIN Front(s) : Front(s)[i] = s[i]
<1>1. Len(s) \in Nat \ {0} /\ DOMAIN s = 1 .. Len(s) /\ \A i \in 1 .. Len(s) : s[i] \in S
  OBVIOUS
<1>2. Last(s) = s[Len(s)] /\ Last(s) \in S
  BY <1>1 DEF Last
<1>3. /\ SubSeq(s, 1, Len(s) - 1) \in Seq(S)
      /\ Len(SubSeq(s, 1, Len(s) - 1)) = Len(s) - 1
      /\ \A i \in 1 .. (Len(s) - 1) : SubSeq(s, 1, Len(s) - 1)[i] = s[i]
  BY <1>1
<1> QED
  BY <1>1, <1>2, <1>3 DEF Front

\* Adding an element at the end, by index.
LEMMA AppendFacts ==
    ASSUME NEW S, NEW s \in Seq(S), NEW e \in S
    PROVE  /\ Len(s) \in Nat /\ Append(s, e) \in Seq(S)
           /\ DOMAIN s = 1 .. Len(s) /\ DOMAIN Append(s, e) = 1 .. (Len(s) + 1)
           /\ \A i \in DOMAIN s : Append(s, e)[i] = s[i]
           /\ Append(s, e)[Len(s) + 1] = e
OBVIOUS

\* notify_one moves nobody but one sleeper.
LEMMA NotifyMoves ==
    ASSUME NEW places \in [Thread -> Places], Notify(places)
    PROVE  /\ pc' \in [Thread -> Places]
           /\ \A u \in Thread : \/ pc'[u] = places[u]
                                \/ places[u] = "waiting" /\ pc'[u] = "trying"
BY DEF Notify, Places

-----------------------------------------------------------------------------
(* The effect of a step on who has the connections and on the counts.      *)

Room == pending' \in Nat /\ num' + pending' <= MaxSize

\* Thread t now holds h; nobody else's hands change.
Holds(t, h) ==
    /\ held'[t] = h
    /\ \A u \in Thread \ {t} : held'[u] = held[u]

\* Whoever had a connection in hand has one still; t aside.
SameHands       == \A u \in Thread : pc'[u] \in InHands <=> pc[u] \in InHands
OtherHands(t)   == \A u \in Thread \ {t} : pc'[u] \in InHands <=> pc[u] \in InHands
SameLives       == \A d \in Conn : conn'[d].life = "absent" <=> conn[d].life = "absent"
OtherLives(c)   == \A d \in Conn \ {c} : conn'[d].life = "absent" <=> conn[d].life = "absent"

\* Nothing changes hands; the pool may ask for connections.
Stays ==
    /\ UNCHANGED <<held, idle, num>> /\ Room
    /\ SameLives /\ SameHands

\* A connection that was asked for is there, and idle.
Arrives(c) ==
    /\ conn[c].life = "absent" /\ conn'[c].life # "absent" /\ OtherLives(c)
    /\ idle' = Append(idle, c) /\ num' = num + 1 /\ Room
    /\ UNCHANGED held /\ SameHands

\* Thread t takes the idle connection that came last.
Takes(t) ==
    /\ pc[t] \notin InHands /\ pc'[t] \in InHands /\ OtherHands(t)
    /\ idle # <<>> /\ idle' = Front(idle) /\ Holds(t, Last(idle))
    /\ UNCHANGED num /\ Room
    /\ SameLives

\* The connection in t's hands is closed.
Discards(t) ==
    /\ pc[t] \in InHands /\ pc'[t] \notin InHands /\ OtherHands(t)
    /\ conn'[held[t]].life = "absent" /\ OtherLives(held[t])
    /\ Holds(t, NoConn)
    /\ num' = num - 1 /\ Room
    /\ UNCHANGED idle

\* The connection in t's hands goes back.
Returns(t) ==
    /\ pc[t] \in InHands /\ pc'[t] \notin InHands /\ OtherHands(t)
    /\ idle' = Append(idle, held[t]) /\ Holds(t, NoConn)
    /\ UNCHANGED num /\ Room
    /\ SameLives

\* The pool is dropped while nobody uses it.
Closes ==
    /\ idle' = <<>> /\ num' = 0 /\ Room
    /\ \A t \in Thread : held'[t] = NoConn /\ pc'[t] \notin InHands
    /\ \A c \in Conn : conn'[c].life = "absent"

Effect ==
    \/ Stays \/ Closes
    \/ \E c \in Conn : Arrives(c)
    \/ \E t \in Thread : Takes(t) \/ Discards(t) \/ Returns(t)

\* A connection that arrives is owned by the queue, and was nobody's.
LEMMA ArrivesOwnership ==
    ASSUME NEW c \in Conn, Types, Ownership, Arrives(c)
    PROVE  Ownership'
<1> DEFINE n == Len(idle) + 1
<1>1. /\ n \in Nat \ {0} /\ DOMAIN idle = 1 .. (n - 1) /\ DOMAIN idle' = 1 .. n
      /\ \A i \in DOMAIN idle : idle'[i] = idle[i]
      /\ idle'[n] = c
  BY AppendFacts DEF Types, Arrives
<1> HIDE DEF n
<1>2. /\ \A i \in DOMAIN idle' : i \in DOMAIN idle \/ i = n
      /\ n \in DOMAIN idle' /\ \A i \in DOMAIN idle : i \in DOMAIN idle'
  BY <1>1
<1>3. ~Owned(c) /\ held' = held
  BY DEF Arrives, Ownership
<1>4. \A i, j \in DOMAIN idle' : idle'[i] = idle'[j] => i = j
  BY <1>1, <1>2, <1>3 DEF Ownership, Owned
<1>5. \A u \in Thread : \A i \in DOMAIN idle' : held'[u] # idle'[i]
  BY <1>1, <1>2, <1>3 DEF Ownership, Owned
<1>6. Owned(c)' /\ \A d \in Conn \ {c} : Owned(d)' <=> Owned(d)
  BY <1>1, <1>2, <1>3 DEF Owned
<1>7. \A d \in Conn : conn'[d].life # "absent" <=> Owned(d)'
  BY <1>6 DEF Arrives, OtherLives, Ownership
<1> QED
  BY <1>3, <1>4, <1>5, <1>7 DEF Ownership, Arrives, SameHands

\* A connection that is taken leaves the queue for the thread.
LEMMA TakesOwnership ==
    ASSUME NEW t \in Thread, Types, Ownership, Takes(t)
    PROVE  Ownership'
<1> DEFINE n == Len(idle)
<1>1. /\ n \in Nat \ {0} /\ DOMAIN idle = 1 .. n /\ DOMAIN idle' = 1 .. (n - 1)
      /\ Last(idle) = idle[n] /\ Last(idle) \in Conn
      /\ \A i \in DOMAIN idle' : idle'[i] = idle[i]
  BY FrontFacts DEF Types, Takes
<1> HIDE DEF n
<1>2. /\ \A i \in DOMAIN idle' : i \in DOMAIN idle /\ i # n
      /\ n \in DOMAIN idle /\ \A i \in DOMAIN idle : i # n => i \in DOMAIN idle'
  BY <1>1
<1>3. held'[t] = idle[n] /\ (\A u \in Thread \ {t} : held'[u] = held[u]) /\ held[t] \notin Conn
  BY <1>1 DEF Takes, Holds, Ownership
<1>4. \A i, j \in DOMAIN idle' : idle'[i] = idle'[j] => i = j
  BY <1>1, <1>2 DEF Ownership
<1>5. \A u \in Thread : \A i \in DOMAIN idle' : held'[u] # idle'[i]
  BY <1>1, <1>2, <1>3 DEF Ownership
<1>6. \A u, v \in Thread : held'[u] \in Conn /\ held'[u] = held'[v] => u = v
  BY <1>2, <1>3 DEF Ownership
<1>7. \A d \in Conn : Owned(d)' <=> Owned(d)
  <2> SUFFICES ASSUME NEW d \in Conn PROVE Owned(d)' <=> Owned(d)
    OBVIOUS
  <2>1. ASSUME Owned(d) PROVE Owned(d)'
    BY <1>1, <1>2, <1>3, <2>1 DEF Owned
  <2>2. ASSUME Owned(d)' PROVE Owned(d)
    BY <1>1, <1>2, <1>3, <2>2 DEF Owned
  <2> QED
    BY <2>1, <2>2
<1>8. \A u \in Thread : held'[u] \in Conn <=> pc'[u] \in InHands
  BY <1>1, <1>3 DEF Takes, OtherHands, Ownership
<1> QED
  BY <1>4, <1>5, <1>6, <1>7, <1>8 DEF Ownership, Takes, SameLives

\* A connection that is closed is nobody's.
LEMMA DiscardsOwnership ==
    ASSUME NEW t \in Thread, Types, Ownership, Discards(t)
    PROVE  Ownership'
<1>1. held'[t] = NoConn /\ (\A u \in Thread \ {t} : held'[u] = held[u]) /\ held[t] \in Conn
  BY DEF Discards, Holds, Ownership
<1>2. NoConn \notin Conn /\ \A i \in DOMAIN idle' : idle'[i] \in Conn
  BY SyncPoolAssumption DEF Discards, Types
<1>3. \A d \in Conn : d = held[t] => ~Owned(d)'
  BY <1>1, <1>2 DEF Owned, Ownership, Discards
<1>4. \A d \in Conn \ {held[t]} : Owned(d)' <=> Owned(d)
  BY <1>1, <1>2 DEF Owned, Discards
<1>5. \A d \in Conn : conn'[d].life # "absent" <=> Owned(d)'
  BY <1>3, <1>4 DEF Discards, OtherLives, Ownership
<1>6. \A u \in Thread : held'[u] \in Conn <=> pc'[u] \in InHands
  BY <1>1, <1>2 DEF Discards, OtherHands, Ownership
<1> QED
  BY <1>1, <1>2, <1>5, <1>6 DEF Ownership, Discards

\* A connection that goes back is idle once and in no hands.
LEMMA ReturnsOwnership ==
    ASSUME NEW t \in Thread, Types, Ownership, Returns(t)
    PROVE  Ownership'
<1>1. held'[t] = NoConn /\ (\A u \in Thread \ {t} : held'[u] = held[u]) /\ held[t] \in Conn
  BY DEF Returns, Holds, Ownership
<1>2. NoConn \notin Conn /\ \A i \in DOMAIN idle : idle[i] \in Conn
  BY SyncPoolAssumption DEF Types
<1> DEFINE n == Len(idle) + 1
<1>3. /\ n \in Nat \ {0} /\ DOMAIN idle = 1 .. (n - 1) /\ DOMAIN idle' = 1 .. n
      /\ \A i \in DOMAIN idle : idle'[i] = idle[i]
      /\ idle'[n] = held[t]
  BY <1>1, AppendFacts DEF Types, Returns
<1> HIDE DEF n
<1>4. /\ \A i \in DOMAIN idle' : i \in DOMAIN idle \/ i = n
      /\ n \in DOMAIN idle' /\ \A i \in DOMAIN idle : i \in DOMAIN idle'
  BY <1>3
<1>5. \A i, j \in DOMAIN idle' : idle'[i] = idle'[j] => i = j
  BY <1>3, <1>4 DEF Ownership
<1>6. \A u \in Thread : \A i \in DOMAIN idle' : held'[u] # idle'[i]
  BY <1>1, <1>2, <1>3, <1>4 DEF Ownership
<1>7. \A d \in Conn : Owned(d)' <=> Owned(d)
  <2> SUFFICES ASSUME NEW d \in Conn PROVE Owned(d)' <=> Owned(d)
    OBVIOUS
  <2>1. ASSUME Owned(d) PROVE Owned(d)'
    BY <1>1, <1>3, <1>4, <2>1 DEF Owned
  <2>2. ASSUME Owned(d)' PROVE Owned(d)
    BY <1>1, <1>2, <1>3, <1>4, <2>2 DEF Owned
  <2> QED
    BY <2>1, <2>2
<1>8. \A u \in Thread : held'[u] \in Conn <=> pc'[u] \in InHands
  BY <1>1, <1>2 DEF Returns, OtherHands, Ownership
<1>9. \A u, v \in Thread : held'[u] \in Conn /\ held'[u] = held'[v] => u = v
  BY <1>1, <1>2 DEF Ownership
<1> QED
  BY <1>5, <1>6, <1>7, <1>8, <1>9 DEF Ownership, Returns, SameLives

\* Every effect a step can have keeps each connection with one owner.
LEMMA EffectOwnership ==
    ASSUME Types, Ownership, Effect
    PROVE  Ownership'
<1>1. CASE Stays
  <2>1. \A c \in Conn : Owned(c)' <=> Owned(c)
    BY <1>1 DEF Owned, Stays
  <2> QED
    BY <1>1, <2>1 DEF Ownership, Stays, SameLives, SameHands
<1>2. CASE Closes
  <2>1. DOMAIN idle' = {} /\ NoConn \notin Conn
    BY <1>2, SyncPoolAssumption DEF Closes
  <2>2. \A c \in Conn : ~Owned(c)'
    BY <1>2, <2>1 DEF Owned, Closes
  <2> QED
    BY <1>2, <2>1, <2>2 DEF Ownership, Closes
<1> QED
  BY <1>1, <1>2, ArrivesOwnership, TakesOwnership, DiscardsOwnership, ReturnsOwnership DEF Effect

\* Every effect a step can have is counted.
LEMMA EffectCounting ==
    ASSUME Types, Ownership, Counting, Effect
    PROVE  Counting'
<1>1. IsFiniteSet(Open) /\ num = Cardinality(Open) /\ num \in Nat
  BY DEF Counting
<1>2. ASSUME num' = num, SameLives, Room PROVE Counting'
  <2>1. Open' = Open
    BY <1>2 DEF Open, SameLives
  <2> QED
    BY <1>1, <1>2, <2>1 DEF Counting, Room
<1>3. CASE Stays \/ \E t \in Thread : Takes(t) \/ Returns(t)
  BY <1>2, <1>3 DEF Stays, Takes, Returns
<1>4. CASE Closes
  <2>1. Open' = {}
    BY <1>4 DEF Open, Closes
  <2> QED
    BY <1>4, <2>1, FS_EmptySet DEF Counting, Closes, Room
<1>5. ASSUME NEW c \in Conn, Arrives(c) PROVE Counting'
  <2>1. c \notin Open /\ Open' = Open \cup {c}
    BY <1>5 DEF Open, Arrives, OtherLives
  <2>2. IsFiniteSet(Open') /\ Cardinality(Open') = num + 1
    BY <1>1, <2>1, FS_AddElement
  <2> QED
    BY <1>1, <1>5, <2>2 DEF Counting, Arrives, Room
<1>6. ASSUME NEW t \in Thread, Discards(t) PROVE Counting'
  <2>1. held[t] \in Conn /\ Owned(held[t])
    BY <1>6 DEF Discards, Ownership, Owned
  <2>2. held[t] \in Open /\ Open' = Open \ {held[t]}
    BY <1>6, <2>1 DEF Open, Discards, OtherLives, Ownership
  <2>3. IsFiniteSet(Open') /\ Cardinality(Open') = num - 1 /\ Cardinality(Open') \in Nat
    BY <1>1, <2>2, FS_RemoveElement, FS_CardinalityType
  <2> QED
    BY <1>1, <1>6, <2>3 DEF Counting, Discards, Room
<1> QED
  BY <1>3, <1>4, <1>5, <1>6 DEF Effect

-----------------------------------------------------------------------------
(* Ends and accounts: what a step leaves as it was.                        *)

\* A thread whose connection, writes and result stand keeps its account, and
\* so it does when it is woken.
LEMMA AccountStays ==
    ASSUME NEW u \in Thread, Ownership, Account(u),
           pc'[u] = pc[u] \/ (pc[u] = "waiting" /\ pc'[u] = "trying"),
           held'[u] = held[u], kept'[u] = kept[u], result'[u] = result[u],
           u \in db' => u \in db,
           held[u] \in Conn => /\ conn'[held[u]] = conn[held[u]]
                               /\ session'[held[u]] = session[held[u]]
    PROVE  Account(u)'
<1>1. pc[u] \in {"testing", "holding", "body", "unwinding"} => held[u] \in Conn
  BY DEF Ownership, InHands
<1> QED
  BY <1>1 DEF Account, Before, Inside

\* Nobody holds what t holds.
LEMMA OthersHold ==
    ASSUME NEW t \in Thread, NEW u \in Thread \ {t}, Ownership, held[t] \in Conn
    PROVE  held[u] # held[t]
BY DEF Ownership

\* Where no connection, queue, hand or account changes and threads are woken
\* at most, the ends and the accounts stand.
LEMMA NothingHappens ==
    ASSUME Ownership, Ends, Accounts, UNCHANGED <<conn, session, idle, held, kept, result, db>>,
           \A u \in Thread : pc'[u] = pc[u] \/ (pc[u] = "waiting" /\ pc'[u] = "trying")
    PROVE  Ends' /\ Accounts'
<1>1. Ends'
  BY DEF Ends
<1>2. ASSUME NEW u \in Thread PROVE Account(u)'
  <2>1. Account(u)
    BY DEF Accounts
  <2> QED
    BY <2>1, AccountStays
<1> QED
  BY <1>1, <1>2 DEF Accounts

-----------------------------------------------------------------------------
(* Work: a statement of t on the connection in its hands.                  *)

\* Thread t moves to p, and nobody else moves.
MovedTo(t, p) ==
    /\ pc'[t] = p
    /\ \A u \in Thread \ {t} : pc'[u] = pc[u]

\* A step of t at work: it concerns t and its connection only, leaves the
\* connection where it is, and leaves both in order.
Works(t) ==
    /\ pc[t] \in Inside \cup {"holding"}
    /\ \E p \in Inside \cup {"leaving"} : MovedTo(t, p)
    /\ UNCHANGED <<url, phase, held, idle, num, pending>>
    /\ conn'[held[t]].life # "absent" /\ conn'[held[t]].opened = conn[held[t]].opened
    /\ Fits(conn'[held[t]], session'[held[t]])
    /\ \A c \in Conn \ {held[t]} : conn'[c] = conn[c] /\ session'[c] = session[c]
    /\ \A u \in Thread \ {t} : /\ kept'[u] = kept[u] /\ result'[u] = result[u]
                               /\ u \in db' <=> u \in db
    /\ Account(t)'

\* Such a step keeps everything in order.
LEMMA WorksKeeps ==
    ASSUME NEW t \in Thread, SyncInv, Types', Works(t)
    PROVE  SyncInv'
<1> DEFINE h == held[t]
<1>1. Types /\ Ownership /\ Counting /\ Ends /\ Accounts /\ Origins
  BY DEF SyncInv
<1>2. h \in Conn /\ pc[t] \in InHands /\ pc'[t] \in InHands /\ pc[t] # "new"
  BY <1>1 DEF Ownership, Works, Inside, InHands, MovedTo
<1>3. conn[h].life # "absent"
  BY <1>1, <1>2 DEF Ownership, Owned
<1>4. \A u \in Thread \ {t} : pc'[u] = pc[u]
  BY DEF Works, MovedTo
<1>5. Stays
  <2>1. SameLives
    BY <1>2, <1>3 DEF Works, SameLives
  <2>2. SameHands
    BY <1>2, <1>4 DEF SameHands
  <2> QED
    BY <1>1, <2>1, <2>2 DEF Works, Stays, Room, Counting
<1>6. Ownership' /\ Counting'
  BY <1>1, <1>5, EffectOwnership, EffectCounting DEF Effect
<1>7. Ends'
  <2>1. \A c \in Conn : Fits(conn'[c], session'[c])
    BY <1>1, <1>2 DEF Ends, Works
  <2>2. \A i \in DOMAIN idle : idle[i] \in Conn /\ idle[i] # h
    BY <1>1, <1>2 DEF Types, Ownership
  <2>3. \A i \in DOMAIN idle' : AtRest(conn'[idle'[i]])
    BY <1>1, <2>2 DEF Ends, Works
  <2> QED
    BY <2>1, <2>3 DEF Ends
<1>8. Accounts'
  <2>1. ASSUME NEW u \in Thread \ {t} PROVE Account(u)'
    <3>1. held[u] # h /\ Account(u)
      BY <1>1, <1>2, OthersHold DEF Accounts
    <3> QED
      BY <1>1, <1>4, <3>1, AccountStays DEF Works
  <2> QED
    BY <2>1 DEF Accounts, Works
<1>9. Origins'
  <2>1. Open' = Open /\ \A c \in Open : conn'[c].opened = conn[c].opened
    BY <1>2, <1>3 DEF Open, Works
  <2>2. phase = "ready" /\ url' = url /\ phase' = phase
    BY <1>1, <1>2 DEF Origins, Works
  <2> QED
    BY <1>1, <2>1, <2>2 DEF Origins
<1> QED
  BY <1>6, <1>7, <1>8, <1>9 DEF SyncInv

\* What is known of a thread at work and of its connection.
LEMMA AtWorkFacts ==
    ASSUME NEW t \in Thread, SyncInv, pc[t] \in Inside \cup {"holding"}
    PROVE  /\ held[t] \in Conn /\ conn[held[t]] \in ConnEnd /\ session[held[t]] \in SessionEnd
           /\ conn[held[t]].life \in {"live", "cut"}
           /\ Fits(conn[held[t]], session[held[t]])
           /\ kept[t] \in SUBSET Level /\ budget[t] \in 0 .. MaxStmts
           /\ result[t] = "none" /\ t \notin db
           /\ pc[t] = "holding" => kept[t] = {} /\ AtRest(conn[held[t]])
           /\ pc[t] \in Inside => conn[held[t]].depth > 0
           /\ (pc[t] \in Inside /\ conn[held[t]].life = "live")
                 => session[held[t]].pend = {t} \X kept[t]
<1>1. Types /\ Ownership /\ Ends /\ Account(t)
  BY DEF SyncInv, Accounts
<1>2. held[t] \in Conn
  BY <1>1 DEF Ownership, Inside, InHands
<1>3. conn[held[t]] \in ConnEnd /\ session[held[t]] \in SessionEnd
  BY <1>1, <1>2 DEF Types
<1>4. conn[held[t]].life # "absent"
  BY <1>1, <1>2 DEF Ownership, Owned
<1>5. conn[held[t]].life \in {"live", "cut"}
  BY <1>3, <1>4 DEF ConnEnd
<1>6. Fits(conn[held[t]], session[held[t]])
  BY <1>1, <1>2 DEF Ends
<1>7. kept[t] \in SUBSET Level /\ budget[t] \in 0 .. MaxStmts
  BY <1>1 DEF Types
<1> QED
  BY <1>1, <1>2, <1>3, <1>5, <1>6, <1>7 DEF Account, Before, Inside

\* The types of what a step at work may leave alone.
LEMMA Known ==
    ASSUME SyncInv
    PROVE  /\ kept \in [Thread -> SUBSET Level] /\ budget \in [Thread -> 0 .. MaxStmts]
           /\ result \in [Thread -> Results] /\ db \in SUBSET Thread
           /\ faults \in 0 .. MaxFaults /\ pc \in [Thread -> Places]
           /\ conn \in [Conn -> ConnEnd] /\ session \in [Conn -> SessionEnd]
BY DEF SyncInv, Types

\* A step leaves the ends of t's connection as cn and s, and all others alone.
EndsAre(t, cn, s) ==
    /\ cn \in ConnEnd /\ conn' \in [Conn -> ConnEnd] /\ conn'[held[t]] = cn
    /\ s \in SessionEnd /\ session' \in [Conn -> SessionEnd] /\ session'[held[t]] = s
    /\ \A c \in Conn \ {held[t]} : conn'[c] = conn[c] /\ session'[c] = session[c]

LEMMA EndsSet ==
    ASSUME NEW t \in Thread, SyncInv, held[t] \in Conn, NEW cn \in ConnEnd, NEW s \in SessionEnd,
           conn' = [conn EXCEPT ![held[t]] = cn] \/ (conn' = conn /\ cn = conn[held[t]]),
           session' = [session EXCEPT ![held[t]] = s] \/ (session' = session /\ s = session[held[t]])
    PROVE  EndsAre(t, cn, s)
<1>1. conn \in [Conn -> ConnEnd] /\ session \in [Conn -> SessionEnd]
  BY Known
<1>2. /\ conn' \in [Conn -> ConnEnd] /\ conn'[held[t]] = cn
      /\ \A c \in Conn \ {held[t]} : conn'[c] = conn[c]
  BY <1>1
<1>3. /\ session' \in [Conn -> SessionEnd] /\ session'[held[t]] = s
      /\ \A c \in Conn \ {held[t]} : session'[c] = session[c]
  BY <1>1
<1> QED
  BY <1>2, <1>3 DEF EndsAre

\* Where t goes, it goes alone.
LEMMA GotoMoves ==
    ASSUME NEW t \in Thread, NEW p \in Places, SyncInv, Goto(t, p) \/ (UNCHANGED pc /\ p = pc[t])
    PROVE  pc' \in [Thread -> Places] /\ MovedTo(t, p)
BY Known DEF Goto, MovedTo

\* The end of t's work concerns nobody else.
LEMMA FinishMoves ==
    ASSUME NEW t \in Thread, NEW r \in Results, SyncInv, Finish(t, r)
    PROVE  /\ pc' \in [Thread -> Places] /\ MovedTo(t, "leaving")
           /\ result' \in [Thread -> Results] /\ result'[t] = r
           /\ \A u \in Thread \ {t} : result'[u] = result[u]
<1>1. Goto(t, "leaving") /\ result' = [result EXCEPT ![t] = r]
  BY DEF Finish
<1> QED
  BY <1>1, GotoMoves, Known DEF Places

\* One statement less to issue.
LEMMA Spends ==
    ASSUME NEW t \in Thread, SyncInv, budget[t] > 0, budget' = [budget EXCEPT ![t] = @ - 1]
    PROVE  budget' \in [Thread -> 0 .. MaxStmts]
<1>1. MaxStmts \in Nat /\ budget \in [Thread -> 0 .. MaxStmts]
  BY SyncPoolAssumption, Known
<1>2. budget[t] \in 0 .. MaxStmts /\ budget[t] - 1 \in 0 .. MaxStmts
  BY <1>1
<1> QED
  BY <1>1, <1>2

\* A step at work: t goes to p and leaves the ends of its connection as cn and
\* s, in order, and if it goes on its account is.
Leaves(t, p, cn, s) ==
    /\ pc[t] \in Inside \cup {"holding"} /\ p \in Inside \cup {"leaving"}
    /\ pc' \in [Thread -> Places] /\ MovedTo(t, p)
    /\ PoolStill /\ faults' \in 0 .. MaxFaults
    /\ EndsAre(t, cn, s)
    /\ cn.life # "absent" /\ cn.opened = conn[held[t]].opened /\ Fits(cn, s)
    /\ kept' \in [Thread -> SUBSET Level] /\ budget' \in [Thread -> 0 .. MaxStmts]
    /\ result' \in [Thread -> Results] /\ db' \in SUBSET Thread
    /\ \A u \in Thread \ {t} : /\ kept'[u] = kept[u] /\ result'[u] = result[u]
                               /\ u \in db' <=> u \in db
    /\ p \in Inside => /\ result'[t] = "none" /\ t \notin db' /\ cn.depth > 0
                       /\ cn.life = "live" => s.pend = {t} \X kept'[t]

LEMMA LeavesKeeps ==
    ASSUME NEW t \in Thread, NEW p, NEW cn, NEW s, SyncInv, Leaves(t, p, cn, s)
    PROVE  SyncInv'
<1>1. Types /\ Ownership /\ held[t] \in Conn
  BY AtWorkFacts DEF SyncInv, Leaves
<1>2. /\ pc' \in [Thread -> Places] /\ MovedTo(t, p)
      /\ pc[t] \in Inside \cup {"holding"} /\ p \in Inside \cup {"leaving"}
  BY DEF Leaves
<1>3. /\ conn' \in [Conn -> ConnEnd] /\ session' \in [Conn -> SessionEnd]
      /\ conn'[held[t]] = cn /\ session'[held[t]] = s
      /\ \A c \in Conn \ {held[t]} : conn'[c] = conn[c] /\ session'[c] = session[c]
  BY DEF Leaves, EndsAre
<1>4. UNCHANGED <<url, phase, up, held, idle, num, pending>>
  BY DEF Leaves, PoolStill, countVars
<1>5. Types'
  BY <1>1, <1>2, <1>3, <1>4 DEF Types, Leaves
<1>6. Account(t)'
  <2>1. pc'[t] = p /\ conn'[held'[t]] = cn /\ session'[held'[t]] = s
    BY <1>2, <1>3, <1>4 DEF MovedTo
  <2> QED
    BY <1>2, <2>1 DEF Account, Inside, Before, Leaves
<1>7. Works(t)
  BY <1>2, <1>3, <1>4, <1>6 DEF Works, Leaves
<1> QED
  BY <1>5, <1>7, WorksKeeps

\* No transaction, and ends that fit it.
LEMMA NoTransactionFits ==
    /\ NoTransaction \in SessionEnd /\ NoTransaction.depth = 0 /\ NoTransaction.pend = {}
    /\ \A cn \in ConnEnd : (cn.life = "live" => cn.depth = 0 /\ ~cn.inError)
                               => Fits(cn, NoTransaction)
<1>1. NoTransaction \in SessionEnd /\ NoTransaction.depth = 0 /\ NoTransaction.pend = {}
  BY SyncPoolAssumption DEF NoTransaction, SessionEnd, Level
<1> QED
  BY <1>1 DEF Fits

\* Not aborting what is not aborted changes nothing.
LEMMA NotAborted ==
    ASSUME NEW s \in SessionEnd, NEW b \in BOOLEAN, ~b, ~s.aborted
    PROVE  [s EXCEPT !.aborted = b] = s
<1>1. b = FALSE
  OBVIOUS
<1>2. s.aborted = b
  BY <1>1 DEF SessionEnd
<1> QED
  BY <1>2 DEF SessionEnd

-----------------------------------------------------------------------------
(* The actions of a thread at work.                                        *)

\* BEGIN, SAVEPOINT.
LEMMA BeginKeeps ==
    ASSUME NEW t \in Thread, SyncInv, Begin(t)
    PROVE  SyncInv'
<1> DEFINE h  == held[t]
           cn == [conn[h] EXCEPT !.depth = conn[h].depth + 1]
           s  == [session[h] EXCEPT !.depth = session[h].depth + 1]
<1>1. pc[t] \in Inside \cup {"holding"}
  BY DEF Begin, AtWork, Inside
<1>2. /\ h \in Conn /\ conn[h] \in ConnEnd /\ session[h] \in SessionEnd
      /\ Fits(conn[h], session[h])
      /\ result[t] = "none" /\ t \notin db
      /\ pc[t] = "holding" => kept[t] = {} /\ AtRest(conn[h])
      /\ conn[h].life = "live" /\ pc[t] \in Inside => session[h].pend = {t} \X kept[t]
  BY <1>1, AtWorkFacts
<1>3. conn[h].life = "live" /\ conn[h].depth = session[h].depth /\ ~conn[h].inError
      /\ conn[h].depth < MaxDepth /\ MaxDepth \in Nat /\ conn[h].depth \in Nat
  BY <1>2, SyncPoolAssumption DEF Begin, Alive, Status, Fits, ConnEnd, Level
<1>4. cn \in ConnEnd /\ s \in SessionEnd
  BY <1>2, <1>3 DEF ConnEnd, SessionEnd, Level
<1>5. cn.life = "live" /\ cn.depth = conn[h].depth + 1 /\ ~cn.inError /\ cn.opened = conn[h].opened
      /\ s.depth = conn[h].depth + 1 /\ s.pend = session[h].pend
  BY <1>2, <1>3 DEF ConnEnd, SessionEnd
<1>6. Fits(cn, s)
  BY <1>2, <1>3, <1>5 DEF Fits, SessionEnd
<1>7. s.pend = {t} \X kept[t]
  <2>1. CASE pc[t] = "holding"
    BY <1>2, <1>3, <1>5, <2>1 DEF AtRest, Fits, NoTransaction
  <2> QED
    BY <1>1, <1>2, <1>3, <1>5, <2>1
<1>8. conn' = [conn EXCEPT ![h] = cn] /\ session' = [session EXCEPT ![h] = s]
  BY DEF Begin
<1> HIDE DEF cn, s
<1>9. EndsAre(t, cn, s)
  BY <1>2, <1>4, <1>8, EndsSet
<1>10. /\ pc' \in [Thread -> Places] /\ MovedTo(t, "body")
       /\ budget' \in [Thread -> 0 .. MaxStmts]
  BY GotoMoves, Spends, Known DEF Begin, Places
<1>11. PoolStill /\ UNCHANGED <<kept, result, db, faults>>
  BY DEF Begin
<1>12. Leaves(t, "body", cn, s)
  BY <1>1, <1>2, <1>3, <1>5, <1>6, <1>7, <1>9, <1>10, <1>11, Known DEF Leaves, Inside
<1> QED
  BY <1>12, LeavesKeeps

\* A statement of its own is durable and ends the work.
LEMMA ExecuteAloneKeeps ==
    ASSUME NEW t \in Thread, SyncInv, Execute(t), pc[t] = "holding"
    PROVE  SyncInv'
<1> DEFINE h == held[t]
<1>1. /\ h \in Conn /\ conn[h] \in ConnEnd /\ session[h] \in SessionEnd
      /\ Fits(conn[h], session[h]) /\ conn[h].depth = 0 /\ conn[h].life = "live"
  BY AtWorkFacts DEF AtRest, Execute, Alive
<1>2. session[h].depth = 0
  BY <1>1 DEF Fits
<1>3. /\ UNCHANGED <<conn, session, faults>> /\ PoolStill /\ db' = db \cup {t}
      /\ kept' = [kept EXCEPT ![t] = @ \cup {conn[h].depth}] /\ Finish(t, "ok")
  BY <1>2 DEF Execute, Status
<1>4. EndsAre(t, conn[h], session[h])
  BY <1>1, <1>3, EndsSet
<1>5. /\ kept' \in [Thread -> SUBSET Level] /\ db' \in SUBSET Thread
      /\ \A u \in Thread \ {t} : kept'[u] = kept[u] /\ (u \in db' <=> u \in db)
  BY <1>1, <1>3, Known, SyncPoolAssumption DEF Level
<1>6. budget' \in [Thread -> 0 .. MaxStmts]
  BY Spends DEF Execute
<1>7. Leaves(t, "leaving", conn[h], session[h])
  BY <1>1, <1>3, <1>4, <1>5, <1>6, FinishMoves, Known DEF Leaves, Inside, Results
<1> QED
  BY <1>7, LeavesKeeps

\* A statement inside a transaction stands at the level it was issued at.
LEMMA ExecuteInsideKeeps ==
    ASSUME NEW t \in Thread, SyncInv, Execute(t), pc[t] = "body"
    PROVE  SyncInv'
<1> DEFINE h == held[t]
           d == session[h].depth
           s == [session[h] EXCEPT !.pend = session[h].pend \cup {<<t, d>>}]
<1>1. /\ h \in Conn /\ conn[h] \in ConnEnd /\ session[h] \in SessionEnd
      /\ Fits(conn[h], session[h]) /\ conn[h].depth > 0 /\ conn[h].life = "live"
      /\ session[h].pend = {t} \X kept[t] /\ kept[t] \in SUBSET Level
      /\ result[t] = "none" /\ t \notin db
  BY AtWorkFacts DEF Execute, Alive, Inside
<1>2. d = conn[h].depth /\ d \in 1 .. MaxDepth /\ d # 0 /\ d \in Level
  BY <1>1, SyncPoolAssumption DEF Fits, SessionEnd, Level
<1>3. s \in SessionEnd /\ s.depth = d /\ s.pend = session[h].pend \cup {<<t, d>>}
  BY <1>1, <1>2 DEF SessionEnd
<1>4. Fits(conn[h], s)
  BY <1>1, <1>2, <1>3 DEF Fits, SessionEnd
<1>5. s.pend = {t} \X (kept[t] \cup {d})
  BY <1>1, <1>3
<1>6. session' = [session EXCEPT ![h] = s]
  BY <1>2 DEF Execute
<1>7. /\ UNCHANGED <<conn, faults, db, pc, result>> /\ PoolStill
      /\ kept' = [kept EXCEPT ![t] = @ \cup {d}]
  BY <1>2 DEF Execute, Status
<1> HIDE DEF s
<1>8. EndsAre(t, conn[h], s)
  BY <1>1, <1>3, <1>6, <1>7, EndsSet
<1>9. kept' \in [Thread -> SUBSET Level] /\ kept'[t] = kept[t] \cup {d}
      /\ \A u \in Thread \ {t} : kept'[u] = kept[u]
  BY <1>2, <1>7, Known
<1>10. /\ pc' \in [Thread -> Places] /\ MovedTo(t, "body")
       /\ budget' \in [Thread -> 0 .. MaxStmts]
  BY <1>7, GotoMoves, Spends, Known DEF Execute, Places
<1>11. Leaves(t, "body", conn[h], s)
  BY <1>1, <1>4, <1>5, <1>7, <1>8, <1>9, <1>10, Known DEF Leaves, Inside
<1> QED
  BY <1>11, LeavesKeeps

\* A refused statement aborts a transaction at most.
LEMMA ExecuteFailsKeeps ==
    ASSUME NEW t \in Thread, SyncInv, ExecuteFails(t)
    PROVE  SyncInv'
<1> DEFINE h == held[t]
           b == DetectBackend(url) = "pg" /\ session[h].depth > 0
           s == [session[h] EXCEPT !.aborted = b]
           p == IF pc[t] = "holding" THEN "leaving" ELSE "unwinding"
<1>1. pc[t] \in {"holding", "body"}
  BY DEF ExecuteFails, AtWork
<1>2. /\ h \in Conn /\ conn[h] \in ConnEnd /\ session[h] \in SessionEnd
      /\ Fits(conn[h], session[h]) /\ conn[h].life = "live"
      /\ pc[t] = "body" => session[h].pend = {t} \X kept[t] /\ conn[h].depth > 0
      /\ result[t] = "none" /\ t \notin db
  BY <1>1, AtWorkFacts DEF ExecuteFails, Alive, Inside
<1>3. s \in SessionEnd /\ s.depth = session[h].depth /\ s.pend = session[h].pend
  BY <1>2 DEF SessionEnd
<1>4. s.depth = 0 => s = NoTransaction
  <2> SUFFICES ASSUME s.depth = 0 PROVE s = NoTransaction
    OBVIOUS
  <2>1. session[h] = NoTransaction /\ session[h].depth = 0
    BY <1>2, <1>3 DEF Fits
  <2>2. ~b /\ b \in BOOLEAN /\ ~session[h].aborted
    BY <2>1 DEF NoTransaction
  <2> QED
    BY <1>2, <2>1, <2>2, NotAborted
<1>5. Fits(conn[h], s)
  BY <1>2, <1>3, <1>4 DEF Fits
<1>6. session' = [session EXCEPT ![h] = s]
  BY DEF ExecuteFails
<1>7. /\ UNCHANGED <<conn, db, kept, budget, faults>> /\ PoolStill
      /\ (Goto(t, "leaving") /\ result' = [result EXCEPT ![t] = "failed"] /\ p = "leaving")
           \/ (pc[t] = "body" /\ Goto(t, "unwinding") /\ result' = result /\ p = "unwinding")
  BY <1>1 DEF ExecuteFails, Finish
<1> HIDE DEF s, b
<1>8. EndsAre(t, conn[h], s)
  BY <1>2, <1>3, <1>6, <1>7, EndsSet
<1>9. /\ pc' \in [Thread -> Places] /\ MovedTo(t, p) /\ p \in Inside \cup {"leaving"}
  BY <1>1, <1>7, GotoMoves DEF Places, Inside
<1>10. /\ result' \in [Thread -> Results] /\ \A u \in Thread \ {t} : result'[u] = result[u]
       /\ p \in Inside => pc[t] = "body" /\ result'[t] = "none"
  BY <1>2, <1>7, Known DEF Results, Inside
<1> HIDE DEF p
<1>11. Leaves(t, p, conn[h], s)
  BY <1>1, <1>2, <1>3, <1>5, <1>7, <1>8, <1>9, <1>10, Known DEF Leaves, Inside
<1> QED
  BY <1>11, LeavesKeeps

\* The ends of t's connection are left as they are.
LEMMA EndsUntouched ==
    ASSUME NEW t \in Thread, SyncInv, pc[t] \in Inside \cup {"holding"}, UNCHANGED <<conn, session>>
    PROVE  /\ EndsAre(t, conn[held[t]], session[held[t]])
           /\ conn[held[t]].life # "absent" /\ Fits(conn[held[t]], session[held[t]])
BY AtWorkFacts, EndsSet

\* A closure returns an error of its own.
LEMMA UnwindKeeps ==
    ASSUME NEW t \in Thread, SyncInv, Unwind(t)
    PROVE  SyncInv'
<1> DEFINE cn == conn[held[t]]
           s  == session[held[t]]
<1>1. /\ pc[t] = "body" /\ Goto(t, "unwinding") /\ PoolStill
      /\ UNCHANGED <<conn, session, db, kept, budget, result, faults>>
  BY DEF Unwind, connVars
<1>2. /\ EndsAre(t, cn, s) /\ cn.life # "absent" /\ Fits(cn, s)
  BY <1>1, EndsUntouched DEF Inside
<1>3. /\ result[t] = "none" /\ t \notin db /\ cn.depth > 0
      /\ cn.life = "live" => s.pend = {t} \X kept[t]
  BY <1>1, AtWorkFacts DEF Inside
<1>4. pc' \in [Thread -> Places] /\ MovedTo(t, "unwinding")
  BY <1>1, GotoMoves DEF Places
<1>5. Leaves(t, "unwinding", cn, s)
  BY <1>1, <1>2, <1>3, <1>4, Known DEF Leaves, Inside
<1> QED
  BY <1>5, LeavesKeeps

\* A closure panics, or does nothing at all.
LEMMA StopsKeeps ==
    ASSUME NEW t \in Thread, SyncInv, Panic(t) \/ Leave(t)
    PROVE  SyncInv'
<1> DEFINE cn == conn[held[t]]
           s  == session[held[t]]
<1>1. /\ pc[t] \in {"body", "holding"} /\ PoolStill
      /\ Finish(t, "panicked") \/ Finish(t, "ok")
      /\ UNCHANGED <<conn, session, db, kept, budget, faults>>
  BY DEF Panic, Leave, AtWork, connVars
<1>2. /\ EndsAre(t, cn, s) /\ cn.life # "absent" /\ Fits(cn, s)
  BY <1>1, EndsUntouched DEF Inside
<1>3. /\ pc' \in [Thread -> Places] /\ MovedTo(t, "leaving")
      /\ result' \in [Thread -> Results]
      /\ \A u \in Thread \ {t} : result'[u] = result[u]
  BY <1>1, FinishMoves DEF Results
<1>4. Leaves(t, "leaving", cn, s)
  BY <1>1, <1>2, <1>3, Known DEF Leaves, Inside
<1> QED
  BY <1>4, LeavesKeeps

\* What a COMMIT makes durable is the work of the thread that issued it.
LEMMA CommittedIsOwn ==
    ASSUME NEW t \in Thread, SyncInv, pc[t] \in Inside, Alive(t)
    PROVE  /\ Committed(t) \in SUBSET Thread
           /\ \A u \in Thread \ {t} : u \in Committed(t) <=> u \in db
           /\ Committed(t) = IF kept[t] = {} THEN db ELSE db \cup {t}
<1>1. session[held[t]].pend = {t} \X kept[t] /\ db \in SUBSET Thread
  BY AtWorkFacts, Known DEF Alive
<1>2. {q[1] : q \in {t} \X kept[t]} = IF kept[t] = {} THEN {} ELSE {t}
  <2>1. CASE kept[t] = {}
    BY <2>1
  <2>2. ASSUME NEW k \in kept[t] PROVE {q[1] : q \in {t} \X kept[t]} = {t}
    <3>1. <<t, k>> \in {t} \X kept[t] /\ <<t, k>>[1] = t
      OBVIOUS
    <3>2. \A q \in {t} \X kept[t] : q[1] = t
      OBVIOUS
    <3> QED
      BY <3>1, <3>2
  <2> QED
    BY <2>1, <2>2
<1> QED
  BY <1>1, <1>2 DEF Committed

\* The end of a connection whose transaction is over, and of one whose session is.
Ended(cn)  == [cn EXCEPT !.depth = 0]
Severed(cn) == [cn EXCEPT !.life = "cut", !.inError = TRUE]
InError(cn) == [cn EXCEPT !.inError = TRUE]

LEMMA EndedFacts ==
    ASSUME NEW cn \in ConnEnd
    PROVE  /\ Ended(cn) \in ConnEnd /\ Ended(cn).life = cn.life /\ Ended(cn).opened = cn.opened
           /\ Ended(cn).depth = 0 /\ (~cn.inError => ~Ended(cn).inError)
           /\ Severed(cn) \in ConnEnd /\ Severed(cn).life = "cut" /\ Severed(cn).opened = cn.opened
           /\ InError(cn) \in ConnEnd /\ InError(cn).life = cn.life /\ InError(cn).opened = cn.opened
<1>1. 0 \in Level
  BY SyncPoolAssumption DEF Level
<1> QED
  BY <1>1 DEF ConnEnd, Ended, Severed, InError

\* The transaction ends with t's work, on a connection that lives.
LEMMA EndsWork ==
    ASSUME NEW t \in Thread, NEW r \in Results, SyncInv, pc[t] \in Inside, Alive(t),
           session' = [session EXCEPT ![held[t]] = NoTransaction],
           conn' = [conn EXCEPT ![held[t]].depth = 0],
           Finish(t, r), PoolStill, UNCHANGED <<budget, faults>>,
           kept' \in [Thread -> SUBSET Level], \A u \in Thread \ {t} : kept'[u] = kept[u],
           db' \in SUBSET Thread, \A u \in Thread \ {t} : u \in db' <=> u \in db
    PROVE  SyncInv'
<1> DEFINE cn == conn[held[t]]
<1>1. held[t] \in Conn /\ cn \in ConnEnd /\ cn.life = "live" /\ ~cn.inError
  BY AtWorkFacts DEF Fits, Alive
<1>2. /\ Ended(cn) \in ConnEnd /\ Ended(cn).life # "absent" /\ Ended(cn).opened = cn.opened
      /\ Ended(cn).depth = 0 /\ ~Ended(cn).inError
  BY <1>1, EndedFacts
<1>3. Fits(Ended(cn), NoTransaction) /\ NoTransaction \in SessionEnd
  BY <1>2, NoTransactionFits
<1>4. conn' = [conn EXCEPT ![held[t]] = Ended(cn)]
  BY DEF Ended
<1>5. EndsAre(t, Ended(cn), NoTransaction)
  BY <1>1, <1>2, <1>3, <1>4, EndsSet
<1>6. /\ pc' \in [Thread -> Places] /\ MovedTo(t, "leaving")
      /\ result' \in [Thread -> Results]
      /\ \A u \in Thread \ {t} : result'[u] = result[u]
  BY FinishMoves
<1>7. Leaves(t, "leaving", Ended(cn), NoTransaction)
  BY <1>2, <1>3, <1>5, <1>6, Known DEF Leaves, Inside
<1> QED
  BY <1>7, LeavesKeeps

\* COMMIT, and a ROLLBACK of the whole.
LEMMA CommitKeeps ==
    ASSUME NEW t \in Thread, SyncInv, Commit(t)
    PROVE  SyncInv'
<1>1. pc[t] \in Inside /\ Alive(t) /\ "ok" \in Results
  BY DEF Commit, Inside, Results
<1>2. db' \in SUBSET Thread /\ \A u \in Thread \ {t} : u \in db' <=> u \in db
  BY <1>1, CommittedIsOwn DEF Commit
<1>3. kept' \in [Thread -> SUBSET Level] /\ \A u \in Thread \ {t} : kept'[u] = kept[u]
  BY Known DEF Commit
<1> QED
  BY <1>1, <1>2, <1>3, EndsWork DEF Commit

LEMMA RollbackKeeps ==
    ASSUME NEW t \in Thread, SyncInv, Rollback(t)
    PROVE  SyncInv'
<1>1. pc[t] \in Inside /\ Alive(t) /\ "failed" \in Results
  BY DEF Rollback, Inside, Results
<1>2. db' \in SUBSET Thread /\ \A u \in Thread \ {t} : u \in db' <=> u \in db
  BY Known DEF Rollback
<1>3. kept' \in [Thread -> SUBSET Level] /\ \A u \in Thread \ {t} : kept'[u] = kept[u]
  BY Known DEF Rollback
<1> QED
  BY <1>1, <1>2, <1>3, EndsWork DEF Rollback

\* A refused COMMIT ends the transaction or leaves it as it is.
LEMMA CommitRefusedKeeps ==
    ASSUME NEW t \in Thread, SyncInv, CommitRefused(t)
    PROVE  SyncInv'
<1> DEFINE cn == conn[held[t]]
           s  == session[held[t]]
<1>1. pc[t] \in Inside /\ Alive(t) /\ "failed" \in Results /\ Finish(t, "failed")
      /\ PoolStill /\ UNCHANGED <<db, kept, budget, faults>>
  BY DEF CommitRefused, Inside, Results
<1>2. /\ kept \in [Thread -> SUBSET Level] /\ db \in SUBSET Thread
  BY Known
<1>3. CASE DetectBackend(url) = "pg"
  BY <1>1, <1>2, <1>3, EndsWork DEF CommitRefused
<1>4. CASE DetectBackend(url) # "pg"
  <2>1. UNCHANGED <<conn, session>>
    BY <1>4 DEF CommitRefused, connVars
  <2>2. EndsAre(t, cn, s) /\ cn.life # "absent" /\ Fits(cn, s)
    BY <1>1, <2>1, EndsUntouched
  <2>3. /\ pc' \in [Thread -> Places] /\ MovedTo(t, "leaving")
        /\ result' \in [Thread -> Results]
        /\ \A u \in Thread \ {t} : result'[u] = result[u]
    BY <1>1, FinishMoves
  <2>4. Leaves(t, "leaving", cn, s)
    BY <1>1, <2>2, <2>3, Known DEF Leaves, Inside
  <2> QED
    BY <2>4, LeavesKeeps
<1> QED
  BY <1>3, <1>4

\* The session ends with the answer under way.
LEMMA AnswerLostKeeps ==
    ASSUME NEW t \in Thread, SyncInv, AnswerLost(t)
    PROVE  SyncInv'
<1> DEFINE cn == conn[held[t]]
<1>1. /\ pc[t] \in {"body", "holding"} /\ Alive(t) /\ Finish(t, "unknown") /\ PoolStill
      /\ UNCHANGED <<kept, budget>>
      /\ faults \in Nat \ {0} /\ faults' = faults - 1
  BY Known, SyncPoolAssumption DEF AnswerLost, AtWork, OnServer, Alive
<1>2. held[t] \in Conn /\ cn \in ConnEnd
  BY <1>1, AtWorkFacts DEF Inside
<1>3. /\ Severed(cn) \in ConnEnd /\ Severed(cn).life = "cut" /\ Severed(cn).opened = cn.opened
  BY <1>2, EndedFacts
<1>4. Fits(Severed(cn), NoTransaction) /\ NoTransaction \in SessionEnd
  BY <1>3, NoTransactionFits
<1>5. /\ conn' = [conn EXCEPT ![held[t]] = Severed(cn)]
      /\ session' = [session EXCEPT ![held[t]] = NoTransaction]
  BY DEF AnswerLost, Severed
<1>6. EndsAre(t, Severed(cn), NoTransaction)
  BY <1>2, <1>3, <1>4, <1>5, EndsSet
<1>7. /\ pc' \in [Thread -> Places] /\ MovedTo(t, "leaving")
      /\ result' \in [Thread -> Results]
      /\ \A u \in Thread \ {t} : result'[u] = result[u]
  BY <1>1, FinishMoves DEF Results
<1>8. db' \in SUBSET Thread /\ \A u \in Thread \ {t} : u \in db' <=> u \in db
  <2>1. CASE pc[t] = "body" /\ db' = Committed(t)
    BY <1>1, <2>1, CommittedIsOwn DEF Inside
  <2>2. CASE db' = db \cup {t}
    BY <2>2, Known
  <2> QED
    BY <2>1, <2>2 DEF AnswerLost
<1>9. faults' \in 0 .. MaxFaults
  BY <1>1, Known, SyncPoolAssumption
<1>10. Leaves(t, "leaving", Severed(cn), NoTransaction)
  BY <1>1, <1>3, <1>4, <1>6, <1>7, <1>8, <1>9, Known DEF Leaves, Inside
<1> QED
  BY <1>10, LeavesKeeps

\* A statement on a session that was cut.
LEMMA BrokenKeeps ==
    ASSUME NEW t \in Thread, SyncInv, Broken(t)
    PROVE  SyncInv'
<1> DEFINE cn == conn[held[t]]
           s  == session[held[t]]
<1>1. /\ pc[t] \in Inside \cup {"holding"} /\ cn.life = "cut" /\ PoolStill
      /\ Finish(t, "failed") \/ Finish(t, "unknown")
      /\ UNCHANGED <<session, db, kept, budget, faults>>
  BY DEF Broken, AtWork, Inside
<1>2. held[t] \in Conn /\ cn \in ConnEnd /\ s \in SessionEnd /\ Fits(cn, s)
  BY <1>1, AtWorkFacts
<1>3. InError(cn) \in ConnEnd /\ InError(cn).life = "cut" /\ InError(cn).opened = cn.opened
  BY <1>1, <1>2, EndedFacts
<1>4. Fits(InError(cn), s)
  BY <1>1, <1>2, <1>3 DEF Fits
<1>5. conn' = [conn EXCEPT ![held[t]] = InError(cn)]
  BY DEF Broken, InError
<1>6. EndsAre(t, InError(cn), s)
  BY <1>1, <1>2, <1>3, <1>5, EndsSet
<1>7. /\ pc' \in [Thread -> Places] /\ MovedTo(t, "leaving")
      /\ result' \in [Thread -> Results]
      /\ \A u \in Thread \ {t} : result'[u] = result[u]
  BY <1>1, FinishMoves DEF Results
<1>8. Leaves(t, "leaving", InError(cn), s)
  BY <1>1, <1>3, <1>4, <1>6, <1>7, Known DEF Leaves, Inside
<1> QED
  BY <1>8, LeavesKeeps

\* RELEASE SAVEPOINT: what stood at level d or above stands at most at d - 1.
LevelsUp(K, d) == {Min({l, d - 1}) : l \in K}
WritesUp(P, d) == {<<q[1], Min({q[2], d - 1})>> : q \in P}

LEMMA WritesUpFacts ==
    ASSUME NEW t \in Thread, NEW K \in SUBSET Level, NEW d \in Level, d > 1,
           {t} \X K \in SUBSET (Thread \X (1 .. MaxDepth))
    PROVE  /\ WritesUp({t} \X K, d) = {t} \X LevelsUp(K, d)
           /\ WritesUp({t} \X K, d) \in SUBSET (Thread \X (1 .. MaxDepth))
           /\ LevelsUp(K, d) \in SUBSET Level
           /\ \A q \in WritesUp({t} \X K, d) : q[2] <= d - 1
<1>1. MaxDepth \in Nat /\ d \in Nat /\ d <= MaxDepth
  BY SyncPoolAssumption DEF Level
<1>2. ASSUME NEW l \in K
      PROVE  Min({l, d - 1}) \in 1 .. (d - 1)
  <2>1. <<t, l>> \in {t} \X K
    OBVIOUS
  <2>2. <<t, l>> \in Thread \X (1 .. MaxDepth)
    BY <2>1
  <2>3. l \in 1 .. MaxDepth
    BY <2>2
  <2> QED
    BY <1>1, <2>3, MinOfTwo
<1>3. LevelsUp(K, d) \in SUBSET (1 .. (d - 1))
  BY <1>2 DEF LevelsUp
<1>4. WritesUp({t} \X K, d) \subseteq {t} \X LevelsUp(K, d)
  <2> SUFFICES ASSUME NEW w \in WritesUp({t} \X K, d) PROVE w \in {t} \X LevelsUp(K, d)
    OBVIOUS
  <2>1. PICK q \in {t} \X K : w = <<q[1], Min({q[2], d - 1})>>
    BY DEF WritesUp
  <2>2. q[1] = t /\ q[2] \in K
    BY <2>1
  <2>3. Min({q[2], d - 1}) \in LevelsUp(K, d)
    BY <2>2 DEF LevelsUp
  <2> QED
    BY <2>1, <2>2, <2>3
<1>5. {t} \X LevelsUp(K, d) \subseteq WritesUp({t} \X K, d)
  <2> SUFFICES ASSUME NEW m \in LevelsUp(K, d) PROVE <<t, m>> \in WritesUp({t} \X K, d)
    OBVIOUS
  <2>1. PICK l \in K : m = Min({l, d - 1})
    BY DEF LevelsUp
  <2>2. <<t, l>> \in {t} \X K /\ <<t, l>>[1] = t /\ <<t, l>>[2] = l
    OBVIOUS
  <2>3. <<t, m>> = <<<<t, l>>[1], Min({<<t, l>>[2], d - 1})>>
    BY <2>1, <2>2
  <2> QED
    BY <2>2, <2>3 DEF WritesUp
<1>6. WritesUp({t} \X K, d) = {t} \X LevelsUp(K, d)
  BY <1>4, <1>5
<1>7. {t} \X LevelsUp(K, d) \in SUBSET (Thread \X (1 .. MaxDepth))
      /\ \A q \in {t} \X LevelsUp(K, d) : q[2] <= d - 1
  BY <1>1, <1>3
<1>8. LevelsUp(K, d) \in SUBSET Level
  BY <1>1, <1>3 DEF Level
<1> QED
  BY <1>6, <1>7, <1>8

\* ROLLBACK TO: what stood at level d or above is gone.
LevelsBelow(K, d) == {l \in K : l < d}
WritesBelow(P, d) == {q \in P : q[2] < d}

LEMMA WritesBelowFacts ==
    ASSUME NEW t \in Thread, NEW K \in SUBSET Level, NEW d \in Level,
           {t} \X K \in SUBSET (Thread \X (1 .. MaxDepth))
    PROVE  /\ WritesBelow({t} \X K, d) = {t} \X LevelsBelow(K, d)
           /\ WritesBelow({t} \X K, d) \in SUBSET (Thread \X (1 .. MaxDepth))
           /\ LevelsBelow(K, d) \in SUBSET Level
           /\ \A q \in WritesBelow({t} \X K, d) : q[2] <= d - 1
<1>1. d \in Nat /\ \A q \in {t} \X K : q[2] \in Nat
  BY SyncPoolAssumption DEF Level
<1>2. WritesBelow({t} \X K, d) = {t} \X LevelsBelow(K, d)
  BY DEF WritesBelow, LevelsBelow
<1>3. \A q \in WritesBelow({t} \X K, d) : q[2] <= d - 1
  BY <1>1 DEF WritesBelow
<1> QED
  BY <1>2, <1>3 DEF WritesBelow, LevelsBelow

\* The two ends one level up.
Outer(cn) == [cn EXCEPT !.depth = cn.depth - 1]

\* A savepoint is gone, in the session and in the status; the thread goes on.
StepsUp(t, p, s, K) ==
    /\ pc[t] \in Inside /\ Alive(t) /\ Status(t) > 1
    /\ p \in Inside /\ (Goto(t, p) \/ (UNCHANGED pc /\ p = pc[t]))
    /\ s \in SessionEnd /\ s.depth = session[held[t]].depth - 1
    /\ K \in SUBSET Level /\ s.pend = {t} \X K /\ \A q \in s.pend : q[2] <= s.depth
    /\ session' = [session EXCEPT ![held[t]] = s]
    /\ conn' = [conn EXCEPT ![held[t]].depth = @ - 1]
    /\ kept' = [kept EXCEPT ![t] = K]
    /\ PoolStill /\ UNCHANGED <<db, budget, result, faults>>

LEMMA EndsLevel ==
    ASSUME NEW t \in Thread, NEW p, NEW s, NEW K, SyncInv, StepsUp(t, p, s, K)
    PROVE  SyncInv'
<1> USE DEF StepsUp
<1> DEFINE h  == held[t]
           cn == Outer(conn[h])
<1>1. /\ h \in Conn /\ conn[h] \in ConnEnd /\ conn[h].life = "live" /\ ~conn[h].inError
      /\ conn[h].depth = session[h].depth /\ conn[h].depth > 1 /\ conn[h].depth \in Level
      /\ result[t] = "none" /\ t \notin db
  BY AtWorkFacts DEF Alive, Status, Fits, ConnEnd
<1>2. conn[h].depth \in Nat /\ conn[h].depth - 1 \in Level
  BY <1>1, SyncPoolAssumption DEF Level
<1>3. /\ cn \in ConnEnd /\ cn.depth = conn[h].depth - 1 /\ cn.life = "live" /\ ~cn.inError
      /\ cn.opened = conn[h].opened
  BY <1>1, <1>2 DEF ConnEnd, Outer
<1>4. s.depth = cn.depth /\ cn.depth > 0 /\ cn.depth # 0
  BY <1>1, <1>2, <1>3
<1>5. Fits(cn, s)
  BY <1>3, <1>4 DEF Fits
<1>6. conn' = [conn EXCEPT ![h] = cn]
  BY DEF Outer
<1> HIDE DEF cn
<1>7. EndsAre(t, cn, s)
  BY <1>1, <1>3, <1>6, EndsSet
<1>8. pc' \in [Thread -> Places] /\ MovedTo(t, p)
  BY GotoMoves DEF Inside, Places
<1>9. kept' \in [Thread -> SUBSET Level] /\ kept'[t] = K
      /\ \A u \in Thread \ {t} : kept'[u] = kept[u]
  BY Known
<1>10. Leaves(t, p, cn, s)
  BY <1>1, <1>3, <1>4, <1>5, <1>7, <1>8, <1>9, Known DEF Leaves
<1> QED
  BY <1>10, LeavesKeeps

LEMMA ReleaseKeeps ==
    ASSUME NEW t \in Thread, SyncInv, Release(t)
    PROVE  SyncInv'
<1> DEFINE h == held[t]
           d == session[h].depth
           P == session[h].pend
           s == [session[h] EXCEPT !.depth = d - 1, !.pend = WritesUp(P, d)]
<1>1. pc[t] \in Inside /\ Alive(t) /\ Status(t) > 1 /\ pc[t] = "body"
  BY DEF Release, Inside
<1>2. /\ h \in Conn /\ session[h] \in SessionEnd /\ kept[t] \in SUBSET Level
      /\ P = {t} \X kept[t] /\ d = conn[h].depth /\ d > 1 /\ d \in Level
      /\ P \in SUBSET (Thread \X (1 .. MaxDepth))
  BY <1>1, AtWorkFacts DEF Alive, Status, Fits, SessionEnd
<1>3. /\ WritesUp(P, d) = {t} \X LevelsUp(kept[t], d)
      /\ WritesUp(P, d) \in SUBSET (Thread \X (1 .. MaxDepth))
      /\ LevelsUp(kept[t], d) \in SUBSET Level
      /\ \A q \in WritesUp(P, d) : q[2] <= d - 1
  <2>1. {t} \X kept[t] \in SUBSET (Thread \X (1 .. MaxDepth))
    BY <1>2
  <2>2. kept[t] \in SUBSET Level /\ d \in Level /\ d > 1
    BY <1>2
  <2>3. P = {t} \X kept[t]
    BY <1>2
  <2> HIDE DEF d, P
  <2>4. /\ WritesUp({t} \X kept[t], d) = {t} \X LevelsUp(kept[t], d)
        /\ WritesUp({t} \X kept[t], d) \in SUBSET (Thread \X (1 .. MaxDepth))
        /\ LevelsUp(kept[t], d) \in SUBSET Level
        /\ \A q \in WritesUp({t} \X kept[t], d) : q[2] <= d - 1
    BY <2>1, <2>2, WritesUpFacts
  <2> QED
    BY <2>3, <2>4
<1>4. d - 1 \in Level
  BY <1>2, SyncPoolAssumption DEF Level
<1>5. s \in SessionEnd /\ s.depth = d - 1 /\ s.pend = WritesUp(P, d)
  BY <1>2, <1>3, <1>4 DEF SessionEnd
<1>6. session' = [session EXCEPT ![h] = s]
  BY DEF Release, WritesUp
<1>7. kept' = [kept EXCEPT ![t] = LevelsUp(kept[t], d)]
  BY <1>2 DEF Release, LevelsUp, Status
<1>8. conn' = [conn EXCEPT ![h].depth = @ - 1] /\ PoolStill
      /\ UNCHANGED <<db, pc, budget, result, faults>>
  BY DEF Release
<1> HIDE DEF s
<1>9. StepsUp(t, "body", s, LevelsUp(kept[t], d))
  BY <1>1, <1>3, <1>5, <1>6, <1>7, <1>8 DEF StepsUp, Inside
<1> QED
  BY <1>9, EndsLevel

LEMMA RollbackToKeeps ==
    ASSUME NEW t \in Thread, SyncInv, RollbackTo(t)
    PROVE  SyncInv'
<1> DEFINE h == held[t]
           d == session[h].depth
           P == session[h].pend
           s == [session[h] EXCEPT !.depth = d - 1, !.aborted = FALSE, !.pend = WritesBelow(P, d)]
<1>1. pc[t] \in Inside /\ Alive(t) /\ Status(t) > 1
  BY DEF RollbackTo, Inside
<1>2. /\ h \in Conn /\ session[h] \in SessionEnd /\ kept[t] \in SUBSET Level
      /\ P = {t} \X kept[t] /\ d = conn[h].depth /\ d > 1 /\ d \in Level
      /\ P \in SUBSET (Thread \X (1 .. MaxDepth))
  BY <1>1, AtWorkFacts DEF Alive, Status, Fits, SessionEnd
<1>3. /\ WritesBelow(P, d) = {t} \X LevelsBelow(kept[t], d)
      /\ WritesBelow(P, d) \in SUBSET (Thread \X (1 .. MaxDepth))
      /\ LevelsBelow(kept[t], d) \in SUBSET Level
      /\ \A q \in WritesBelow(P, d) : q[2] <= d - 1
  <2>1. {t} \X kept[t] \in SUBSET (Thread \X (1 .. MaxDepth))
    BY <1>2
  <2>2. kept[t] \in SUBSET Level /\ d \in Level /\ d > 1
    BY <1>2
  <2>3. P = {t} \X kept[t]
    BY <1>2
  <2> HIDE DEF d, P
  <2>4. /\ WritesBelow({t} \X kept[t], d) = {t} \X LevelsBelow(kept[t], d)
        /\ WritesBelow({t} \X kept[t], d) \in SUBSET (Thread \X (1 .. MaxDepth))
        /\ LevelsBelow(kept[t], d) \in SUBSET Level
        /\ \A q \in WritesBelow({t} \X kept[t], d) : q[2] <= d - 1
    BY <2>1, <2>2, WritesBelowFacts
  <2> QED
    BY <2>3, <2>4
<1>4. d - 1 \in Level
  BY <1>2, SyncPoolAssumption DEF Level
<1>5. s \in SessionEnd /\ s.depth = d - 1 /\ s.pend = WritesBelow(P, d)
  BY <1>2, <1>3, <1>4 DEF SessionEnd
<1>6. session' = [session EXCEPT ![h] = s]
  BY DEF RollbackTo, WritesBelow
<1>7. kept' = [kept EXCEPT ![t] = LevelsBelow(kept[t], d)]
  BY <1>2 DEF RollbackTo, LevelsBelow, Status
<1>8. conn' = [conn EXCEPT ![h].depth = @ - 1] /\ PoolStill
      /\ UNCHANGED <<db, budget, result, faults>>
  BY DEF RollbackTo
<1>9. PICK p \in {"body", "unwinding"} : Goto(t, p)
  BY DEF RollbackTo
<1> HIDE DEF s
<1>10. StepsUp(t, p, s, LevelsBelow(kept[t], d))
  BY <1>1, <1>3, <1>5, <1>6, <1>7, <1>8, <1>9 DEF StepsUp, Inside
<1> QED
  BY <1>10, EndsLevel

-----------------------------------------------------------------------------
(* What a URL opens.                                                       *)

\* A URL for every head there is, with its file.
LEMMA OpensOpened ==
    ASSUME url \in Urls
    PROVE  Opens(url) \in Opened
<1>1. url \in Url
  BY SyncPoolAssumption
<1>2. PgOpens(url) \in Opened
  BY DEF PgOpens, Opened
<1>3. [url EXCEPT !.head = "path"] \in Url \/ url.capitals
  BY <1>1 DEF Url, Heads
<1>4. Stripped(url) \in Url
  BY <1>1, <1>3 DEF Stripped, StartsWith
<1>5. ASSUME NEW v \in Url PROVE SqliteOpens(v) \in Opened
  <2>1. StartsWith(v, "file:") => [v EXCEPT !.head = "path"] \in Url
    BY DEF Url, Heads, StartsWith
  <2> QED
    BY <2>1 DEF SqliteOpens, Opened
<1> QED
  BY <1>2, <1>4, <1>5 DEF Opens

-----------------------------------------------------------------------------
(* The pool and the server.                                                *)

\* The parts of the invariant, and what follows for the counts.
LEMMA Parts ==
    ASSUME SyncInv
    PROVE  /\ Types /\ Ownership /\ Counting /\ Ends /\ Accounts /\ Origins
           /\ num \in Nat /\ pending \in Nat /\ num + pending <= MaxSize
           /\ Len(idle) \in Nat /\ MaxSize \in Nat
           /\ Open = {} => num = 0
           /\ \A c \in Open : num - 1 \in Nat
<1>1. Types /\ Ownership /\ Counting /\ Ends /\ Accounts /\ Origins /\ MaxSize \in Nat
  BY SyncPoolAssumption DEF SyncInv
<1>2. Len(idle) \in Nat
  BY <1>1 DEF Types
<1>3. IsFiniteSet(Open) /\ num = Cardinality(Open) /\ num \in Nat
  BY <1>1 DEF Counting
<1>4. Open = {} <=> num = 0
  BY <1>3, FS_EmptySet
<1> QED
  BY <1>1, <1>2, <1>3, <1>4 DEF Counting

\* A step that goes on with the building, or brings the server back.
LEMMA BuildingKeeps ==
    ASSUME SyncInv, ConnectUnknown \/ Connect \/ ConnectLazy \/ BuildReady \/ ServerUp
    PROVE  SyncInv'
<1> USE DEF ConnectUnknown, Connect, ConnectLazy, Start, BuildReady, ServerUp,
            connVars, threadVars, countVars
<1>1. Types /\ Ownership /\ Counting /\ Ends /\ Accounts /\ Origins
  BY Parts
<1>2. UNCHANGED <<url, conn, session, db, pc, held, kept, budget, result, idle, num, faults>>
  OBVIOUS
<1>3. phase' \in Phases /\ up' \in BOOLEAN
  BY <1>1 DEF Types, Phases
<1>4. Types'
  BY <1>1, <1>2, <1>3 DEF Types
<1>5. Room
  <2>1. CASE Connect \/ ConnectLazy
    <3>1. phase = "new" /\ Refill(0, 0)
      BY <2>1
    <3>2. num = 0
      BY <3>1, Parts DEF Origins
    <3> QED
      BY <1>2, <3>1, <3>2, RefillFits, Parts DEF Room
  <2>2. CASE ~(Connect \/ ConnectLazy)
    BY <1>2, <2>2, Parts DEF Room
  <2> QED
    BY <2>1, <2>2
<1>6. Stays
  BY <1>2, <1>5 DEF Stays, SameLives, SameHands
<1>7. Ownership' /\ Counting'
  BY <1>1, <1>6, EffectOwnership, EffectCounting DEF Effect
<1>8. Ends' /\ Accounts'
  BY <1>1, <1>2, NothingHappens
<1>9. Open' = Open
  BY <1>2 DEF Open
<1>10. Origins'
  BY <1>1, <1>2, <1>9 DEF Origins
<1> QED
  BY <1>4, <1>7, <1>8, <1>10 DEF SyncInv

\* A fresh connection, and none.
LEMMA FreshFacts ==
    /\ NoConnection \in ConnEnd /\ NoConnection.life = "absent"
    /\ Fits(NoConnection, NoTransaction) /\ AtRest(NoConnection)
    /\ \A o \in Opened :
         LET cn == [NoConnection EXCEPT !.life = "live", !.opened = o] IN
         cn \in ConnEnd /\ cn.life = "live" /\ cn.opened = o /\ AtRest(cn) /\ Fits(cn, NoTransaction)
<1>1. 0 \in Level /\ Refused \in Opened
  BY SyncPoolAssumption DEF Level, Opened
<1>2. NoConnection \in ConnEnd /\ NoConnection.life = "absent" /\ AtRest(NoConnection)
  BY <1>1 DEF NoConnection, ConnEnd, AtRest
<1>3. Fits(NoConnection, NoTransaction)
  BY <1>2, NoTransactionFits
<1>4. ASSUME NEW o \in Opened
      PROVE  LET cn == [NoConnection EXCEPT !.life = "live", !.opened = o] IN
             cn \in ConnEnd /\ cn.life = "live" /\ cn.opened = o /\ AtRest(cn)
  BY <1>1 DEF NoConnection, ConnEnd, AtRest
<1> QED
  BY <1>2, <1>3, <1>4, NoTransactionFits DEF AtRest

\* A pool that is not done in time is dropped.
LEMMA BuildTimeoutKeeps ==
    ASSUME SyncInv, BuildTimeout
    PROVE  SyncInv'
<1>1. Types /\ Ownership /\ Counting /\ Ends /\ Accounts /\ Origins /\ MaxSize \in Nat
  BY Parts
<1>2. /\ phase = "building" /\ phase' = "refused" /\ idle' = <<>> /\ num' = 0 /\ pending' = 0
      /\ UNCHANGED <<url, up, db, pc, held, kept, budget, result, faults>>
      /\ conn' = [c \in Conn |-> NoConnection] /\ session' = [c \in Conn |-> NoTransaction]
  BY DEF BuildTimeout, threadVars
<1>3. \A t \in Thread : pc[t] = "new" /\ held[t] \notin Conn /\ held[t] = NoConn
  BY <1>1, <1>2 DEF Origins, Ownership, Types, InHands
<1>4. \A c \in Conn : conn'[c] = NoConnection /\ session'[c] = NoTransaction
  BY <1>2
<1>5. Types'
  <2>1. conn' \in [Conn -> ConnEnd] /\ session' \in [Conn -> SessionEnd]
    BY <1>2, FreshFacts, NoTransactionFits
  <2>2. idle' \in Seq(Conn) /\ phase' \in Phases
    BY <1>2 DEF Phases
  <2> QED
    BY <1>1, <1>2, <2>1, <2>2 DEF Types
<1>6. Closes
  <2>1. Room
    BY <1>1, <1>2 DEF Room
  <2>2. \A t \in Thread : held'[t] = NoConn /\ pc'[t] \notin InHands
    BY <1>2, <1>3 DEF InHands
  <2>3. \A c \in Conn : conn'[c].life = "absent"
    BY <1>4, FreshFacts
  <2> QED
    BY <1>2, <2>1, <2>2, <2>3 DEF Closes
<1>7. Ownership' /\ Counting'
  BY <1>1, <1>6, EffectOwnership, EffectCounting DEF Effect
<1>8. Ends'
  <2>1. DOMAIN idle' = {}
    BY <1>2
  <2>2. \A c \in Conn : Fits(conn'[c], session'[c])
    BY <1>4, FreshFacts
  <2> QED
    BY <2>1, <2>2 DEF Ends
<1>9. Accounts'
  BY <1>1, <1>2, <1>3 DEF Accounts, Account, Before, Inside
<1>10. Open' = {}
  BY <1>4, FreshFacts DEF Open
<1>11. Origins'
  BY <1>2, <1>3, <1>10 DEF Origins
<1> QED
  BY <1>5, <1>7, <1>8, <1>9, <1>11 DEF SyncInv

\* A background connect succeeds.
LEMMA EstablishKeeps ==
    ASSUME NEW c \in Conn, SyncInv, Establish(c)
    PROVE  SyncInv'
<1> DEFINE cn == [NoConnection EXCEPT !.life = "live", !.opened = Reached]
<1>1. Types /\ Ownership /\ Counting /\ Ends /\ Accounts /\ Origins
  BY Parts
<1>2. /\ phase \in {"building", "ready"} /\ pending > 0 /\ conn[c].life = "absent"
      /\ Reached # Refused /\ Reached = Opens(url)
      /\ conn' = [conn EXCEPT ![c] = cn] /\ idle' = Append(idle, c)
      /\ num' = num + 1 /\ pending' = pending - 1 /\ Notify(pc)
      /\ UNCHANGED <<url, phase, up, session, db, held, kept, budget, result, faults>>
  BY DEF Establish, Reached
<1>3. Opens(url) \in Opened
  BY <1>1, <1>2, OpensOpened DEF Types
<1>4. cn \in ConnEnd /\ cn.life = "live" /\ cn.opened = Opens(url) /\ AtRest(cn)
      /\ Fits(cn, NoTransaction)
  BY <1>2, <1>3, FreshFacts
<1> HIDE DEF cn
<1>5. /\ conn' \in [Conn -> ConnEnd] /\ conn'[c] = cn
      /\ \A d \in Conn \ {c} : conn'[d] = conn[d]
  BY <1>1, <1>2, <1>4 DEF Types
<1>6. /\ pc' \in [Thread -> Places]
      /\ \A u \in Thread : pc'[u] = pc[u] \/ (pc[u] = "waiting" /\ pc'[u] = "trying")
  BY <1>1, <1>2, NotifyMoves DEF Types
<1>7. idle' \in Seq(Conn)
  BY <1>1, <1>2, AppendFacts DEF Types
<1>8. Types'
  BY <1>1, <1>2, <1>5, <1>6, <1>7 DEF Types
<1>9. Arrives(c)
  <2>1. Room
    BY <1>2, Parts DEF Room
  <2>2. SameHands
    BY <1>6 DEF SameHands, InHands
  <2> QED
    BY <1>2, <1>4, <1>5, <2>1, <2>2 DEF Arrives, OtherLives
<1>10. Ownership' /\ Counting'
  BY <1>1, <1>9, EffectOwnership, EffectCounting DEF Effect
<1>11. ~Owned(c)
  BY <1>1, <1>2 DEF Ownership
<1>12. session[c] = NoTransaction
  BY <1>1, <1>2 DEF Ends, Fits
<1>13. Ends'
  <2>1. \A d \in Conn : Fits(conn'[d], session'[d])
    BY <1>1, <1>2, <1>4, <1>5, <1>12 DEF Ends
  <2>2. ASSUME NEW i \in DOMAIN idle' PROVE AtRest(conn'[idle'[i]])
    <3>1. /\ Len(idle) \in Nat /\ DOMAIN idle = 1 .. Len(idle)
          /\ DOMAIN idle' = 1 .. (Len(idle) + 1)
          /\ \A j \in DOMAIN idle : idle'[j] = idle[j]
          /\ idle'[Len(idle) + 1] = c
      BY <1>1, <1>2, AppendFacts DEF Types
    <3>2. CASE i \in DOMAIN idle
      <4>1. idle[i] \in Conn /\ idle[i] # c /\ AtRest(conn[idle[i]])
        BY <1>1, <1>11, <3>2 DEF Types, Owned, Ends
      <4> QED
        BY <1>5, <3>1, <3>2, <4>1
    <3>3. CASE i = Len(idle) + 1
      BY <1>4, <1>5, <3>1, <3>3
    <3> QED
      BY <3>1, <3>2, <3>3
  <2> QED
    BY <2>1, <2>2 DEF Ends
<1>14. Accounts'
  <2>1. ASSUME NEW u \in Thread PROVE Account(u)'
    <3>1. held[u] # c /\ Account(u)
      BY <1>1, <1>11 DEF Owned, Accounts
    <3> QED
      BY <1>1, <1>2, <1>5, <1>6, <3>1, AccountStays
  <2> QED
    BY <2>1 DEF Accounts
<1>15. Origins'
  <2>1. Open' = Open \cup {c}
    BY <1>4, <1>5 DEF Open
  <2>2. \A d \in Open' : conn'[d].opened = Opens(url) /\ Opens(url) # Refused
    BY <1>1, <1>2, <1>4, <1>5, <2>1 DEF Origins, Open
  <2>3. phase # "ready" => \A t \in Thread : pc'[t] = "new"
    BY <1>1, <1>6 DEF Origins
  <2> QED
    BY <1>1, <1>2, <2>2, <2>3 DEF Origins
<1> QED
  BY <1>8, <1>10, <1>13, <1>14, <1>15 DEF SyncInv

\* Sessions end: their connections do not know yet.
LEMMA CutOffKeeps ==
    ASSUME NEW C \in SUBSET Conn, SyncInv, CutOff(C), \A c \in C : conn[c].life = "live",
           up' \in BOOLEAN, faults' \in 0 .. MaxFaults,
           UNCHANGED <<url, phase, db, threadVars, countVars>>
    PROVE  SyncInv'
<1>1. Types /\ Ownership /\ Counting /\ Ends /\ Accounts /\ Origins
  BY Parts
<1>2. UNCHANGED <<url, phase, db, pc, held, kept, budget, result, idle, num, pending>>
  BY DEF threadVars, countVars
<1>3. \A c \in Conn \ C : conn'[c] = conn[c] /\ session'[c] = session[c]
  BY DEF CutOff
<1>4. ASSUME NEW c \in C
      PROVE  /\ conn'[c] \in ConnEnd /\ conn'[c].life = "cut" /\ conn'[c].opened = conn[c].opened
             /\ conn'[c].depth = conn[c].depth /\ conn'[c].inError = conn[c].inError
             /\ session'[c] = NoTransaction
  <2>1. conn'[c] = [conn[c] EXCEPT !.life = "cut"] /\ session'[c] = NoTransaction
    BY DEF CutOff
  <2>2. conn[c] \in ConnEnd
    BY <1>1 DEF Types
  <2> QED
    BY <2>1, <2>2 DEF ConnEnd
<1>5. Types'
  <2>1. conn' = [c \in Conn |-> conn'[c]] /\ session' = [c \in Conn |-> session'[c]]
    BY DEF CutOff
  <2>2. \A c \in Conn : conn'[c] \in ConnEnd /\ session'[c] \in SessionEnd
    BY <1>1, <1>3, <1>4, NoTransactionFits DEF Types
  <2>3. conn' \in [Conn -> ConnEnd] /\ session' \in [Conn -> SessionEnd]
    BY <2>1, <2>2
  <2> QED
    BY <1>1, <1>2, <2>3 DEF Types
<1>6. Stays
  <2>1. SameLives
    BY <1>3, <1>4 DEF SameLives
  <2> QED
    BY <1>1, <1>2, <2>1, Parts DEF Stays, Room, SameHands
<1>7. Ownership' /\ Counting'
  BY <1>1, <1>6, EffectOwnership, EffectCounting DEF Effect
<1>8. Ends'
  <2>1. \A c \in Conn : Fits(conn'[c], session'[c])
    BY <1>1, <1>3, <1>4, NoTransactionFits DEF Ends
  <2>2. \A c \in Conn : AtRest(conn[c]) => AtRest(conn'[c])
    BY <1>3, <1>4 DEF AtRest
  <2>3. \A i \in DOMAIN idle : idle[i] \in Conn
    BY <1>1 DEF Types
  <2> QED
    BY <1>1, <1>2, <2>1, <2>2, <2>3 DEF Ends
<1>9. ASSUME NEW u \in Thread PROVE Account(u)'
  <2>1. Account(u)
    BY <1>1 DEF Accounts
  <2>2. CASE held[u] \in C
    BY <1>2, <1>4, <2>1, <2>2 DEF Account, AtRest
  <2>3. CASE held[u] \notin C
    BY <1>1, <1>2, <1>3, <2>1, <2>3, AccountStays
  <2> QED
    BY <2>2, <2>3
<1>10. Origins'
  <2>1. Open' = Open /\ \A c \in Conn : conn'[c].opened = conn[c].opened
    BY <1>3, <1>4 DEF Open
  <2> QED
    BY <1>1, <1>2, <2>1 DEF Origins, Open
<1> QED
  BY <1>5, <1>7, <1>8, <1>9, <1>10 DEF SyncInv, Accounts

LEMMA ServerKeeps ==
    ASSUME SyncInv, (\E c \in Conn : Lose(c)) \/ ServerDown
    PROVE  SyncInv'
<1>1. faults \in 0 .. MaxFaults /\ MaxFaults \in Nat /\ up \in BOOLEAN
  BY Known, Parts, SyncPoolAssumption DEF Types
<1>2. ASSUME NEW c \in Conn, Lose(c) PROVE SyncInv'
  <2>1. faults' \in 0 .. MaxFaults /\ up' \in BOOLEAN
    BY <1>1, <1>2 DEF Lose
  <2>2. \A d \in {c} : conn[d].life = "live"
    BY <1>2 DEF Lose, OnServer
  <2> QED
    BY <1>2, <2>1, <2>2, CutOffKeeps DEF Lose
<1>3. CASE ServerDown
  <2> DEFINE C == {c \in Conn : OnServer(c)}
  <2>1. faults' \in 0 .. MaxFaults /\ up' \in BOOLEAN
    <3>1. faults' \in 0 .. MaxFaults
      BY <1>1, <1>3 DEF ServerDown
    <3>2. up' \in BOOLEAN
      BY <1>3 DEF ServerDown
    <3> QED
      BY <3>1, <3>2
  <2>2. C \in SUBSET Conn /\ \A d \in C : conn[d].life = "live"
    BY DEF OnServer
  <2>3. CutOff(C) /\ UNCHANGED <<url, phase, db, threadVars, countVars>>
    BY <1>3 DEF ServerDown
  <2> HIDE DEF C
  <2> QED
    BY <2>1, <2>2, <2>3, CutOffKeeps
<1> QED
  BY <1>2, <1>3

-----------------------------------------------------------------------------
(* The checkout and the way back.                                          *)

\* A thread moves on; no connection changes hands.
LEMMA ThreadMoves ==
    ASSUME NEW t \in Thread, NEW p \in Places, SyncInv, phase = "ready",
           Goto(t, p), p \in InHands <=> pc[t] \in InHands,
           UNCHANGED <<url, phase, up, conn, session, db, held, kept, budget, idle, num, faults>>,
           result' \in [Thread -> Results], \A u \in Thread \ {t} : result'[u] = result[u],
           Room, Account(t)'
    PROVE  SyncInv'
<1>1. Types /\ Ownership /\ Counting /\ Ends /\ Accounts /\ Origins
  BY Parts
<1>2. pc' \in [Thread -> Places] /\ pc'[t] = p /\ \A u \in Thread \ {t} : pc'[u] = pc[u]
  BY GotoMoves DEF MovedTo
<1>3. Types'
  BY <1>1, <1>2 DEF Types
<1>4. Stays
  BY <1>2 DEF Stays, SameLives, SameHands
<1>5. Ownership' /\ Counting'
  BY <1>1, <1>4, EffectOwnership, EffectCounting DEF Effect
<1>6. Ends'
  BY <1>1 DEF Ends
<1>7. Accounts'
  <2>1. ASSUME NEW u \in Thread \ {t} PROVE Account(u)'
    <3>1. Account(u)
      BY <1>1 DEF Accounts
    <3> QED
      BY <1>1, <1>2, <3>1, AccountStays
  <2> QED
    BY <2>1 DEF Accounts
<1>8. Origins'
  <2>1. Open' = Open
    BY DEF Open
  <2> QED
    BY <1>1, <2>1 DEF Origins
<1> QED
  BY <1>3, <1>5, <1>6, <1>7, <1>8 DEF SyncInv

LEMMA GetKeeps ==
    ASSUME NEW t \in Thread, SyncInv, Get(t)
    PROVE  SyncInv'
<1>1. /\ phase = "ready" /\ pc[t] = "new" /\ Goto(t, "trying")
      /\ UNCHANGED <<url, phase, up, conn, session, db, held, kept, budget, result, idle, num,
                     pending, faults>>
  BY DEF Get, connVars, countVars
<1>2. Account(t)'
  <2>1. pc'[t] = "trying" /\ Account(t)
    BY <1>1, GotoMoves, Parts DEF MovedTo, Places, Accounts
  <2> QED
    BY <1>1, <2>1 DEF Account, Before, Inside
<1>3. Room
  BY <1>1, Parts DEF Room
<1> QED
  BY <1>1, <1>2, <1>3, ThreadMoves, Known DEF Places, InHands

LEMMA WaitKeeps ==
    ASSUME NEW t \in Thread, SyncInv, Wait(t)
    PROVE  SyncInv'
<1>1. /\ pc[t] = "trying" /\ Goto(t, "waiting")
      /\ pending' = IF num + pending < MaxSize THEN pending + 1 ELSE pending
      /\ UNCHANGED <<url, phase, up, conn, session, db, held, kept, budget, result, idle, num, faults>>
  BY DEF Wait, connVars
<1>2. phase = "ready"
  BY <1>1, Parts DEF Origins
<1>3. Account(t)'
  <2>1. pc'[t] = "waiting" /\ Account(t)
    BY <1>1, GotoMoves, Parts DEF MovedTo, Places, Accounts
  <2> QED
    BY <1>1, <2>1 DEF Account, Before, Inside
<1>4. Room
  BY <1>1, Parts DEF Room
<1> QED
  BY <1>1, <1>2, <1>3, <1>4, ThreadMoves, Known DEF Places, InHands

LEMMA TimeoutKeeps ==
    ASSUME NEW t \in Thread, SyncInv, Timeout(t)
    PROVE  SyncInv'
<1>1. /\ pc[t] = "waiting" /\ Goto(t, "done") /\ result' = [result EXCEPT ![t] = "refused"]
      /\ UNCHANGED <<url, phase, up, conn, session, db, held, kept, budget, idle, num, pending, faults>>
  BY DEF Timeout, connVars, countVars
<1>2. phase = "ready"
  BY <1>1, Parts DEF Origins
<1>3. Account(t)'
  <2>1. pc'[t] = "done"
    BY <1>1, GotoMoves DEF MovedTo, Places
  <2> QED
    BY <2>1 DEF Account, Before, Inside
<1>4. Room
  BY <1>1, Parts DEF Room
<1>5. result' \in [Thread -> Results] /\ \A u \in Thread \ {t} : result'[u] = result[u]
  BY <1>1, Known DEF Results
<1> QED
  BY <1>1, <1>2, <1>3, <1>4, <1>5, ThreadMoves DEF Places, InHands

LEMMA TestOkKeeps ==
    ASSUME NEW t \in Thread, SyncInv, TestOk(t)
    PROVE  SyncInv'
<1>1. /\ pc[t] = "testing" /\ Goto(t, "holding")
      /\ UNCHANGED <<url, phase, up, conn, session, db, held, kept, budget, result, idle, num,
                     pending, faults>>
  BY DEF TestOk, connVars, countVars
<1>2. phase = "ready"
  BY <1>1, Parts DEF Origins
<1>3. Account(t)'
  <2>1. pc'[t] = "holding" /\ Account(t)
    BY <1>1, GotoMoves, Parts DEF MovedTo, Places, Accounts
  <2> QED
    BY <1>1, <2>1 DEF Account, Before, Inside
<1>4. Room
  BY <1>1, Parts DEF Room
<1> QED
  BY <1>1, <1>2, <1>3, <1>4, ThreadMoves, Known DEF Places, InHands

LEMMA TakeKeeps ==
    ASSUME NEW t \in Thread, SyncInv, Take(t)
    PROVE  SyncInv'
<1> DEFINE c == Last(idle)
<1>1. /\ Types /\ Ownership /\ Counting /\ Ends /\ Accounts /\ Origins
  BY Parts
<1>2. /\ pc[t] = "trying" /\ idle # <<>> /\ Goto(t, "testing")
      /\ held' = [held EXCEPT ![t] = c] /\ idle' = Front(idle)
      /\ Refill(Len(idle) - 1, num)
      /\ UNCHANGED <<url, phase, up, conn, session, db, kept, budget, result, num, faults>>
  BY DEF Take, connVars
<1>3. /\ Len(idle) \in Nat \ {0} /\ DOMAIN idle = 1 .. Len(idle)
      /\ c = idle[Len(idle)] /\ c \in Conn
      /\ Front(idle) \in Seq(Conn) /\ DOMAIN Front(idle) = 1 .. (Len(idle) - 1)
      /\ \A i \in DOMAIN Front(idle) : Front(idle)[i] = idle[i]
  BY <1>1, <1>2, FrontFacts DEF Types
<1> HIDE DEF c
<1>4. pc' \in [Thread -> Places] /\ pc'[t] = "testing" /\ \A u \in Thread \ {t} : pc'[u] = pc[u]
  BY <1>2, GotoMoves DEF MovedTo, Places
<1>5. /\ held' \in [Thread -> Conn \cup {NoConn}] /\ held'[t] = c
      /\ \A u \in Thread \ {t} : held'[u] = held[u]
  BY <1>1, <1>2, <1>3 DEF Types
<1>6. Types'
  BY <1>1, <1>2, <1>3, <1>4, <1>5 DEF Types
<1>7. Takes(t)
  <2>1. Room
    BY <1>2, <1>3, RefillFits, Parts DEF Room
  <2> QED
    BY <1>2, <1>4, <1>5, <2>1 DEF Takes, Holds, OtherHands, SameLives, InHands, c
<1>8. Ownership' /\ Counting'
  BY <1>1, <1>7, EffectOwnership, EffectCounting DEF Effect
<1>9. Ends'
  BY <1>1, <1>2, <1>3 DEF Ends
<1>10. Accounts'
  <2>1. ASSUME NEW u \in Thread \ {t} PROVE Account(u)'
    <3>1. Account(u)
      BY <1>1 DEF Accounts
    <3> QED
      BY <1>1, <1>2, <1>4, <1>5, <3>1, AccountStays
  <2>2. AtRest(conn[c]) /\ Account(t)
    BY <1>1, <1>3 DEF Ends, Accounts
  <2>3. Account(t)'
    BY <1>2, <1>4, <1>5, <2>2 DEF Account, Before, Inside
  <2> QED
    BY <2>1, <2>3 DEF Accounts
<1>11. Origins'
  <2>1. Open' = Open /\ phase = "ready"
    BY <1>1, <1>2 DEF Open, Origins
  <2> QED
    BY <1>1, <1>2, <2>1 DEF Origins
<1> QED
  BY <1>6, <1>8, <1>9, <1>10, <1>11 DEF SyncInv

\* A connection is closed, whatever its state; its thread goes on or is done.
LEMMA DropKeeps ==
    ASSUME NEW t \in Thread, SyncInv, Drop(t),
           \/ pc[t] = "testing" /\ Goto(t, "trying")
           \/ pc[t] = "leaving" /\ Goto(t, "done"),
           UNCHANGED <<url, phase, up, db, kept, budget, result, idle, faults>>
    PROVE  SyncInv'
<1> DEFINE h == held[t]
<1>1. Types /\ Ownership /\ Counting /\ Ends /\ Accounts /\ Origins
  BY Parts
<1>2. h \in Conn /\ h \in Open /\ num - 1 \in Nat
  <2>1. h \in Conn
    BY <1>1 DEF Ownership, InHands
  <2>2. h \in Open
    BY <1>1, <2>1 DEF Ownership, Owned, Open
  <2> QED
    BY <2>1, <2>2, Parts
<1>3. /\ conn' \in [Conn -> ConnEnd] /\ session' \in [Conn -> SessionEnd]
      /\ conn'[h] = NoConnection /\ session'[h] = NoTransaction
      /\ \A d \in Conn \ {h} : conn'[d] = conn[d] /\ session'[d] = session[d]
  <2>1. conn' = [conn EXCEPT ![h] = NoConnection] /\ session' = [session EXCEPT ![h] = NoTransaction]
    BY DEF Drop
  <2> QED
    BY <1>1, <1>2, <2>1, FreshFacts, NoTransactionFits DEF Types
<1>4. /\ held' \in [Thread -> Conn \cup {NoConn}] /\ held'[t] = NoConn
      /\ \A u \in Thread \ {t} : held'[u] = held[u]
  BY <1>1 DEF Drop, Types
<1>5. /\ pc' \in [Thread -> Places] /\ \A u \in Thread \ {t} : pc'[u] = pc[u]
      /\ \/ pc[t] = "testing" /\ pc'[t] = "trying"
         \/ pc[t] = "leaving" /\ pc'[t] = "done"
  BY GotoMoves DEF MovedTo, Places
<1>6. Types'
  BY <1>1, <1>3, <1>4, <1>5 DEF Types
<1>7. Discards(t)
  <2>1. num' = num - 1 /\ Refill(Len(idle), num - 1)
    BY DEF Drop
  <2>2. Room
    BY <1>2, <2>1, RefillFits, Parts DEF Room
  <2> QED
    BY <1>3, <1>4, <1>5, <2>1, <2>2, FreshFacts
       DEF Discards, Holds, OtherHands, OtherLives, InHands
<1>8. Ownership' /\ Counting'
  BY <1>1, <1>7, EffectOwnership, EffectCounting DEF Effect
<1>9. Ends'
  <2>1. \A d \in Conn : Fits(conn'[d], session'[d])
    BY <1>1, <1>3, FreshFacts DEF Ends
  <2>2. \A i \in DOMAIN idle : idle[i] \in Conn /\ idle[i] # h
    BY <1>1 DEF Types, Ownership
  <2> QED
    BY <1>1, <1>3, <2>1, <2>2 DEF Ends
<1>10. Accounts'
  <2>1. ASSUME NEW u \in Thread \ {t} PROVE Account(u)'
    <3>1. held[u] # h /\ Account(u)
      BY <1>1, <1>2, OthersHold DEF Accounts
    <3> QED
      BY <1>1, <1>3, <1>4, <1>5, <3>1, AccountStays
  <2>2. Account(t)
    BY <1>1 DEF Accounts
  <2>3. Account(t)'
    BY <1>5, <2>2 DEF Account, Before, Inside
  <2> QED
    BY <2>1, <2>3 DEF Accounts
<1>11. Origins'
  <2>1. Open' = Open \ {h} /\ phase = "ready"
    <3>1. Open' = Open \ {h}
      <4>1. \A d \in Conn : conn'[d].life # "absent" <=> d # h /\ conn[d].life # "absent"
        BY <1>3, FreshFacts
      <4> HIDE DEF h
      <4> QED
        BY <4>1 DEF Open
    <3>2. phase = "ready"
      BY <1>1, <1>5 DEF Origins
    <3> QED
      BY <3>1, <3>2
  <2> QED
    BY <1>1, <1>3, <2>1 DEF Origins, Open
<1> QED
  BY <1>6, <1>8, <1>9, <1>10, <1>11 DEF SyncInv

LEMMA PutBackKeeps ==
    ASSUME NEW t \in Thread, SyncInv, PutBack(t)
    PROVE  SyncInv'
<1> DEFINE h == held[t]
           places == [pc EXCEPT ![t] = "done"]
<1>1. Types /\ Ownership /\ Counting /\ Ends /\ Accounts /\ Origins
  BY Parts
<1>2. /\ pc[t] = "leaving" /\ ~HasBroken(h) /\ idle' = Append(idle, h)
      /\ held' = [held EXCEPT ![t] = NoConn] /\ Notify(places)
      /\ UNCHANGED <<url, phase, up, conn, session, db, kept, budget, result, num, pending, faults>>
  BY DEF PutBack, connVars
<1>3. h \in Conn /\ conn[h] \in ConnEnd
  BY <1>1, <1>2 DEF Ownership, InHands, Types
<1>4. AtRest(conn[h])
  BY <1>2, <1>3, SyncPoolAssumption DEF HasBroken, AtRest, ConnEnd, Level
<1>5. /\ held' \in [Thread -> Conn \cup {NoConn}] /\ held'[t] = NoConn
      /\ \A u \in Thread \ {t} : held'[u] = held[u]
  BY <1>1, <1>2 DEF Types
<1>6. places \in [Thread -> Places] /\ places[t] = "done"
      /\ \A u \in Thread \ {t} : places[u] = pc[u]
  BY <1>1 DEF Types, Places
<1> HIDE DEF places
<1>7. /\ pc' \in [Thread -> Places] /\ pc'[t] = "done"
      /\ \A u \in Thread \ {t} : pc'[u] = pc[u] \/ (pc[u] = "waiting" /\ pc'[u] = "trying")
  BY <1>2, <1>6, NotifyMoves
<1>8. idle' \in Seq(Conn)
  BY <1>1, <1>2, <1>3, AppendFacts DEF Types
<1>9. Types'
  BY <1>1, <1>2, <1>5, <1>7, <1>8 DEF Types
<1>10. Returns(t)
  <2>1. Room
    BY <1>2, Parts DEF Room
  <2>2. OtherHands(t)
    BY <1>7 DEF OtherHands, InHands
  <2> QED
    BY <1>2, <1>5, <1>7, <2>1, <2>2 DEF Returns, Holds, SameLives, InHands
<1>11. Ownership' /\ Counting'
  BY <1>1, <1>10, EffectOwnership, EffectCounting DEF Effect
<1>12. Ends'
  <2>1. /\ Len(idle) \in Nat /\ DOMAIN idle = 1 .. Len(idle)
        /\ DOMAIN idle' = 1 .. (Len(idle) + 1)
        /\ \A j \in DOMAIN idle : idle'[j] = idle[j]
        /\ idle'[Len(idle) + 1] = h
    BY <1>1, <1>2, <1>3, AppendFacts DEF Types
  <2>2. \A i \in DOMAIN idle' : i \in DOMAIN idle \/ i = Len(idle) + 1
    BY <2>1
  <2> QED
    BY <1>1, <1>2, <1>4, <2>1, <2>2 DEF Ends
<1>13. Accounts'
  <2>1. ASSUME NEW u \in Thread \ {t} PROVE Account(u)'
    <3>1. Account(u)
      BY <1>1 DEF Accounts
    <3> QED
      BY <1>1, <1>2, <1>5, <1>7, <3>1, AccountStays
  <2>2. Account(t)'
    BY <1>7 DEF Account, Before, Inside
  <2> QED
    BY <2>1, <2>2 DEF Accounts
<1>14. Origins'
  <2>1. Open' = Open /\ phase = "ready"
    BY <1>1, <1>2 DEF Open, Origins
  <2> QED
    BY <1>1, <1>2, <2>1 DEF Origins
<1> QED
  BY <1>9, <1>11, <1>12, <1>13, <1>14 DEF SyncInv

-----------------------------------------------------------------------------
(* The invariant.                                                          *)

LEMMA InitSyncInv == Init => SyncInv
<1> SUFFICES ASSUME Init PROVE SyncInv
  OBVIOUS
<1>1. /\ \A c \in Conn : conn[c] = NoConnection /\ session[c] = NoTransaction
      /\ \A t \in Thread : /\ pc[t] = "new" /\ held[t] = NoConn /\ kept[t] = {}
                           /\ result[t] = "none"
      /\ db = {} /\ idle = <<>> /\ num = 0 /\ pending = 0 /\ phase = "new"
  BY DEF Init
<1>2. Types
  <2>1. conn \in [Conn -> ConnEnd] /\ session \in [Conn -> SessionEnd]
    BY FreshFacts, NoTransactionFits DEF Init
  <2>2. idle \in Seq(Conn)
    BY <1>1
  <2>3. /\ budget \in [Thread -> 0 .. MaxStmts] /\ faults \in 0 .. MaxFaults
        /\ kept \in [Thread -> SUBSET Level]
    BY SyncPoolAssumption DEF Init
  <2> QED
    BY <2>1, <2>2, <2>3 DEF Types, Init, Phases, Places, Results
<1>3. NoConn \notin Conn /\ DOMAIN idle = {} /\ MaxSize \in Nat
  BY <1>1, SyncPoolAssumption
<1>4. Ownership
  BY <1>1, <1>3, FreshFacts DEF Ownership, Owned, InHands
<1>5. Open = {}
  BY <1>1, FreshFacts DEF Open
<1>6. Counting
  BY <1>1, <1>3, <1>5, FS_EmptySet DEF Counting
<1>7. Ends
  BY <1>1, <1>3, FreshFacts DEF Ends
<1>8. Accounts /\ Origins
  BY <1>1, <1>5 DEF Accounts, Account, Origins, Before, Inside
<1> QED
  BY <1>2, <1>4, <1>6, <1>7, <1>8 DEF SyncInv

\* A step of a thread.
LEMMA ThreadKeeps ==
    ASSUME NEW t \in Thread, SyncInv,
           Checkout(t) \/ Work(t) \/ Timeout(t) \/ Panic(t) \/ AnswerLost(t)
    PROVE  SyncInv'
<1>1. CASE Checkout(t)
  <2>1. CASE TestFails(t)
    BY <2>1, DropKeeps DEF TestFails
  <2> QED
    BY <1>1, <2>1, GetKeeps, TakeKeeps, WaitKeeps, TestOkKeeps DEF Checkout
<1>2. CASE Work(t)
  <2>1. CASE Execute(t)
    BY <2>1, ExecuteAloneKeeps, ExecuteInsideKeeps DEF Execute, AtWork
  <2>2. CASE PutBackBroken(t)
    BY <2>2, DropKeeps DEF PutBackBroken
  <2> QED
    BY <1>2, <2>1, <2>2, BeginKeeps, ExecuteFailsKeeps, UnwindKeeps, StopsKeeps, CommitKeeps,
       CommitRefusedKeeps, ReleaseKeeps, RollbackKeeps, RollbackToKeeps, BrokenKeeps,
       PutBackKeeps DEF Work
<1> QED
  BY <1>1, <1>2, TimeoutKeeps, StopsKeeps, AnswerLostKeeps

LEMMA StepKeeps ==
    ASSUME SyncInv, [Next]_vars
    PROVE  SyncInv'
<1>1. CASE UNCHANGED vars
  BY <1>1 DEF vars, SyncInv, Types, Ownership, Owned, Counting, Open, Ends, Accounts, Account,
              Origins
<1>2. CASE Building \/ ServerUp
  BY <1>2, BuildingKeeps DEF Building
<1>3. CASE BuildTimeout
  BY <1>3, BuildTimeoutKeeps
<1>4. CASE \E c \in Conn : Establish(c) \/ Lose(c)
  BY <1>4, EstablishKeeps, ServerKeeps
<1>5. CASE ServerDown
  BY <1>5, ServerKeeps
<1>6. CASE \E t \in Thread : Checkout(t) \/ Work(t) \/ Timeout(t) \/ Panic(t) \/ AnswerLost(t)
  BY <1>6, ThreadKeeps
<1> QED
  BY <1>1, <1>2, <1>3, <1>4, <1>5, <1>6 DEF Next, Rest

\* Through outages, lost sessions, refused commits and panics, every connection
\* has one owner and is counted, its two ends are in order, and each thread's
\* account of its work is right: pool.rs and pg.rs under any schedule.
THEOREM SyncInvHolds == Spec => []SyncInv
<1>1. SyncInv /\ [Next]_vars => SyncInv'
  BY StepKeeps
<1> QED
  BY <1>1, InitSyncInv, PTL DEF Spec

\* Every variable stays in its type; the counts stay within max_size.
THEOREM SyncTypesHold == Spec => []TypeOK
<1>1. SyncInv => TypeOK
  <2> SUFFICES ASSUME SyncInv PROVE TypeOK
    OBVIOUS
  <2>1. num \in 0 .. MaxSize /\ pending \in 0 .. MaxSize
    BY Parts
  <2> QED
    BY <2>1, Parts DEF Types, TypeOK, ConnEnd, SessionEnd
<1> QED
  BY <1>1, SyncInvHolds, PTL

\* Whoever starts to work finds its connection outside any transaction: what
\* has_broken passes on return stays so until the next user's first statement.
THEOREM AlwaysStartsClean == Spec => []StartsClean
<1>1. SyncInv => StartsClean
  <2> SUFFICES ASSUME SyncInv, NEW t \in Thread, pc[t] = "holding"
               PROVE  /\ conn[held[t]].depth = 0 /\ ~conn[held[t]].inError
                      /\ session[held[t]] = NoTransaction
    BY DEF StartsClean
  <2>1. Fits(conn[held[t]], session[held[t]]) /\ AtRest(conn[held[t]])
    BY AtWorkFacts
  <2> QED
    BY <2>1 DEF Fits, AtRest
<1> QED
  BY <1>1, SyncInvHolds, PTL

\* A connection stands in one place: once among the idle or in one thread's hands.
LEMMA OnePlace ==
    ASSUME SyncInv, NEW c \in Conn
    PROVE  Cardinality({i \in DOMAIN idle : idle[i] = c})
             + Cardinality({t \in Thread : held[t] = c}) = IF c \in Open THEN 1 ELSE 0
<1> DEFINE I == {i \in DOMAIN idle : idle[i] = c}
           H == {t \in Thread : held[t] = c}
<1>1. Ownership /\ (c \in Open <=> Owned(c))
  BY Parts DEF Ownership, Open
<1>2. \A i, j \in I : i = j
  BY <1>1 DEF Ownership
<1>3. \A t, u \in H : t = u
  BY <1>1 DEF Ownership
<1>4. I = {} \/ H = {}
  BY <1>1 DEF Ownership
<1>5. Cardinality({}) = 0 /\ \A x : Cardinality({x}) = 1
  BY FS_EmptySet, FS_Singleton
<1>6. Owned(c) <=> I # {} \/ H # {}
  BY DEF Owned
<1>7. ASSUME I # {} PROVE Cardinality(I) = 1
  <2>1. PICK i \in I : TRUE
    BY <1>7
  <2>2. I = {i}
    BY <1>2, <2>1
  <2> QED
    BY <1>5, <2>2
<1>8. ASSUME H # {} PROVE Cardinality(H) = 1
  <2>1. PICK t \in H : TRUE
    BY <1>8
  <2>2. H = {t}
    BY <1>3, <2>1
  <2> QED
    BY <1>5, <2>2
<1>9. (I = {} => Cardinality(I) = 0) /\ (H = {} => Cardinality(H) = 0)
  BY <1>5
<1>10. CASE I # {}
  <2>1. H = {} /\ c \in Open
    BY <1>1, <1>4, <1>6, <1>10
  <2> QED
    BY <1>7, <1>9, <1>10, <2>1
<1>11. CASE I = {}
  <2>1. CASE H # {}
    <3>1. c \in Open
      BY <1>1, <1>6, <2>1
    <3> QED
      BY <1>8, <1>9, <1>11, <2>1, <3>1
  <2>2. CASE H = {}
    <3>1. c \notin Open
      BY <1>1, <1>6, <1>11, <2>2
    <3> QED
      BY <1>9, <1>11, <2>2, <3>1
  <2> QED
    BY <2>1, <2>2
<1> QED
  BY <1>10, <1>11

\* r2d2's counts are those of the connections there are, whatever becomes of
\* them: it neither opens more than max_size nor runs dry.
THEOREM CountsAlwaysMatch == Spec => []CountsMatch
<1>1. SyncInv => CountsMatch
  <2> SUFFICES ASSUME SyncInv PROVE CountsMatch
    OBVIOUS
  <2>1. num = Cardinality(Open) /\ num + pending <= MaxSize
    BY Parts DEF Counting
  <2> QED
    BY <2>1, OnePlace DEF CountsMatch, Open
<1> QED
  BY <1>1, SyncInvHolds, PTL

-----------------------------------------------------------------------------
(* URLs.                                                                   *)

\* A URL written without capitals or blanks is its head.
LEMMA NotLoose ==
    ASSUME NEW u \in Url, ~Loose(u)
    PROVE  u = Plain(u.head)
<1>1. u \in [head : Heads, capitals : BOOLEAN, blanks : {"none", "before", "after"}]
  BY DEF Url
<1>2. u.capitals \in BOOLEAN /\ ~u.capitals /\ u.blanks = "none"
  BY <1>1 DEF Loose
<1>3. u.capitals = FALSE
  BY <1>2
<1> QED
  BY <1>1, <1>2, <1>3 DEF Plain

\* What detection makes of a head.
LEMMA Detected ==
    ASSUME NEW u \in Url
    PROVE  DetectBackend(u) = IF u.head \in PgHeads THEN "pg"
                              ELSE IF u.head = "other://" THEN "unknown" ELSE "sqlite"
<1>1. /\ Lowered(u).head = u.head /\ ~Lowered(u).capitals /\ Lowered(u).blanks = "none"
      /\ u.head \in Heads
  BY DEF Lowered, Plain, Url
<1>2. \A h : StartsWith(Lowered(u), h) <=> u.head = h
  BY <1>1 DEF StartsWith
<1>3. Equals(Lowered(u), ":memory:") <=> u.head = ":memory:"
  BY <1>1 DEF Equals, Lowered, Plain
<1> QED
  BY <1>1, <1>2, <1>3 DEF DetectBackend, Heads, PgHeads

\* What is opened, if anything is, is what the URL names, but for files whose
\* name was written with capitals or blanks.
LEMMA OpensNamed ==
    ASSUME NEW u \in Url, DetectBackend(u) # "unknown", Opens(u) # Refused
    PROVE  /\ Opens(u) = AsyncOpens(u)
           /\ \/ Opens(u) = Named(u)
              \/ (Loose(u) /\ DetectBackend(u) = "sqlite" /\ Opens(u).kind = "file")
<1>1. DetectBackend(u) \in {"pg", "sqlite"}
  BY Detected
<1>2. Opens(u) = AsyncOpens(u)
  BY <1>1 DEF Opens, AsyncOpens
<1>3. CASE DetectBackend(u) = "pg"
  <2>1. Opens(u) = PgOpens(u)
    BY <1>3, Zenon DEF Opens
  <2>3. Named(u) = Server
    BY <1>3, Detected DEF Named, PgHeads
  <2>2. PgOpens(u) \in {Server, Refused}
    BY DEF PgOpens
  <2> QED
    BY <1>2, <2>1, <2>2, <2>3
<1>4. CASE DetectBackend(u) = "sqlite"
  <2>1. u.head \in {"sqlite://", "file:", ":memory:", "path"}
    BY <1>4, Detected DEF Url, Heads
  <2>2. Opens(u) = SqliteOpens(Stripped(u)) /\ u.head \notin PgHeads
    BY <1>4, <2>1 DEF Opens, PgHeads
  <2>3. CASE Loose(u)
    <3>1. CASE Equals(Stripped(u), ":memory:")
      <4>1. Stripped(u).head = ":memory:"
        BY <3>1 DEF Equals, Plain
      <4>2. Stripped(u) # u => Stripped(u).head = "path"
        BY DEF Stripped, Url
      <4>3. u.head = ":memory:"
        BY <4>1, <4>2
      <4>4. Opens(u) = Memory
        BY <2>2, <3>1, <4>1 DEF SqliteOpens, StartsWith
      <4>5. Named(u) = Memory
        BY <1>4, <4>3 DEF Named
      <4> QED
        BY <1>2, <4>4, <4>5
    <3>2. CASE ~Equals(Stripped(u), ":memory:")
      <4>1. Opens(u).kind = "file"
        BY <2>2, <3>2 DEF SqliteOpens, File
      <4> QED
        BY <1>2, <1>4, <2>3, <4>1
    <3> QED
      BY <3>1, <3>2
  <2>4. CASE ~Loose(u)
    <3>1. u = Plain(u.head)
      BY <2>4, NotLoose
    <3>2. [u EXCEPT !.head = "path"] = Plain("path")
      <4> DEFINE w == [u EXCEPT !.head = "path"]
      <4>1. w \in Url /\ w.head = "path" /\ ~Loose(w)
        BY <2>4 DEF Url, Heads, Loose
      <4> HIDE DEF w
      <4>2. w = Plain("path")
        BY <4>1, NotLoose
      <4> QED
        BY <4>2 DEF w
    <3>3. \A h, g : /\ StartsWith(Plain(h), g) <=> h = g
                    /\ Equals(Plain(h), g) <=> h = g
      BY DEF StartsWith, Equals, Plain
    <3>4. Stripped(u) = IF u.head = "sqlite://" THEN Plain("path") ELSE u
      BY <3>1, <3>2, <3>3 DEF Stripped
    <3>5. Opens(u) = IF u.head = ":memory:" THEN Memory ELSE File(Plain("path"))
      <4>1. CASE u.head = "sqlite://"
        BY <2>2, <3>3, <3>4, <4>1 DEF SqliteOpens
      <4>2. CASE u.head # "sqlite://"
        <5>1. Opens(u) = SqliteOpens(u)
          BY <2>2, <3>4, <4>2
        <5>2. \A g : (StartsWith(u, g) <=> u.head = g) /\ (Equals(u, g) <=> u.head = g)
          BY <3>1, <3>3
        <5>3. u.head = "path" => u = Plain("path")
          BY <3>1
        <5> QED
          BY <2>1, <3>2, <4>2, <5>1, <5>2, <5>3 DEF SqliteOpens
      <4> QED
        BY <4>1, <4>2
    <3> QED
      BY <1>2, <1>4, <2>1, <3>5 DEF Named
  <2> QED
    BY <2>3, <2>4
<1> QED
  BY <1>1, <1>3, <1>4

\* Every connection of a pool, opened at once or after any number of retries,
\* is on the database the URL names, and on the one the async pool is on.
THEOREM AlwaysOpensWhatItNames == Spec => []OpensWhatItNames
<1>1. SyncInv => OpensWhatItNames
  <2> SUFFICES ASSUME SyncInv, NEW c \in Conn, c \in Open
               PROVE  /\ conn[c].opened = AsyncOpens(url)
                      /\ \/ conn[c].opened = Named(url)
                         \/ (Loose(url) /\ DetectBackend(url) = "sqlite"
                               /\ conn[c].opened.kind = "file")
    BY DEF OpensWhatItNames, Open
  <2>1. conn[c].opened = Opens(url) /\ Opens(url) # Refused /\ DetectBackend(url) # "unknown"
    BY Parts DEF Origins, Types, Phases
  <2>2. url \in Url
    BY Parts, SyncPoolAssumption DEF Types
  <2> QED
    BY <2>1, <2>2, OpensNamed
<1> QED
  BY <1>1, SyncInvHolds, PTL

-----------------------------------------------------------------------------
(* The promise of Outcomes.                                                *)

\* What the callers know, as Outcomes has it.
Callers == [t \in Thread |-> ToldCaller(t)]

\* A step that concerns the outcome of t only, and that its caller may be told.
Outcome(t) ==
    /\ result[t] = "none" /\ t \notin db
    /\ \A u \in Thread \ {t} : result'[u] = result[u] /\ kept'[u] = kept[u]
    /\ db' \in {db, db \cup {t}}
    /\ \/ result'[t] = "none" /\ db' = db
       \/ result'[t] = "ok" /\ (kept'[t] # {} <=> t \in db')
       \/ result'[t] = "unknown"
       \/ result'[t] \in {"failed", "refused", "panicked"} /\ t \notin db'

\* A step that concerns nobody's outcome.
NoOutcome == UNCHANGED <<db, result, kept>>

LEMMA OutcomeIsPromised ==
    ASSUME NEW t \in Thread, Outcome(t)
    PROVE  [Promise!Next]_<<db, Callers>>
<1>1. ToldCaller(t) = "pending"
  BY DEF ToldCaller, Outcome
<1>2. \A u \in Thread \ {t} : ToldCaller(u)' = ToldCaller(u)
  BY DEF ToldCaller, Outcome
<1>3. Callers = [u \in Thread |-> ToldCaller(u)] /\ Callers' = [u \in Thread |-> ToldCaller(u)']
  BY DEF Callers
<1>4. Callers' = [Callers EXCEPT ![t] = ToldCaller(t)']
  BY <1>2, <1>3
<1>5. CASE result'[t] = "none" /\ db' = db
  <2>1. ToldCaller(t)' = "pending"
    BY <1>5 DEF ToldCaller
  <2>2. Callers' = Callers
    BY <1>1, <1>3, <1>4, <2>1
  <2> QED
    BY <1>5, <2>2
<1>6. CASE ~(result'[t] = "none" /\ db' = db)
  <2> DEFINE r == ToldCaller(t)'
  <2>1. r \in {"done", "nothing", "unknown"}
    BY <1>6 DEF Outcome, ToldCaller
  <2>2. (r = "done" => t \in db') /\ (r = "nothing" => t \notin db')
    BY <1>6 DEF Outcome, ToldCaller
  <2> HIDE DEF r
  <2>3. Callers[t] = "pending"
    BY <1>1, <1>3
  <2>4. db' \in {db, db \cup {t}}
    BY DEF Outcome
  <2>5. Callers' = [Callers EXCEPT ![t] = r]
    BY <1>4 DEF r
  <2>6. Promise!Tell(t, r)
    BY <2>2, <2>3, <2>4, <2>5 DEF Promise!Tell, Callers
  <2>7. r \in Promise!Told \ {"pending"}
    BY <2>1 DEF Promise!Told
  <2> QED
    BY <2>6, <2>7 DEF Promise!Next
<1> QED
  BY <1>5, <1>6

LEMMA NoOutcomeIsStutter ==
    ASSUME NoOutcome
    PROVE  UNCHANGED <<db, Callers>>
<1>1. \A u \in Thread : ToldCaller(u)' = ToldCaller(u)
  BY DEF ToldCaller, NoOutcome
<1> QED
  BY <1>1 DEF Callers, NoOutcome

\* A thread at work has told its caller nothing and made nothing durable.
LEMMA Unsettled ==
    ASSUME NEW t \in Thread, SyncInv, pc[t] \in Before \cup Inside
    PROVE  result[t] = "none" /\ t \notin db /\ (pc[t] \in Before => kept[t] = {})
BY Parts DEF Accounts, Account

\* The end of t's work, and what its caller is told of it.
LEMMA Settles ==
    ASSUME NEW t \in Thread, NEW r \in Results \ {"none"}, SyncInv, Finish(t, r),
           pc[t] \in Inside \cup {"holding"},
           \A u \in Thread \ {t} : kept'[u] = kept[u],
           db' \in {db, db \cup {t}},
           r = "ok" => (kept'[t] # {} <=> t \in db'),
           r \in {"failed", "refused", "panicked"} => db' = db
    PROVE  Outcome(t)
<1>1. result'[t] = r /\ \A u \in Thread \ {t} : result'[u] = result[u]
  BY FinishMoves
<1>2. result[t] = "none" /\ t \notin db
  BY Unsettled DEF Before
<1> QED
  BY <1>1, <1>2 DEF Outcome, Results

LEMMA WorkOutcome ==
    ASSUME NEW t \in Thread, SyncInv, Work(t) \/ Panic(t) \/ AnswerLost(t)
    PROVE  Outcome(t) \/ NoOutcome
<1>1. CASE Begin(t) \/ Unwind(t) \/ PutBack(t) \/ PutBackBroken(t)
  BY <1>1 DEF Begin, Unwind, PutBack, PutBackBroken, Drop, NoOutcome
<1>2. CASE Execute(t)
  <2>1. pc[t] \in Inside \cup {"holding"}
    BY <1>2 DEF Execute, AtWork, Inside
  <2>2. /\ kept \in [Thread -> SUBSET Level]
        /\ kept' = [kept EXCEPT ![t] = @ \cup {Status(t)}]
    BY <1>2, Known DEF Execute
  <2>3. kept'[t] # {} /\ \A u \in Thread \ {t} : kept'[u] = kept[u]
    BY <2>2
  <2>4. CASE pc[t] = "holding"
    <3>1. session[held[t]].depth = 0
      BY <2>4, AtWorkFacts, <1>2 DEF AtRest, Fits, Execute, Alive
    <3>2. db' = db \cup {t} /\ Finish(t, "ok")
      BY <1>2, <2>4, <3>1 DEF Execute
    <3> QED
      BY <2>1, <2>3, <3>2, Settles DEF Results
  <2>5. CASE pc[t] # "holding"
    <3>1. session[held[t]].depth # 0
      BY <1>2, <2>1, <2>5, AtWorkFacts DEF Fits, Execute, Alive, SessionEnd, ConnEnd, Level
    <3>2. db' = db /\ result' = result
      BY <1>2, <2>5, <3>1 DEF Execute
    <3>3. result[t] = "none" /\ t \notin db
      BY <2>1, Unsettled DEF Before
    <3> QED
      BY <2>3, <3>2, <3>3 DEF Outcome
  <2> QED
    BY <2>4, <2>5
<1>3. CASE ExecuteFails(t)
  <2>1. CASE pc[t] = "holding"
    BY <1>3, <2>1, Settles DEF ExecuteFails, Results
  <2>2. CASE pc[t] # "holding"
    BY <1>3, <2>2 DEF ExecuteFails, NoOutcome
  <2> QED
    BY <2>1, <2>2
<1>4. CASE Leave(t)
  <2>1. t \notin db /\ kept[t] = {}
    BY <1>4, Unsettled DEF Leave, Before
  <2> QED
    BY <1>4, <2>1, Settles DEF Leave, Results
<1>5. CASE Commit(t)
  <2>1. pc[t] \in Inside /\ Alive(t) /\ Finish(t, "ok") /\ db' = Committed(t) /\ kept' = kept
    BY <1>5 DEF Commit, Inside
  <2>2. Committed(t) = IF kept[t] = {} THEN db ELSE db \cup {t}
    BY <2>1, CommittedIsOwn
  <2>3. t \notin db
    BY <2>1, Unsettled
  <2> QED
    BY <2>1, <2>2, <2>3, Settles DEF Results
<1>6. CASE CommitRefused(t)
  BY <1>6, Settles DEF CommitRefused, Results, Inside
<1>7. CASE Release(t) \/ RollbackTo(t)
  <2>1. pc[t] \in Inside /\ db' = db /\ result' = result
    BY <1>7 DEF Release, RollbackTo, Inside
  <2>2. \A u \in Thread \ {t} : kept'[u] = kept[u]
    BY <1>7, Known DEF Release, RollbackTo
  <2>3. result[t] = "none" /\ t \notin db
    BY <2>1, Unsettled
  <2> QED
    BY <2>1, <2>2, <2>3 DEF Outcome
<1>8. CASE Rollback(t)
  <2>1. \A u \in Thread \ {t} : kept'[u] = kept[u]
    BY <1>8, Known DEF Rollback
  <2> QED
    BY <1>8, <2>1, Settles DEF Rollback, Results, Inside
<1>9. CASE Broken(t)
  BY <1>9, Settles DEF Broken, AtWork, Results, Inside
<1>10. CASE Panic(t)
  BY <1>10, Settles DEF Panic, AtWork, Results, Inside
<1>11. CASE AnswerLost(t)
  <2>1. Finish(t, "unknown") /\ kept' = kept /\ pc[t] \in Inside \cup {"holding"}
    BY <1>11 DEF AnswerLost, AtWork, Inside
  <2>2. db' \in {db, db \cup {t}}
    <3>1. CASE pc[t] = "body" /\ db' = Committed(t)
      <4>1. Alive(t) /\ pc[t] \in Inside
        BY <1>11, <3>1 DEF AnswerLost, OnServer, Alive, Inside
      <4> QED
        BY <3>1, <4>1, CommittedIsOwn
    <3> QED
      BY <1>11, <3>1 DEF AnswerLost
  <2> QED
    BY <2>1, <2>2, Settles DEF Results
<1> QED
  BY <1>1, <1>2, <1>3, <1>4, <1>5, <1>6, <1>7, <1>8, <1>9, <1>10, <1>11 DEF Work

LEMMA StepIsPromised ==
    ASSUME SyncInv, [Next]_vars
    PROVE  [Promise!Next]_<<db, Callers>>
<1>1. CASE \E t \in Thread : Work(t) \/ Panic(t) \/ AnswerLost(t)
  BY <1>1, WorkOutcome, OutcomeIsPromised, NoOutcomeIsStutter
<1>2. CASE \E t \in Thread : Timeout(t)
  <2>1. PICK t \in Thread : Timeout(t)
    BY <1>2
  <2>2. /\ pc[t] \in Before /\ result' = [result EXCEPT ![t] = "refused"]
        /\ UNCHANGED <<db, kept>>
    BY <2>1 DEF Timeout, Before
  <2>3. result[t] = "none" /\ t \notin db
    BY <2>2, Unsettled
  <2>4. result'[t] = "refused" /\ \A u \in Thread \ {t} : result'[u] = result[u]
    BY <2>2, Known
  <2>5. Outcome(t)
    BY <2>2, <2>3, <2>4 DEF Outcome
  <2> QED
    BY <2>5, OutcomeIsPromised
<1>3. CASE \E t \in Thread : Checkout(t)
  <2>1. NoOutcome
    BY <1>3 DEF Checkout, Get, Take, Wait, TestOk, TestFails, NoOutcome
  <2> QED
    BY <2>1, NoOutcomeIsStutter
<1>4. CASE Building \/ BuildTimeout
  <2>1. NoOutcome
    BY <1>4 DEF Building, BuildTimeout, ConnectUnknown, Connect, ConnectLazy, Start, BuildReady,
                threadVars, NoOutcome
  <2> QED
    BY <2>1, NoOutcomeIsStutter
<1>5. CASE ServerDown \/ ServerUp \/ \E c \in Conn : Establish(c) \/ Lose(c)
  <2>1. NoOutcome
    BY <1>5 DEF ServerDown, ServerUp, Establish, Lose, threadVars, NoOutcome
  <2> QED
    BY <2>1, NoOutcomeIsStutter
<1>6. CASE Rest \/ UNCHANGED vars
  <2>1. NoOutcome
    BY <1>6 DEF Rest, vars, NoOutcome
  <2> QED
    BY <2>1, NoOutcomeIsStutter
<1> QED
  BY <1>1, <1>2, <1>3, <1>4, <1>5, <1>6 DEF Next

\* The r2d2 pool implements Outcomes: work reported done is durable, work that
\* failed, was refused or panicked never is, and no later user of a connection
\* makes durable what an earlier one left behind.
THEOREM SyncKeepsPromise == Spec => KeepsPromise
<1>1. Init => Promise!Init
  BY DEF Init, Promise!Init, ToldCaller
<1>2. SyncInv /\ [Next]_vars => [Promise!Next]_<<db, Callers>>
  BY StepIsPromised
<1> QED
  BY <1>1, <1>2, SyncInvHolds, PTL DEF Spec, KeepsPromise, Promise!Spec, Callers

=============================================================================
