------------------------------ MODULE Outcomes ------------------------------
(***************************************************************************)
(* What the callers of a pool of transactional connections rely on, with   *)
(* no connection in sight: each task does one unit of work, which becomes  *)
(* durable at one moment or never, and what the caller is told is true.    *)
(***************************************************************************)
CONSTANT Task

VARIABLES
    durable,    \* the tasks whose work is in the database for good
    told        \* told[t]: what t's caller knows

Told == {"pending", "done", "nothing", "unknown"}

Init ==
    /\ durable = {}
    /\ told = [t \in Task |-> "pending"]

\* Work takes effect while its caller waits or, when the caller has turned
\* away, not at all or later; never after it was reported as undone.
TakeEffect(t) ==
    /\ told[t] \in {"pending", "unknown"}
    /\ durable' = durable \cup {t}
    /\ UNCHANGED told

\* The answer comes with the effect, after it, or without.
Tell(t, r) ==
    /\ told[t] = "pending"
    /\ durable' \in {durable, durable \cup {t}}
    /\ r = "done" => t \in durable'
    /\ r = "nothing" => t \notin durable'
    /\ told' = [told EXCEPT ![t] = r]

Next == \E t \in Task : TakeEffect(t) \/ \E r \in Told \ {"pending"} : Tell(t, r)

Spec == Init /\ [][Next]_<<durable, told>>
=============================================================================
