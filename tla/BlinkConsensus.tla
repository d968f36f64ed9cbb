--------------------------- MODULE BlinkConsensus ---------------------------
(***************************************************************************)
(* What blinks promise for transactions that spend the same output,        *)
(* without quorums, signatures or threads: at most one of them is ever     *)
(* approved, and that is for good; a node takes no other one for approved; *)
(* and what a node holds in its mempool gives way to nothing but the       *)
(* approved transaction, which itself never gives way.                     *)
(***************************************************************************)
CONSTANTS Node, Tx

VARIABLES
    decided,   \* the approved transaction, once there is one
    learned,   \* what a node knows of that, until it restarts
    held       \* what a node has in its mempool

vars == <<decided, learned, held>>

\* The quorums may decide before the nodes here take part.
Init ==
    /\ decided \in {{}} \cup {{t} : t \in Tx}
    /\ learned = [n \in Node |-> {}]
    /\ held = [n \in Node |-> {}]

Decide(t) ==
    /\ decided = {}
    /\ decided' = {t}
    /\ UNCHANGED <<learned, held>>

\* A node may hold the approved transaction before it has learned that it is
\* approved, or learn it and hold another one or none.
Adopt(n) ==
    /\ decided # {}
    /\ held' = [held EXCEPT ![n] = decided]
    /\ UNCHANGED <<decided, learned>>

Learn(n) ==
    /\ decided # {}
    /\ learned' = [learned EXCEPT ![n] = decided]
    /\ UNCHANGED <<decided, held>>

Hold(n, t) ==
    /\ held[n] = {}
    /\ held' = [held EXCEPT ![n] = {t}]
    /\ UNCHANGED <<decided, learned>>

Forget(n) ==
    /\ learned' = [learned EXCEPT ![n] = {}]
    /\ UNCHANGED <<decided, held>>

Next ==
    \/ \E t \in Tx : Decide(t)
    \/ \E n \in Node :
          \/ Adopt(n) \/ Learn(n) \/ Forget(n)
          \/ \E t \in Tx : Hold(n, t)

Spec == Init /\ [][Next]_vars
=============================================================================
