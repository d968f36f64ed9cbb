------------------------------ MODULE MCBlink ------------------------------
(***************************************************************************)
(* A node b and two peers.  The quorums of the heights 49 and 50 share the *)
(* subquorum of height 15.  The first blink needs a and b, the second any  *)
(* two members, so that b may be needed for both, or may be late.          *)
(***************************************************************************)
EXTENDS BlinkRefinement

CONSTANTS a, b, c, t1, t2

MCNode == {b}
MCPeer == {a, c}
MCTx == {t1, t2}
MCBlinks == {[height |-> 49, tx |-> t1], [height |-> 50, tx |-> t2]}
MCSpends == {t1}
MCThreads == [n \in MCNode |-> 2]
MCP2pThread == 1..2
MCMaxRestarts == [n \in MCNode |-> 1]
MCBlinkQuorum == [h \in {10, 15, 20} |->
                    CASE h = 10 -> <<a, b>>
                      [] h = 15 -> <<a, b, c>>
                      [] h = 20 -> <<c, a, b>>]

(* Each of the peers approves one of the blinks.                           *)
PeersApproveOne ==
  \A p \in Peer : \E s \in sent : s.member = p /\ s.ok

(* A node restarts after it has approved a blink, when it is idle.         *)
RestartIdle ==
  \A n \in Node :
    restarts'[n] # restarts[n] =>
      /\ jobs[n] = {} /\ incoming[n] = {}
      /\ \E s \in sent : s.member = n /\ s.ok

(* A node handles two messages at a time, of either network, and one when  *)
(* it has restarted.                                                       *)
TwoThreads ==
  \A n \in Node :
    Cardinality(jobs'[n]) + Cardinality(incoming'[n])
      <= IF restarts'[n] = 0 THEN 2 ELSE 1

(* A transaction without signatures comes while the pool is empty: later   *)
(* it changes nothing, as the pool is not empty again.  Which of the idle  *)
(* threads takes it makes no difference.                                   *)
OfUse ==
  \A n \in Node : \A m \in incoming'[n] \ incoming[n] :
    m.pc = "parse" => /\ m.approved \/ pool[n] = {}
                      /\ m.thread = 2 => \E k \in incoming[n] : k.thread = 1

BusyInit == Init /\ PeersApproveOne

(* The disjuncts of Next, each with the restriction that concerns it.      *)
BusyNext ==
  \/ \E n \in Node : Works(n) /\ TwoThreads
  \/ \E n \in Node : Hears(n) /\ OfUse /\ TwoThreads
  \/ \E n \in Node : Restart(n) /\ RestartIdle

BusySpec == BusyInit /\ [][BusyNext]_vars
=============================================================================
