----------------------------- MODULE MCPulseLive -----------------------------
(***************************************************************************)
(* Pulse with the fairness its scheduling gives: pulse::main is called     *)
(* twice a second, and the clock runs.                                     *)
(***************************************************************************)
EXTENDS MCPulse

(* Whatever the network does.                                              *)
FairNext == Next /\ Urgent /\ Prompt /\ NoStragglers

FairSpec ==
  /\ Init /\ [][FairNext]_vars
  /\ \A n \in Node : WF_vars(Main(n))
  /\ WF_vars(Tick)

(* A node never hangs in a round: every stage it enters ends, by what it   *)
(* received or by its timeout, whatever messages are lost (the end_time of *)
(* the stages, set in prepare_for_round).                                  *)
RoundsEnd ==
  \A n \in Node : state[n] > wait_for_round ~> state[n] <= wait_for_round

(* Synchrony: the nodes that are up take the useful messages and act on    *)
(* them within a stage, and nothing fails on the way.                      *)
Deliver(n) ==
  \E m \in net : StageOf(m.type) >= state[n] /\ HandleMessage(n, m)

FaultlessMain(n) == Main(n) /\ ~Fault(n)

Quiescent ==
  \A n \in Node \ Down :
    /\ ~ENABLED <<FaultlessMain(n)>>_vars
    /\ ~ENABLED Deliver(n)
    /\ ~ENABLED ReceiveBlock(n)

SynchronousNext ==
  \/ \E n \in Node \ Down : FaultlessMain(n)
  \/ \E n \in Node \ Down : Deliver(n)
  \/ \E n \in Node \ Down : ReceiveBlock(n)
  \/ Quiescent /\ Tick

SynchronousSpec ==
  /\ Init /\ [][SynchronousNext /\ Urgent]_vars
  /\ \A n \in Node \ Down :
       WF_vars(FaultlessMain(n)) /\ WF_vars(Deliver(n)) /\ WF_vars(ReceiveBlock(n))
  /\ WF_vars(Quiescent /\ Tick)

(* The round produces a block that every running node adds, as long as the *)
(* producer and the required number of validators are up ("The round       *)
(* proceeds if more than 60% of the validators are participating").        *)
BlockProduced == <>(\A n \in Node \ Down : tip[n] # 0)

=============================================================================
