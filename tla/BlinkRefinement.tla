-------------------------- MODULE BlinkRefinement ---------------------------
(***************************************************************************)
(* The refinement of BlinkConsensus by Blink: a transaction is decided     *)
(* with the signature that completes the approvals of both subquorums.     *)
(***************************************************************************)
EXTENDS Blink

ApprovedTx == {b.tx : b \in {c \in Blinks : Approved(sent, c)}}

Consensus == INSTANCE BlinkConsensus
  WITH decided <- ApprovedTx, learned <- blinked, held <- pool

(* Whatever the threads of the nodes do, and although a restart loses what *)
(* a node knows of the blinks: m_blinks has no transaction but the one     *)
(* that the quorums approve (add_existing_blink, add_new_blink), and no    *)
(* transaction in a mempool is replaced, by remove_blink_conflicts or      *)
(* otherwise, except by that one, which itself stays.                      *)
ApprovalIsFinal == Consensus!Spec
=============================================================================
