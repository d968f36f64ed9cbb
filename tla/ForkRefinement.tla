--------------------------- MODULE ForkRefinement ---------------------------
(***************************************************************************)
(* The refinement of MainChain by ForkChoice: during a switch, which holds *)
(* the blockchain lock from the first block that is popped to the last one *)
(* that is connected, the main chain still is the one it started from.     *)
(***************************************************************************)
EXTENDS ForkChoice

OldTop == IF original = {} THEN fork ELSE Highest(original)
Tip == IF mode = "idle" THEN top ELSE OldTop

ChainWeights == [b \in Block |-> ChainWeight(Path(b))]

Main == INSTANCE MainChain
  WITH Weights <- ChainWeights, tip <- Tip, settled <- locked,
       commands <- pops + restarts

(* A switch of the main chain is all or nothing: it ends with the whole of *)
(* the other chain, which is heavier while no checkpoint and no operator   *)
(* interferes, or with the chain it started from, although it takes blocks *)
(* off and puts blocks on one by one and may fail at each of them          *)
(* (switch_to_alternative_blockchain, rollback_blockchain_switching).      *)
(* Blocks are lost only when one of the old chain does not connect again,  *)
(* and even then none that two checkpoints have locked in.                 *)
SwitchIsAtomic == Main!Spec
=============================================================================
