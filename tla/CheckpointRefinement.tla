------------------------ MODULE CheckpointRefinement ------------------------
(***************************************************************************)
(* The refinement of CheckpointConsensus by CheckpointVotes: a block is    *)
(* agreed on with the signature that completes a quorum, before any node   *)
(* has collected the votes.                                                *)
(***************************************************************************)
EXTENDS CheckpointVotes

AgreedOn ==
    {f \in HeightAndBlock :
        Cardinality(Signers(cast, f)) >= CHECKPOINT_MIN_VOTES}

StoredBlocks == [n \in Node |-> Blocks(cps[n])]

Consensus == INSTANCE CheckpointConsensus
  WITH agreed <- AgreedOn, stored <- StoredBlocks

(* The signatures that exist never suffice for two blocks of a height, the *)
(* ones that no node has collected included, while at most MaxRepeats      *)
(* validators vote again.  So no thread of handle_checkpoint_vote, however *)
(* old its copy of the pool, and no checkpoint that comes with a block     *)
(* makes update_checkpoint replace a checkpoint by one for another block:  *)
(* a node loses it in blockchain_detached only, with all above it.         *)
CheckpointsAreFinal == Consensus!Spec
=============================================================================
