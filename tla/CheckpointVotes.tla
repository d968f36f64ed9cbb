--------------------------- MODULE CheckpointVotes ---------------------------
(***************************************************************************)
(* How the validators of a checkpointing quorum vote and how a node makes  *)
(* checkpoints of their votes: service_node_quorum_cop.cpp (process_quorums *)
(* as far as checkpoints go, block_add, blockchain_detached, handle_vote,   *)
(* handle_checkpoint_vote) and the voting pool of service_node_voting.cpp.  *)
(*                                                                         *)
(* Every node has a chain, which grows and is cut back as its fork choice   *)
(* tells it (module ForkChoice; here by any block and to any height), a     *)
(* pool of votes and threads that take votes from the network.  The hooks   *)
(* block_add and blockchain_detached run under the blockchain lock.  A      *)
(* thread holds a lock only in the steps of its own: while it adds a vote   *)
(* to the pool, and while it updates the checkpoint.                        *)
(*                                                                         *)
(* A vote is what the code tells votes apart by: height, block and the      *)
(* voter's place in the quorum, here the voter itself.  Old checkpoints are *)
(* kept; which of them checkpoints::block_add drops is in ForkChoice.       *)
(***************************************************************************)
EXTENDS Integers, Sequences, FiniteSets

CONSTANTS
    Node,
    Thread,        \* the threads of a node that handle messages
    Block,
    Genesis,
    Parent,        \* the block that prev_id names
    Validator(_),  \* the checkpointing quorum of a height
    Target,        \* what get_target_blockchain_height may return
    CHECKPOINT_INTERVAL,
    CHECKPOINT_QUORUM_SIZE,
    CHECKPOINT_MIN_VOTES,
    VOTE_LIFETIME,
    REORG_SAFETY_BUFFER_BLOCKS,
    MaxHeight,     \* bound on the height of a block
    MaxRepeats     \* bound on the nodes that vote again after a restart or
                   \* after their chain was cut back beyond the safety buffer

ASSUME TreeAssumption == Genesis \in Block /\ Parent \in [Block -> Block]

ASSUME NumberAssumption ==
    /\ CHECKPOINT_INTERVAL \in Nat \ {0}
    /\ CHECKPOINT_QUORUM_SIZE \in Nat
    /\ CHECKPOINT_MIN_VOTES \in Nat \ {0}
    /\ VOTE_LIFETIME \in Nat
    /\ REORG_SAFETY_BUFFER_BLOCKS \in Nat
    /\ MaxHeight \in Nat /\ MaxRepeats \in Nat
    /\ Target \subseteq Nat

\* service_node_rules.h: 13 of 20, so that 5 nodes may vote again.
ASSUME QuorumAssumption ==
    /\ IsFiniteSet(Node)
    /\ \A h \in 0..MaxHeight :
          /\ Validator(h) \subseteq Node
          /\ Cardinality(Validator(h)) <= CHECKPOINT_QUORUM_SIZE
    /\ CHECKPOINT_QUORUM_SIZE + MaxRepeats < 2 * CHECKPOINT_MIN_VOTES

VARIABLES
    chain,    \* the blocks of a node's chain; the block at height h is h + 1st
    last,     \* m_last_checkpointed_height
    pool,     \* m_checkpoint_pool
    cps,      \* the checkpoints in the database
    thread,   \* where a thread is in handle_vote, and its local variables
    net,      \* the votes that have been relayed
    cast,     \* history: all votes that were signed
    formed,   \* history: the blocks that checkpoints were made for
    repeats   \* history: the nodes that may have voted twice for a height

vars == <<chain, last, pool, cps, thread, net, cast, formed, repeats>>

Vote == [height : 0..MaxHeight, block : Block, voter : Node]
HeightAndBlock == [height : 0..MaxHeight, block : Block]
Checkpoint == [height : 0..MaxHeight, block : Block, signers : SUBSET Node]

Idle == [pc |-> "idle"]

\* get_current_blockchain_height
Height(n) == Len(chain[n])

-----------------------------------------------------------------------------
(* The voting pool.                                                        *)

\* find_vote_pool: the voters for the block that vote v is for.
Signers(P, v) ==
    {w.voter : w \in {u \in P : u.height = v.height /\ u.block = v.block}}

\* remove_expired_votes
Unexpired(P, height) ==
    {v \in P : v.height + VOTE_LIFETIME >= height /\ v.height <= height}

-----------------------------------------------------------------------------
(* handle_checkpoint_vote.                                                 *)

EnoughLess(V, P) ==         \* mutant: one vote too few
    {v \in V : Cardinality(Signers(P, v)) >= CHECKPOINT_MIN_VOTES - 1}

Enough(V, P) ==
    {v \in V : Cardinality(Signers(P, v)) >= CHECKPOINT_MIN_VOTES}

\* The signers of the checkpoint that is stored for the block of vote v.
Stored(C, v) == {c \in C : c.height = v.height /\ c.block = v.block}
NoSigners(C, v) == {}       \* mutant: overwrite what is stored
StoredSigners(C, v) == UNION {c.signers : c \in Stored(C, v)}

\* The checkpoints made of the new votes V when the pool has the votes P: a
\* stored one with the signers it lacks, or a new one for a block we have.
Made(C, V, P, height) ==
    {[height |-> v.height, block |-> v.block,
      signers |-> Signers(P, v) \cup StoredSigners(C, v)] :
        v \in {w \in Enough(V, P) : Stored(C, w) # {} \/ w.height < height}}

\* update_checkpoint: the database has one checkpoint for a height.
AddedTo(C, new) == C \cup new       \* mutant: keeps the old one as well
Update(C, new) == {c \in C : \A d \in new : d.height # c.height} \cup new

Blocks(C) == {[height |-> c.height, block |-> c.block] : c \in C}

-----------------------------------------------------------------------------
(* process_quorums.                                                        *)

Larger(a, b) == IF a >= b THEN a ELSE b

RoundUp(h) ==
    IF h % CHECKPOINT_INTERVAL = 0 THEN h
    ELSE h + (CHECKPOINT_INTERVAL - (h % CHECKPOINT_INTERVAL))

\* The height that node n, which gets the block for Height(n), votes from on, and
\* the heights it votes for.
VoteFrom(n, latest) == Larger(RoundUp(latest - VOTE_LIFETIME), last[n])

VoteFor(n, latest) ==
    {k \in VoteFrom(n, latest)..(Height(n) - 1) :
        /\ k % CHECKPOINT_INTERVAL = 0
        /\ k >= REORG_SAFETY_BUFFER_BLOCKS
        /\ n \in Validator(k)}

\* make_checkpointing_vote
OwnVotes(n, latest) ==
    {[height |-> k, block |-> chain[n][k + 1], voter |-> n] :
        k \in VoteFor(n, latest)}

\* Whether process_quorums gets to the checkpoints: the node is an active
\* service node, and the block is not too old to vote.
Voting(h, latest, enabled) ==
    enabled /\ latest >= VOTE_LIFETIME /\ h >= latest - VOTE_LIFETIME

-----------------------------------------------------------------------------
(* Actions.                                                                *)

Init ==
    /\ chain = [n \in Node |-> <<Genesis>>]
    /\ last = [n \in Node |-> 0]
    /\ pool = [n \in Node |-> {}]
    /\ cps = [n \in Node |-> {}]
    /\ thread = [n \in Node |-> [t \in Thread |-> Idle]]
    /\ net = {} /\ cast = {} /\ formed = {} /\ repeats = {}

\* The node adds block b to its chain.  The checkpoint offered with it, if any,
\* is what the peer that sent the block has stored (checkpoints::block_add); the
\* rest is quorum_cop::block_add.
AddBlock(n, b, offered, target, enabled) ==
    LET h == Height(n)
        latest == Larger(h + 1, target)
        voting == Voting(h, latest, enabled)
        mine == IF voting THEN OwnVotes(n, latest) ELSE {}
        new == Made(cps[n], mine \ pool[n], pool[n] \cup mine, h + 1)
    IN  /\ h <= MaxHeight
        /\ Parent[b] = chain[n][h]
        /\ chain' = [chain EXCEPT ![n] = Append(@, b)]
        /\ last' = [last EXCEPT ![n] =
                        IF voting
                        THEN Larger(VoteFrom(n, latest), RoundUp(h))
                        ELSE @]
        /\ pool' = [pool EXCEPT ![n] = Unexpired(@ \cup mine, h + 1)]
        /\ cps' = [cps EXCEPT ![n] = Update(Update(@, offered), new)]
        /\ cast' = cast \cup mine
        /\ formed' = formed \cup Blocks(new)
        /\ UNCHANGED <<thread, net, repeats>>

\* blockchain_detached: the blocks from height h on are taken off.
LastAfterDetachAll(n, h) ==     \* mutant: the safety buffer is forgotten
    IF last[n] >= h THEN h - (h % CHECKPOINT_INTERVAL) ELSE last[n]

LastAfterDetach(n, h) ==
    IF last[n] >= h + REORG_SAFETY_BUFFER_BLOCKS
    THEN h - (h % CHECKPOINT_INTERVAL) ELSE last[n]

Detach(n, h) ==
    /\ repeats' = IF last[n] >= h + REORG_SAFETY_BUFFER_BLOCKS
                  THEN repeats \cup {n} ELSE repeats
    /\ Cardinality(repeats') <= MaxRepeats
    /\ chain' = [chain EXCEPT ![n] = SubSeq(@, 1, h)]
    /\ last' = [last EXCEPT ![n] = LastAfterDetach(n, h)]
    /\ pool' = [pool EXCEPT ![n] = Unexpired(@, h)]
    /\ cps' = [cps EXCEPT ![n] = {c \in @ : c.height < h}]
    /\ UNCHANGED <<thread, net, cast, formed>>

\* relay_service_node_votes, which a timer calls and core::add_new_block when it
\* has let go of the blockchain lock.  That a vote is sent again only after two
\* minutes (set_relayed) makes no difference to the set of those sent.
Relay(n) ==
    /\ net' = net \cup {v \in pool[n] : v.height + VOTE_LIFETIME >= Height(n)}
    /\ UNCHANGED <<chain, last, pool, cps, thread, cast, formed, repeats>>

\* handle_vote, first part: verify_vote_age and verify_vote_signature.
VerifyVote(n, t, v) ==
    /\ thread[n][t] = Idle
    /\ Height(n) <= v.height + VOTE_LIFETIME
    /\ v.height <= Height(n)
    /\ v.voter \in Validator(v.height)
    /\ thread' = [thread EXCEPT ![n][t] = [pc |-> "verified", vote |-> v]]
    /\ UNCHANGED <<chain, last, pool, cps, net, cast, formed, repeats>>

\* add_pool_vote_if_unique, under the lock of the pool; the result is a copy of
\* the votes for the block.
AddToPool(n, t) ==
    /\ thread[n][t].pc = "verified"
    /\ LET v == thread[n][t].vote
       IN  IF v \in pool[n]
           THEN thread' = [thread EXCEPT ![n][t] = Idle] /\ UNCHANGED pool
           ELSE /\ pool' = [pool EXCEPT ![n] = @ \cup {v}]
                /\ thread' = [thread EXCEPT ![n][t] =
                       [pc |-> "pooled", vote |-> v,
                        votes |-> {w \in pool'[n] :
                                      w.height = v.height /\ w.block = v.block}]]
    /\ UNCHANGED <<chain, last, cps, net, cast, formed, repeats>>

\* handle_checkpoint_vote, under the blockchain lock.  The vote is then relayed.
HandleCheckpointVote(n, t) ==
    /\ thread[n][t].pc = "pooled"
    /\ LET v == thread[n][t].vote
           new == Made(cps[n], {v}, thread[n][t].votes, Height(n))
       IN  /\ cps' = [cps EXCEPT ![n] = Update(@, new)]
           /\ formed' = formed \cup Blocks(new)
           /\ net' = net \cup {v}
    /\ thread' = [thread EXCEPT ![n][t] = Idle]
    /\ UNCHANGED <<chain, last, pool, cast, repeats>>

\* The daemon restarts (quorum_cop::init): the pool is in memory only.
Restart(n) ==
    /\ repeats' = repeats \cup {n}
    /\ Cardinality(repeats') <= MaxRepeats
    /\ last' = [last EXCEPT ![n] = 0]
    /\ pool' = [pool EXCEPT ![n] = {}]
    /\ thread' = [thread EXCEPT ![n] = [t \in Thread |-> Idle]]
    /\ UNCHANGED <<chain, cps, net, cast, formed>>

\* What a peer may send with block b at height h.
Offered(b, h) ==
    {{}} \cup {{c} : c \in {d \in UNION {cps[m] : m \in Node} :
                                d.height = h /\ d.block = b}}

Next ==
    \E n \in Node :
        \/ \E b \in Block \ {Genesis}, target \in Target, enabled \in BOOLEAN :
              \E offered \in Offered(b, Height(n)) :
                 AddBlock(n, b, offered, target, enabled)
        \/ \E h \in 1..(Height(n) - 1) : Detach(n, h)
        \/ Relay(n)
        \/ \E t \in Thread : \/ \E v \in net : VerifyVote(n, t, v)
                             \/ AddToPool(n, t)
                             \/ HandleCheckpointVote(n, t)
        \/ Restart(n)

Spec == Init /\ [][Next]_vars

-----------------------------------------------------------------------------
(* Properties.                                                             *)

\* Everything has its type, and the database has one checkpoint for a height
\* (update_checkpoint).
TypeOK ==
    /\ chain \in [Node -> Seq(Block)]
    /\ \A n \in Node : chain[n] # <<>>
    /\ last \in [Node -> Nat]
    /\ pool \in [Node -> SUBSET Vote]
    /\ cps \in [Node -> SUBSET Checkpoint]
    /\ \A n \in Node : \A c, d \in cps[n] : c.height = d.height => c = d
    /\ thread \in [Node -> [Thread ->
                     {Idle} \cup [pc : {"verified"}, vote : Vote]
                            \cup [pc : {"pooled"}, vote : Vote,
                                  votes : SUBSET Vote]]]
    /\ net \subseteq Vote /\ cast \subseteq Vote
    /\ formed \subseteq HeightAndBlock
    /\ repeats \subseteq Node

\* Two nodes never make checkpoints for different blocks of a height, nor does
\* a node for two chains it follows one after the other, as long as no more
\* than MaxRepeats validators vote again (handle_checkpoint_vote,
\* CHECKPOINT_MIN_VOTES).
CheckpointAgreement ==
    \A c, d \in formed : c.height = d.height => c.block = d.block

\* A validator signs no two blocks of a height when its chain is reorganised
\* within the safety buffer (m_last_checkpointed_height in process_quorums and
\* blockchain_detached).
NoDoubleVote ==
    \A v, w \in cast :
        v.voter = w.voter /\ v.height = w.height /\ v.voter \notin repeats
            => v.block = w.block

\* Every stored checkpoint is for a height the chain has, also when the chain was
\* cut back while a thread was handling the vote, and has the signatures it
\* needs, by validators of its height which did sign the block, however stale
\* the copy of the pool was (handle_checkpoint_vote, blockchain_detached).
QuorumBacked ==
    \A n \in Node : \A c \in cps[n] :
        /\ c.height < Height(n)
        /\ Cardinality(c.signers) >= CHECKPOINT_MIN_VOTES
        /\ \A m \in c.signers :
              /\ m \in Validator(c.height)
              /\ [height |-> c.height, block |-> c.block, voter |-> m] \in cast

\* A checkpoint that stays in the database for the same block never loses a
\* signature, although the threads that update it may come in any order ("we
\* could replace a checkpoint with lesser votes prematurely",
\* handle_checkpoint_vote).
SignaturesStay ==
    \A n \in Node : \A c \in cps[n] : \A d \in cps'[n] :
        c.height = d.height /\ c.block = d.block => c.signers \subseteq d.signers
SignaturesKept == [][SignaturesStay]_vars
=============================================================================
