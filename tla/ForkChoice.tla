------------------------------ MODULE ForkChoice ------------------------------
(***************************************************************************)
(* Alternative chains, chain switching and service node checkpoints, as    *)
(* one node sees them: blockchain.cpp (add_new_block,                      *)
(* handle_alternative_block, build_alt_chain,                              *)
(* switch_to_alternative_blockchain and its rollback, pop_blocks),         *)
(* checkpoints.cpp and BlockchainDB::get_immutable_checkpoint.  All blocks *)
(* are of the Pulse hard forks.  Every handler runs under the blockchain   *)
(* lock.  A switch is a sequence of steps, one per block that is           *)
(* connected, in which no other handler can run (mode).                    *)
(*                                                                         *)
(* The blocks form a tree given by Parent; what connects them is their     *)
(* prev_id.  A checkpoint is the block that its signatures are for.  The   *)
(* genesis of the model is a block with a hardcoded checkpoint.            *)
(***************************************************************************)
EXTENDS Integers, FiniteSets

CONSTANTS
    Block,       \* all blocks that may exist
    Genesis,     \* a block with a hardcoded checkpoint, on every chain
    Parent,      \* the block that prev_id names
    Height,      \* block height
    Round,       \* the Pulse round the block was made in
    Mined,       \* blocks without Pulse data, which fallback mining makes
    Bad,         \* blocks with wrong transaction inputs
    Flaky,       \* blocks that may fail to connect for another reason
    Signed,      \* the blocks a checkpointing quorum has signed
    None,        \* no checkpoint (nullptr)
    CHECKPOINT_INTERVAL,
    CHECKPOINT_STORE_PERSISTENTLY_INTERVAL,
    PULSE_BASE_WEIGHT,
    MaxPops,     \* bound on pop_blocks commands
    MaxRestarts  \* bound on restarts of the daemon

ASSUME TreeAssumption ==
    /\ Genesis \in Block
    /\ None \notin Block
    /\ Parent \in [Block -> Block]
    /\ Height \in [Block -> Nat]
    /\ \A b \in Block : Height[Genesis] <= Height[b]
    /\ \A b \in Block \ {Genesis} : Height[b] = Height[Parent[b]] + 1

ASSUME IntervalAssumption ==
    /\ CHECKPOINT_INTERVAL \in Nat \ {0}
    /\ CHECKPOINT_STORE_PERSISTENTLY_INTERVAL \in Nat \ {0}
    /\ Height[Genesis] % CHECKPOINT_STORE_PERSISTENTLY_INTERVAL = 0
    /\ Height[Genesis] % CHECKPOINT_INTERVAL = 0

\* verify_checkpoint: a service node checkpoint is at a multiple of the interval.
ASSUME SignedAssumption ==
    /\ Signed \subseteq Block \ {Genesis}
    /\ \A c \in Signed : Height[c] % CHECKPOINT_INTERVAL = 0

\* Every block a quorum signs is high enough for checkpoints::block_add to store
\* a checkpoint that comes with it: Pulse starts above the persistent interval
\* (60 blocks) on every network but a local devnet.
ASSUME StoredAssumption ==
    \A c \in Signed : Height[c] >= CHECKPOINT_STORE_PERSISTENTLY_INTERVAL

ASSUME WeightAssumption == PULSE_BASE_WEIGHT \in Nat /\ Round \in [Block -> Nat]

ASSUME BoundAssumption == MaxPops \in Nat /\ MaxRestarts \in Nat

VARIABLES
    top,         \* the top block of the main chain
    chain,       \* the blocks of the main chain
    alt,         \* the alternative blocks in the database
    altcp,       \* the checkpoint stored beside an alternative block, or None
    cps,         \* the checkpoints in the database
    immutable,   \* checkpoints::m_immutable_height
    last_cull,   \* checkpoints::m_last_cull_height
    invalid,     \* m_invalid_blocks
    mode,        \* idle, or what switch_to_alternative_blockchain is doing
    fork,        \* the block at which the chains of a switch part
    chosen,      \* alt_chain of the switch
    left,        \* the blocks that the switch has still to connect
    original,    \* disconnected_chain of the switch
    given,       \* the checkpoint to connect a block of the switch with
    pops,        \* pop_blocks commands so far
    restarts,    \* restarts so far
    locked,      \* history: blocks that had an immutable checkpoint above them
                 \* since the daemon started
    everLocked,  \* history: the same, since the first start
    byWeight     \* history: nothing but weight has decided the main chain

chainVars == <<top, chain>>
altVars == <<alt, altcp>>
cpVars == <<cps, last_cull>>
switchVars == <<mode, fork, chosen, left, original, given>>
bounds == <<pops, restarts>>
lockVars == <<locked, everLocked>>
vars == <<top, chain, alt, altcp, cps, immutable, last_cull, invalid, mode,
          fork, chosen, left, original, given, pops, restarts, locked,
          everLocked, byWeight>>

Highest(S) == CHOOSE b \in S : \A c \in S : Height[c] <= Height[b]
Lowest(S) == CHOOSE b \in S : \A c \in S : Height[b] <= Height[c]
Larger(m, n) == IF m >= n THEN m ELSE n
Smaller(m, n) == IF m <= n THEN m ELSE n

\* The blocks that prev_id leads to from b, down to Genesis: the smallest set
\* with b in it that has the parent of each of its blocks.
HoldsPath(S, b) == b \in S /\ \A x \in S \ {Genesis} : Parent[x] \in S
Paths == [b \in Block |-> {a \in Block : \A S \in SUBSET Block :
                                            HoldsPath(S, b) => a \in S}]
Path(b) == Paths[b]

-----------------------------------------------------------------------------
(* Checkpoints.                                                            *)

\* get_immutable_checkpoint: the one below the latest, unless the latest is
\* hardcoded.
ImmutableHeight(C, h) ==
    LET below == {c \in C : Height[c] <= h}
        first == Highest(below)
        rest == below \ {first}
    IN  IF first = Genesis THEN Height[Genesis]
        ELSE IF rest # {} THEN Height[Highest(rest)] ELSE 0

\* update_checkpoint: the database keeps one checkpoint for a height.
Store(C, c) ==
    IF c = None THEN C ELSE {d \in C : Height[d] # Height[c]} \cup {c}

\* checkpoints::block_add: remove what is below the immutable checkpoint and
\* not kept persistently, then store the checkpoint that came with the block.
CullEnd(b) == ImmutableHeight(cps, Height[b] + 1)

CullStart(b) ==
    LET start == IF CullEnd(b) < CHECKPOINT_STORE_PERSISTENTLY_INTERVAL
                 THEN 0
                 ELSE CullEnd(b) - CHECKPOINT_STORE_PERSISTENTLY_INTERVAL
        past == start % CHECKPOINT_INTERVAL
    IN  Larger(last_cull,
               IF past > 0 THEN start + (CHECKPOINT_INTERVAL - past) ELSE start)

Culled(b) ==
    {c \in cps : /\ Height[c] >= CullStart(b)
                 /\ Height[c] < CullEnd(b)
                 /\ (Height[c] - CullStart(b)) % CHECKPOINT_INTERVAL = 0
                 /\ Height[c] % CHECKPOINT_STORE_PERSISTENTLY_INTERVAL # 0}

CpsAdded(b, c) ==
    IF Height[b] < CHECKPOINT_STORE_PERSISTENTLY_INTERVAL THEN cps
    ELSE Store(cps \ Culled(b), c)

CullAdded(b) ==
    LET steps == (CullEnd(b) - CullStart(b) + CHECKPOINT_INTERVAL - 1)
                    \div CHECKPOINT_INTERVAL
    IN  IF Height[b] < CHECKPOINT_STORE_PERSISTENTLY_INTERVAL THEN last_cull
        ELSE CullStart(b) + CHECKPOINT_INTERVAL * Larger(steps, 0)

CheckpointsBlockAdd(b, c) ==
    /\ cps' = CpsAdded(b, c)
    /\ last_cull' = CullAdded(b)

\* checkpoints::blockchain_detached: from the top checkpoint down, every
\* CHECKPOINT_INTERVAL blocks.
DetachedAbove(C, h) ==      \* mutant: keeps the checkpoint of the first block
    {c \in C : /\ Height[c] > h
               /\ Height[c] >= CHECKPOINT_INTERVAL
               /\ (Height[Highest(C)] - Height[c]) % CHECKPOINT_INTERVAL = 0}

Detached(C, h) ==
    {c \in C : /\ Height[c] >= h
               /\ Height[c] >= CHECKPOINT_INTERVAL
               /\ (Height[Highest(C)] - Height[c]) % CHECKPOINT_INTERVAL = 0}

DetachFrom(C, l, h) ==
    /\ cps' = C \ Detached(C, h)
    /\ last_cull' = Smaller(l, h)

CheckpointsDetach(h) == DetachFrom(cps, last_cull, h)

\* is_alternative_block_allowed: the new m_immutable_height, and the heights
\* above it.
CurrentImmutable == ImmutableHeight(cps, Height[top] + 1)
                            \* mutant: m_immutable_height is forgotten
NewImmutable == Larger(ImmutableHeight(cps, Height[top] + 1), immutable)
AltAllowed(b) == Height[b] > NewImmutable

\* check_block
MatchesCheckpoint(b) == \A c \in cps : Height[c] = Height[b] => c = b
Conflicts(b) == \E c \in cps : Height[c] = Height[b] /\ c # b
CheckpointAt(h) ==
    IF \E c \in cps : Height[c] = h
    THEN CHOOSE c \in cps : Height[c] = h ELSE None

-----------------------------------------------------------------------------
(* Weighing an alternative chain.                                          *)

\* build_alt_chain: the alternative blocks under block b, from its parent back
\* to the first block that is not alternative, and the first block of the chain
\* that b would complete.
Prevs(b) ==
    LET under == Path(Parent[b])
    IN  {a \in under : \A x \in under : Height[a] <= Height[x] => x \in alt}

Front(b) == IF Parent[b] \in alt THEN Lowest(Prevs(b)) ELSE b

\* The checkpoint an alternative block would be connected with: the one stored
\* beside it, or else the one for it in the database.
CheckpointOf(b) ==
    IF altcp[b] = None /\ b \in cps THEN b ELSE altcp[b]

\* num_checkpoints_on_alt_chain and num_checkpoints_on_chain, when b comes with
\* checkpoint c.
AltCheckpoints(b, c) ==
    Cardinality({a \in Prevs(b) : CheckpointOf(a) # None})
        + (IF c = None THEN 0 ELSE 1)

MainCheckpoints(b) == Cardinality({a \in Prevs(b) \cup {b} : Conflicts(a)})

\* MIN_WEIGHT_INCREMENT and the share of PULSE_BASE_WEIGHT
Weight(b) ==
    1 + (IF b \in Mined THEN 0 ELSE PULSE_BASE_WEIGHT \div (1 + Round[b]))

\* The weight of the blocks S, counted in units: b has <<b, 1>> to <<b, Weight(b)>>.
Units(S) == UNION {{b} \X (1..Weight(b)) : b \in S}
ChainWeight(S) == Cardinality(Units(S))

\* The main chain from the height of block b on.
MainAbove(b) == {c \in chain : Height[c] > Height[b]}       \* mutant: one less
MainFrom(b) == {c \in chain : Height[c] >= Height[b]}

\* get_blocks, to weigh the main chain, fails when it has no block to compare.
AltWinsBefore(b, c) ==      \* mutant: weighs the chain without the new block
    \/ AltCheckpoints(b, c) > MainCheckpoints(b)
    \/ /\ AltCheckpoints(b, c) = MainCheckpoints(b)
       /\ Height[Front(b)] < Height[top] + 1
       /\ ChainWeight(Prevs(b)) > ChainWeight(MainFrom(Front(b)))

AltWins(b, c) ==
    \/ AltCheckpoints(b, c) > MainCheckpoints(b)
    \/ /\ AltCheckpoints(b, c) = MainCheckpoints(b)
       /\ Height[Front(b)] < Height[top] + 1
       /\ ChainWeight(Prevs(b) \cup {b}) > ChainWeight(MainFrom(Front(b)))

-----------------------------------------------------------------------------
(* Initial state: the chain is just Genesis.                               *)

Init ==
    /\ top = Genesis /\ chain = {Genesis}
    /\ alt = {} /\ altcp = [b \in Block |-> None]
    /\ cps = {Genesis} /\ immutable = 0 /\ last_cull = 0
    /\ invalid = {}
    /\ mode = "idle" /\ fork = Genesis
    /\ chosen = {} /\ left = {} /\ original = {}
    /\ given = [b \in Block |-> None]
    /\ pops = 0 /\ restarts = 0
    /\ locked = {} /\ everLocked = {} /\ byWeight = TRUE

\* History.  Blocks are locked in once a step ends with an immutable
\* checkpoint at or above them; an operator may still pop them.
LockIn(before, everBefore) ==
    /\ locked' = IF mode' # "idle" THEN before
                 ELSE before \cup
                      {b \in chain' :
                          Height[b] <= ImmutableHeight(cps', Height[top'] + 1)}
    /\ everLocked' = everBefore \cup locked'

-----------------------------------------------------------------------------
(* add_new_block.                                                          *)

\* The checkpoints a block may come with: none, or the one a peer stores for
\* the height.  (get_blocks sends that one; of what comes, a node checks the
\* signatures and not that height and hash are the block's.)  One with fewer
\* signatures than the stored one is ignored, which is as if none had come.
Offered(b) == {None} \cup {c \in Signed : Height[c] = Height[b]}

HaveBlock(b) == b \in chain \cup alt \cup invalid

\* pop_block_from_blockchain, until block b is on top.
PoppedBelow(b) == {a \in chain : Height[a] < Height[b]}    \* mutant: one more
PoppedTo(b) == {a \in chain : Height[a] <= Height[b]}

Extend(b, c) ==
    /\ chain' = chain \cup {b}
    /\ top' = b
    /\ CheckpointsBlockAdd(b, c)

\* handle_block_to_main_chain: what makes a block fail, and the block marked
\* invalid by it.
MayConnect(b) == b \notin Bad /\ MatchesCheckpoint(b)
MayFail(b) == b \in Bad \cup Flaky \/ ~MatchesCheckpoint(b)
MarkedInvalid(b) == IF b \in Bad /\ MatchesCheckpoint(b) THEN {b} ELSE {}

\* A block fails, and the chain is left at height h.  It may fail before it was
\* added, when nothing is undone for it; after it was added, when abort_block
\* pops it; or after the last hook too, checkpoints::block_add with the
\* checkpoint c that came with the block, which has culled by then.
FailedAndDetached(b, c, h) ==
    \/ CheckpointsDetach(h)
    \/ /\ b \in Flaky /\ MayConnect(b)
       /\ DetachFrom(CpsAdded(b, c), CullAdded(b), h)

AbortBlock(b, c) ==
    \/ UNCHANGED cpVars
    \/ b \in Flaky /\ MayConnect(b) /\ FailedAndDetached(b, c, Height[b])

AddToMainChain(b, c) ==
    /\ mode = "idle"
    /\ ~HaveBlock(b)
    /\ Parent[b] = top
    /\ \/ /\ MayConnect(b)
          /\ Extend(b, c)
          /\ byWeight' = (byWeight /\ c = None)
          /\ UNCHANGED invalid
       \/ /\ MayFail(b)
          /\ invalid' = invalid \cup MarkedInvalid(b)
          /\ AbortBlock(b, c)
          /\ UNCHANGED <<chainVars, byWeight>>
    /\ UNCHANGED <<altVars, immutable, switchVars, bounds>>
    /\ LockIn(locked, everLocked)

\* add_new_block hands the block to handle_alternative_block, which knows its
\* parent.  (It ignores an orphan.)
Alternative(b) ==
    /\ mode = "idle"
    /\ ~HaveBlock(b)
    /\ Parent[b] # top
    /\ Parent[b] \in alt \cup chain

\* build_alt_chain: the chain that b would complete starts on the main chain,
\* above what may no longer change.
Connected(b) ==
    Parent[b] \in alt => /\ Parent[Front(b)] \in chain
                         /\ AltAllowed(Front(b))

\* handle_alternative_block, when the block is not stored: its height may no
\* longer change, or the chain under it is not connected and is removed.  A
\* chain that starts beyond the top of the main chain is left alone: asking for
\* the main block below it throws.
RefuseAlternative(b) ==
    /\ Alternative(b)
    /\ \/ /\ ~AltAllowed(b)
          /\ UNCHANGED altVars
       \/ /\ AltAllowed(b)
          /\ Height[Front(b)] > Height[top] + 1
          /\ UNCHANGED altVars
       \/ /\ AltAllowed(b)
          /\ Height[Front(b)] <= Height[top] + 1
          /\ ~Connected(b)
          /\ alt' = alt \ Prevs(b)
          /\ altcp' = [a \in Block |-> IF a \in Prevs(b) THEN None ELSE altcp[a]]
    /\ immutable' = NewImmutable
    /\ UNCHANGED <<chainVars, cpVars, invalid, switchVars, bounds, lockVars,
                   byWeight>>

Acceptable(b) ==
    /\ Alternative(b)
    /\ AltAllowed(b)
    /\ Connected(b)

\* handle_alternative_block up to add_alt_block.
StoreAlt(b, c) ==
    /\ alt' = alt \cup {b}
    /\ altcp' = [altcp EXCEPT ![b] = c]
    /\ immutable' = NewImmutable
    /\ byWeight' = (byWeight /\ c = None)

\* handle_alternative_block, when the main chain is kept: the other chain does
\* not win, or a missing transaction or a hook fails the block that has just
\* been stored.
KeepMainChain(b, c) ==
    /\ Acceptable(b)
    /\ ~AltWins(b, c) \/ b \in Flaky
    /\ StoreAlt(b, c)
    /\ UNCHANGED <<chainVars, cpVars, invalid, switchVars, bounds, lockVars>>

\* handle_alternative_block, when the chain wins: the first part of
\* switch_to_alternative_blockchain pops the main chain down to the fork and
\* runs the detached hooks.
BeginSwitch(b, c) ==
    /\ Acceptable(b)
    /\ AltWins(b, c)
    /\ StoreAlt(b, c)
    /\ mode' = "connect"
    /\ fork' = Parent[Front(b)]
    /\ chosen' = Prevs(b) \cup {b}
    /\ left' = Prevs(b) \cup {b}
    /\ original' = {a \in chain : Height[a] > Height[fork']}
    /\ given' = [a \in Block |->
                    CASE a = b -> c
                      [] a \in Prevs(b) -> CheckpointOf(a)
                      [] a \in original' -> CheckpointAt(Height[a])
                      [] OTHER -> None]
    /\ chain' = PoppedTo(fork')
    /\ top' = fork'
    /\ CheckpointsDetach(Height[fork'] + 1)
    /\ UNCHANGED <<invalid, bounds, lockVars>>

EndSwitch ==
    /\ mode' = "idle"
    /\ fork' = Genesis
    /\ chosen' = {} /\ left' = {} /\ original' = {}
    /\ given' = [b \in Block |-> None]

\* The order in which a chain is connected: alt_chain is built, and the popped
\* blocks are kept, with push_front.
LastToConnect == Highest(left)     \* mutant: push_back
NextToConnect == Lowest(left)

\* switch_to_alternative_blockchain connects the next block of the alternative
\* chain; the last one takes the chain out of the alternative blocks.
ConnectNext ==
    LET b == NextToConnect
    IN  /\ mode = "connect"
        /\ MayConnect(b)
        /\ Extend(b, given[b])
        /\ IF left = {b}
           THEN /\ alt' = alt \ chosen
                /\ altcp' = [a \in Block |->
                                IF a \in chosen THEN None ELSE altcp[a]]
                /\ EndSwitch
           ELSE /\ left' = left \ {b}
                /\ UNCHANGED <<altVars, mode, fork, chosen, original, given>>
        /\ UNCHANGED <<immutable, invalid, bounds, byWeight>>
        /\ LockIn(locked, everLocked)

\* A block fails to connect: rollback_blockchain_switching pops to the fork and
\* goes on to connect the original chain.  (What abort_block detached before is
\* above the fork too.)  The failed block and those after it become invalid;
\* only the failed one is removed from the alternative blocks.
ConnectFails ==
    LET b == NextToConnect
    IN  /\ mode = "connect"
        /\ MayFail(b)
        /\ chain' = PoppedTo(fork)
        /\ top' = fork
        /\ FailedAndDetached(b, given[b], Height[fork] + 1)
        /\ invalid' = invalid \cup left
        /\ alt' = alt \ {b}
        /\ altcp' = [altcp EXCEPT ![b] = None]
        /\ IF original = {}
           THEN EndSwitch
           ELSE /\ mode' = "restore"
                /\ left' = original
                /\ UNCHANGED <<fork, chosen, original, given>>
        /\ UNCHANGED <<immutable, bounds, byWeight>>
        /\ LockIn(locked, everLocked)

\* rollback_blockchain_switching connects the next block of the original chain.
RestoreNext ==
    LET b == NextToConnect
    IN  /\ mode = "restore"
        /\ MayConnect(b)
        /\ Extend(b, given[b])
        /\ IF left = {b}
           THEN EndSwitch
           ELSE /\ left' = left \ {b}
                /\ UNCHANGED <<mode, fork, chosen, original, given>>
        /\ UNCHANGED <<altVars, immutable, invalid, bounds, byWeight>>
        /\ LockIn(locked, everLocked)

\* "PANIC! failed to add (again) block while chain switching": the rest of the
\* original chain is lost.
RestoreFails ==
    LET b == NextToConnect
    IN  /\ mode = "restore"
        /\ MayFail(b)
        /\ invalid' = invalid \cup MarkedInvalid(b)
        /\ AbortBlock(b, given[b])
        /\ byWeight' = FALSE
        /\ EndSwitch
        /\ UNCHANGED <<chainVars, altVars, immutable, bounds>>
        /\ LockIn(locked, everLocked)

-----------------------------------------------------------------------------
(* What else changes the chain and its checkpoints.                        *)

\* quorum_cop::handle_checkpoint_vote has the votes for a block, which need not
\* be the one this node has at the height.
FormCheckpoint(c) ==
    /\ mode = "idle"
    /\ Height[c] < Height[top] + 1
    /\ cps' = Store(cps, c)
    /\ byWeight' = FALSE
    /\ UNCHANGED <<chainVars, altVars, immutable, last_cull, invalid,
                   switchVars, bounds>>
    /\ LockIn(locked, everLocked)

\* pop_blocks (a command of the operator) leaves block b on top.
PopBlocks(b) ==
    /\ mode = "idle"
    /\ pops < MaxPops
    /\ pops' = pops + 1
    /\ top' = b
    /\ chain' = PoppedTo(b)
    /\ CheckpointsDetach(Height[b] + 1)
    /\ byWeight' = FALSE
    /\ UNCHANGED <<altVars, immutable, invalid, switchVars, restarts>>
    /\ LockIn({}, {})

\* The daemon restarts: checkpoints::init and an empty m_invalid_blocks.  The
\* alternative blocks are dropped, unless --keep-alt-blocks is given.
Restart ==
    /\ mode = "idle"
    /\ restarts < MaxRestarts
    /\ restarts' = restarts + 1
    /\ immutable' = 0 /\ last_cull' = 0
    /\ invalid' = {}
    /\ \/ alt' = {} /\ altcp' = [b \in Block |-> None]
       \/ UNCHANGED altVars
    /\ UNCHANGED <<chainVars, cps, switchVars, pops, byWeight>>
    /\ LockIn({}, everLocked)

Next ==
    \/ \E b \in Block \ {Genesis} :
          \/ \E c \in Offered(b) : \/ AddToMainChain(b, c)
                                   \/ KeepMainChain(b, c)
                                   \/ BeginSwitch(b, c)
          \/ RefuseAlternative(b)
    \/ ConnectNext
    \/ ConnectFails
    \/ RestoreNext
    \/ RestoreFails
    \/ \E c \in Signed : FormCheckpoint(c)
    \/ \E b \in chain : PopBlocks(b)
    \/ Restart

Spec == Init /\ [][Next]_vars

-----------------------------------------------------------------------------
(* Properties.                                                             *)

\* Everything has its type, and the top block and the fork of a switch are on
\* the main chain (pop_block_from_blockchain stops in time).
TypeOK ==
    /\ chain \subseteq Block /\ Genesis \in chain
    /\ top \in chain /\ fork \in chain
    /\ alt \subseteq Block \ {Genesis}
    /\ altcp \in [Block -> Signed \cup {None}]
    /\ cps \subseteq Signed \cup {Genesis}
    /\ immutable \in Nat /\ last_cull \in Nat
    /\ invalid \subseteq Block
    /\ mode \in {"idle", "connect", "restore"}
    /\ chosen \subseteq Block /\ left \subseteq Block /\ original \subseteq Block
    /\ given \in [Block -> Signed \cup {None}]
    /\ pops \in 0..MaxPops /\ restarts \in 0..MaxRestarts
    /\ locked \subseteq everLocked /\ everLocked \subseteq Block
    /\ byWeight \in BOOLEAN

\* The main chain is one path of the tree from Genesis to top, also in the
\* middle of a switch and of its rollback, which put it together block by block
\* (switch_to_alternative_blockchain, rollback_blockchain_switching).
ChainIsPath == chain = Path(top)

\* Two checkpoints lock in the blocks at and below the first of them: no
\* alternative chain ever replaces such a block, not even when it has more
\* checkpoints (is_alternative_block_allowed and m_immutable_height).
LockedIn == locked \subseteq chain

\* The same over restarts of the daemon ("blocks preceeding the N checkpoints
\* are locked in", service_node_rules.h).
LockedInForGood == everLocked \subseteq chain

\* A reorganisation or a rollback leaves no checkpoint behind for a height that
\* the chain has not reached; check_block would hold it against the next block.
CheckpointsOnChain == \A c \in cps : Height[c] <= Height[top]

\* A switch that fails gives back the main chain it started from with its
\* checkpoints, unless a block of that chain fails to connect again
\* (rollback_blockchain_switching).
RollbackRestores ==
    [][mode = "restore" /\ mode' = "idle" /\ ~RestoreFails =>
        /\ original \subseteq chain'
        /\ top' = Highest(original)
        /\ \A b \in original : given[b] # None => given[b] \in cps']_vars

\* As long as no checkpoint and no operator has interfered, no alternative
\* block the node holds ends a heavier chain than the main chain, unless a block
\* on it can fail: the choice made block by block, always against the part of
\* the main chain above the fork, is the best of all.
HeaviestChain ==
    mode = "idle" /\ byWeight =>
        \A a \in alt : Path(a) \cap (Bad \cup Flaky) = {} =>
            ChainWeight(Path(a)) <= ChainWeight(chain)

\* A chain gives way to one with more checkpoints, or as many checkpoints and
\* more weight (the comment on alt_chain_wins).
MoreCheckpointsWin ==
    [][mode = "idle" /\ mode' = "connect" =>
        Cardinality({b \in original' : b \in cps})
            <= Cardinality({b \in chosen' : given'[b] # None})]_vars
=============================================================================
