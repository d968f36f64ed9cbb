# A TLA+ model of oxen-core

Oxen is a proof-of-stake blockchain whose blocks, checkpoints and instant
transactions are made by quorums of *service nodes*. This directory holds TLA+
specifications of the parts of the daemon (`oxend`) in which several nodes or
several threads have to agree, TLC configurations that check them on small
instances, and TLAPS proofs that hold for instances of every size.

Paths below are relative to the repository; `pulse.cpp` is
`src/cryptonote_core/pulse.cpp`.

## Parts of the system and where they are modelled

| Part | Code | Modules |
|---|---|---|
| Pulse, the production of a block by a quorum | `cryptonote_core/pulse.cpp`, `pulse.h` | `Pulse`, `MCPulse`, `MCPulseLive` |
| Proofs about Pulse | | `PulseProofs`, `PulseStages`, `PulseTheorems` |
| The choice between chains, reorganisations, checkpoints | `cryptonote_core/blockchain.cpp`, `checkpoints/checkpoints.cpp` | `ForkChoice`, `MCForkChoice`, `ForkChoiceProofs`, `ForkWeights` |
| What the fork choice promises: a switch is one step | | `MainChain`, `ForkRefinement` |
| Voting for checkpoints and the vote pool | `cryptonote_core/service_node_quorum_cop.cpp`, `service_node_voting.cpp` | `CheckpointVotes`, `MCCheckpointVotes`, `CheckpointVotesProofs` |
| What voting promises: a checkpoint is final | | `CheckpointConsensus`, `CheckpointRefinement` |
| Blink quorums and conflicting transactions in the pool | `cryptonote_protocol/quorumnet.cpp`, `cryptonote_core/tx_blink.cpp`, `tx_pool.cpp`, `cryptonote_protocol/cryptonote_protocol_handler.inl` | `Blink`, `MCBlink`, `BlinkSteps`, `BlinkProofs` |
| What blinks promise: an approval is final | | `BlinkConsensus`, `BlinkRefinement` |

How the parts meet: Pulse makes blocks, several for a height when rounds fail on
some nodes. Blocks reach a node in any order and `ForkChoice` decides which of
them are its chain. The chain's blocks are voted on (`CheckpointVotes`), and the
checkpoints made of the votes bind the choice between chains. In `ForkChoice` a
checkpoint may appear for any block that the votes may be for (`Signed`);
`CheckpointVotes` shows that there is at most one such block for a height. In
`CheckpointVotes` the chain grows and is cut back freely; `ForkChoice` shows how
far that goes. `Blink` is about transactions before they are in a block and does
not depend on the other modules.

## Pulse

For every block a quorum of 11 validators and one block producer is drawn from
the service nodes. In a *round* the validators exchange handshakes, then the
bitsets of the handshakes they saw; a bitset that 7 of them sent is *locked
in*. The producer sends a block template; the locked-in validators commit to a
random value by its hash, reveal it, put the hash of all values in the block
and sign it. Seven signatures make the block. Every stage has an end time; a
stage that fails sends the node to the next round.

`Pulse.tla` models each node's `round_context` and the code that changes it.

* `pulse::main` and `pulse::handle_message` run on one thread of a node. One
  action is one iteration of main's loop (`NullState` ...
  `SendAndWaitForSignedBlocks`, one per `round_state`) or one call of
  `handle_message` (`HandleMessage`). Main's loop runs on while the state
  changes: `running` holds the nodes inside of it, which take no message.
* `net` is the set of messages relayed so far. A message may reach a node at
  any later time, in any order, again, or never: loss, duplication and
  reordering are all there. Storing a message relays it, as the last lines of
  `handle_message` do.
* A message is what its signature binds: the key that signed it, the top block
  hash (not in a block template's signature, as in `msg_signature_hash`), the
  round and the contents. `msg_signature_check` does not look at the round the
  node is in.
* `rcv` are the messages stored in the context, `early` the queues for stages
  that have not begun, `sent` the one-time flags, `best` the locked-in bitset,
  `value` the node's random value, `final` the final block.
* `Blake2b` is an injective wrapper. The random value of a block is the
  function from positions to values whose hash the code takes.
* Time is counted in stage timeouts (10 s), and every node has its own clock
  (`Skew`). `Tick` is external.
* `AddBlock` and `ReceiveBlock` are the blockchain as Pulse sees it: a tip that
  only grows. `handle_block_found` may fail whenever it is called (a missing
  transaction, a block the node already has, a block that does not verify).
* `Restart` drops the context, which exists in memory only. At most
  `MaxRestarts` nodes do so.
* `found` and `restarted` are history variables.

The quorum of a round is a parameter, `Validator(top, round, p)` and
`Producer(top, round)`: in the code it is generated from the active service
nodes and the entropy of the chain.

### Runs

`MCPulse` instantiates quorums of two or three validators and a producer with
Required = 2 (the smallest quorums with the majority that 7 of 11 is).
Restrictions on the order of steps are in `MCPulse` (action constraints of a
run, or conjuncts of `LateSpec`, `FairSpec` and `SynchronousSpec`), with the
reason beside each: a node whose stage is complete goes on before others
move (its steps read nothing the others change), the time passes only when no
node can leave its state (main is called 20 times in a stage), and messages that
nothing will read are not stored. `NoFaults`, `NoneEarly`, `RestartOnce`,
`StayDown` and `Deliveries` leave out behaviours to make room for others; what
one run leaves out another has.

| Run | Shows |
|---|---|
| `pulse_round` | One round, all deliveries, losses, early messages and failing steps, with two random values to choose from. `CommitBeforeReveal`, `CompleteBlocks`; `SignersAgree`: nodes that reach the signatures, each by its own messages and timeouts, sign the same block; `RoundsEnd`: every round a node enters ends. |
| `pulse_restart` | A validator restarts after it has drawn its random value and draws another. `Agreement`: still at most one block is completed. |
| `pulse_rounds` | Two rounds; a validator and the producer change places. `SingleVoice`: no node signs two messages of a type in a round, although messages of the first round arrive in the second. |
| `pulse_lock_in` | Three validators which hear different handshakes and bitsets. `LockInAgreement`. |
| `pulse_synchronous` | A validator is down, nothing else fails: a block is produced. |
| `pulse_stale_round` | Violated on purpose, see *Findings*. |
| `pulse_position_zero_down` | Violated on purpose, see *Findings*. |

`SignersAgree` is about what is signed, `Agreement` about what is completed. A node
could sign another block than the rest without any block being completed: the round
would be lost. The property is stated for nodes that counted messages of their own
round (see *Findings*), and it excludes a restart of the producer or a participant,
who may draw another value and send it to those who have not heard the first.

A failing step (`Fault` in `MCPulse`) gives up the round although nothing is missing: a
relay of the handshake or the bitset that throws, a producer that cannot make a
template, a template that is rejected, a block that is refused. A relay that throws in a
later stage leaves `pulse::main` and is not modelled.

`CHECK_DEADLOCK FALSE`: the model ends when its last tick has passed.

*Fairness.* `FairSpec` assumes weak fairness of `Main(n)` (a timer calls
`pulse::main` every 500 ms, `core::start_oxenmq`) and of the clock, and nothing
of the network. `SynchronousSpec` adds what "no failure" means: messages arrive
within their stage.

### Proofs

The theorems hold for every number of nodes, validators, rounds, blocks and
restarts, every quorum assignment and all clocks, from the assumptions named in
`Pulse.tla`: `QuorumAssumption` (a quorum has distinct validators, none of which
is the producer) and `MajorityAssumption` (`NumValidators + MaxRestarts < 2 *
Required`; with 7 of 11 up to two restarted nodes).

| Theorem | Property |
|---|---|
| `TypeCorrect` | `TypeOK`; the round counter never passes its limit |
| `NodesSpeakOnce` | `SingleVoice` |
| `CommitmentsBind` | `CommitBeforeReveal` |
| `LockInsAgree` | `LockInAgreement` |
| `BlocksAgree` | `Agreement` |
| `BlocksComplete` | `CompleteBlocks` |
| `BuildersAgree` | `SignersAgree` |

None of these is inductive. The invariant `IInv` (in `PulseProofs`) says, of
every node, what its state implies about its role, its stored messages, the
handshakes in its bitset, the supporters of its locked-in bitset, its template,
the commitments it holds and its final block, each part of which is from a message it
holds (`NodeInv`, with `BuiltInv`); of every message in
existence, that its position is its sender's (`MessageInv`), and that its round
is over for the sender or is the one it is in and has marked as sent
(`SentInv`), from which follows that no second message of the type exists
(`VoiceInv`); and of every completed block that all participants signed it
(`FoundInv`). `SentInv` is the heart: a node never comes back to a round
because its top block, its round and its `queued` flag only go forward. The step
lemmas go through the actions conjunct by conjunct, in the order of the modules
`PulseProofs` (types, frames, control), `PulseStages` (stored messages, lock-in,
template, commitments) and `PulseTheorems` (messages, history). `PulseTheorems`
also shows that two sets of Required positions share a validator that has not
restarted (`HonestOverlap`), which gives `Agreement` and `LockInAgreement`, and
counts the first Required signatures (`FirstSigners`), which gives
`CompleteBlocks`. `SignersAgree` follows from `LockInAgreement`, `BuiltInv` and
`VoiceInv`: the nodes have the same participants, and the template and the values they
built the block from are the only ones that the producer and the participants sent.

Only model-checked: the liveness properties `RoundsEnd` and `BlockProduced`, which
need fairness and are out of the prover's reach.

## The choice between chains

`ForkChoice.tla` models one node: the blocks it may see are a tree (`Parent`),
each with a Pulse round or mined (`Mined`), a weight and a height.

* `chain`, `top` are the main chain, `alt`, `altcp` the alternative blocks in the
  database and the flag `checkpointed` that is stored with each, `cps` the
  checkpoints in the database, `immutable` and `last_cull` the two counters of
  `checkpoints` that live in memory, `invalid` is `m_invalid_blocks`.
* `AddToMainChain` is `add_new_block` for a block on top of the chain, with
  `checkpoints::block_add` and its culling. A block may come with a checkpoint.
* `KeepMainChain` and `BeginSwitch` are `handle_alternative_block` up to the
  decision: `build_alt_chain`, `is_alternative_block_allowed`, the weights and the
  numbers of checkpoints. `RefuseAlternative` is each of its refusals that leave
  a trace.
* `BeginSwitch`, `ConnectNext`, `ConnectFails`, `RestoreNext` and `RestoreFails`
  are `switch_to_alternative_blockchain` and `rollback_blockchain_switching`
  block by block, because each runs the hooks, which change checkpoints. They
  hold the blockchain lock: nothing else happens in between (`mode`).
* `FormCheckpoint` is a checkpoint made of votes, `PopBlocks` the operator's
  `pop_blocks`, `Restart` the restart, which resets what is in memory.
* The verification of a block's contents is an input: a block of `Bad` never
  connects and one of `Flaky` may fail. It fails before it is added, after it is added
  (`abort_block` pops it and runs the detached hooks), or after the last hook,
  `checkpoints::block_add`, which has culled and stored by then (`FailedAndDetached`).
* A block comes with no checkpoint or with one of its height (`Offered`), since a
  peer sends what its database has for the height (`handle_get_blocks`). The receiver
  checks the signatures (`service_node_list::verify_block`) and not that height and
  hash are those of the block; peers that send something else are not modelled.
* `locked`, `everLocked`, `byWeight` are history variables.

`MainChain.tla` says what the rest of the daemon may rely on, which looks at the
chain only between two handlers: the chain is kept, grows by a block (`Extend`),
gives way to another chain as a whole (`Replace`), which is heavier while only
weight has decided, or loses blocks when a chain that should be taken up again does
not connect any more (`Lose`); in none of these steps a settled block goes. Only the
operator's `Pop` and a `Restart` take a block off what is settled, and `commands`
counts these. In `ForkRefinement` the tip of `MainChain` is `top` between handlers,
and during a switch the top of the chain that it started from, which is gone from
`chain` by then and is found again in `original` or `fork`: the switch becomes one
step, that of its last block, and a rollback none at all.

| Run | Shows |
|---|---|
| `fork_choice` | Three chains and two forks, blocks in every order, with and without checkpoints, which are culled at the fourth block, failing blocks and switches, one pop or restart. About 73,000 states. `LockedIn`: what two checkpoints lock in stays. `CheckpointsOnChain`: no checkpoint is above the chain. `HeaviestChain`: without checkpoints the heaviest known chain wins. `RollbackRestores`: a failed switch leaves the old chain and its checkpoints. `ChainIsPath`: the main chain is a chain in every moment of a switch. `SwitchIsAtomic`: ForkChoice implements `MainChain`. |
| `fork_restart` | Violated on purpose, see *Findings*. |
| `fork_more_checkpoints` | Violated on purpose, see *Findings*. |

The checkpoint interval is 1 in the model's instance instead of 4, so that a tree
of nine blocks has several checkpoints on every chain; the operators keep the
interval as a parameter.

The path from Genesis to a block (`Path`) is the smallest set that has the block and
the parents of its blocks, and the weight of a chain (`ChainWeight`) is the number of
its weight units: both are what the code's loops compute, without a recursion, so
that they can be reasoned about. The 64-bit sums of the code do not overflow below
some 127,000 blocks of a fork and are not cut in the model.

### Proofs

The theorems hold for every tree of blocks, every weight, interval and set of
checkpoints, any number of pops and restarts.

| Theorem | Property |
|---|---|
| `ForkTypes` | `TypeOK` |
| `CheckpointsFollow` | `CheckpointsOnChain` |
| `LockedInBlocksStay` | `LockedIn` |
| `ChainStaysPath` | `ChainIsPath` |
| `RollbackGivesBack` | `RollbackRestores` |
| `HeaviestChainWins` (in `ForkWeights`) | `HeaviestChain` |
| `SwitchesAreAtomic` (in `ForkWeights`) | `SwitchIsAtomic`: ForkChoice implements `MainChain` |

They rest on four inductive invariants, each proved with the help of those before it.

* `FInv`: what a switch in progress relies on (`SwitchInv`: which blocks of the old
  and of the new chain are where, and which checkpoints they came with) and how the
  locked blocks relate to the fork (`LockInv`: no switch forks below the immutable
  height, and no locked block is above it).
* `RInv`: the main chain is the path to its top; what is left to connect, and what a
  rollback would connect, is a row of blocks, each the parent of the next, on top of
  the chain and of the fork (`PathInv`); no block is both on the main chain and
  alternative, but those that a switch has just connected (`AltInv`); a switch
  disconnects at most one checkpoint, because a second one would make the first
  immutable, and the rollback has put it back once its block is connected
  (`RestoreInv`). Facts about all paths are shown by induction over the tree, in the
  form of `TreeInduction`: a set of blocks that has Genesis and with each block its
  children has all blocks, or there would be a lowest one outside of it.
* `WeightInv`: while only weight has decided, nothing but Genesis is a checkpoint,
  and no alternative block whose path can be connected ends a heavier chain than the
  main chain. During a switch that is said of the chain it started from, which is
  lighter above the fork than the chosen chain; the only heavier path is the chosen
  one. A block that fails is on that path, so that the rollback returns to the
  heaviest chain. `Splits` cuts both chains at the fork, and weights add up
  (`WeightsAdd`): comparing what is above the fork compares the whole chains. Where
  the comparison is skipped because the main chain has no block above the fork, the
  front of the alternative chain is a child of the top block, which `WeightInv`
  excludes.
* `WholeInv`: in every moment of a switch the popped blocks and the path to the fork
  still are the path to one block, the old top; no block left to connect is among
  them; and a rollback never is outside of them. With `WeightInv` the last block of a
  switch makes a heavier chain than the old one (`SwitchGains`).

`SwitchesAreAtomic` takes the steps of `ForkChoice` one by one (`MainStep`): the last
`ConnectNext` is a `Replace`, `RestoreFails` a `Lose`, the last `RestoreNext` and all
others in between a `Keep`. That no settled block is lost there (`SettledInvariant`)
is `LockedIn` between two handlers, and follows during a switch from `LockInv`, since
the locked blocks are not above the fork.

The assumptions are those named in `ForkChoice.tla`: the blocks are a tree with
heights (`TreeAssumption`), the intervals are positive and Genesis is at a multiple
of them (`IntervalAssumption`), votes are for blocks at multiples of the interval
(`SignedAssumption`), rounds and the base weight are natural numbers
(`WeightAssumption`), and votes are for heights from
`CHECKPOINT_STORE_PERSISTENTLY_INTERVAL` on (`StoredAssumption`). The last one is
needed by `RollbackRestores`: `checkpoints::block_add` stores nothing below that
height, 60 blocks, so that a rollback there would lose a checkpoint. Checkpoints of
the modelled hard forks begin above it on mainnet, testnet, stagenet and devnet; on a
local devnet, whose Pulse hard fork is at height 40, the first ones do not.

## Voting for checkpoints

The validators of a height that is a multiple of 4 sign the block they have there;
13 signatures of 20 are a checkpoint. `CheckpointVotes.tla` models all nodes.

* `AddBlock` is `quorum_cop::block_add` with the checkpointing part of
  `process_quorums`: the node votes for every height between
  `m_last_checkpointed_height` (`last`) and the new block, its votes go through
  `handle_vote` like all others, and old votes expire. It runs under the
  blockchain lock and is one step. `Detach` is `blockchain_detached`.
* `VerifyVote`, `AddToPool` and `HandleCheckpointVote` are the three parts of
  `handle_vote` on a network thread, between which it holds no lock: the age
  check, the insertion under the pool's lock, which yields a copy of the votes, and
  the update of the checkpoint under the blockchain lock.
* `net` are the votes relayed so far; each may arrive never, late or again.
* `Restart` loses the pool and `m_last_checkpointed_height`. A node that
  restarts, or whose chain is cut back by more than the safety buffer, may vote
  twice for a height: `repeats` collects these nodes, at most `MaxRepeats`.

The run `checkpoint_votes` has four validators, 3 of 4 votes, two branches of two
blocks, one repeater. `MCCheckpointVotes` orders the voters' steps before one
collecting node's, whose thread then races with its own block thread: what other
nodes do with votes does not change which votes there are (`CollectorNext`, the
disjuncts of `Next` with these restrictions). About 140,000 states up to the
symmetry of the voters.

| Property | Theorem in `CheckpointVotesProofs` |
|---|---|
| `TypeOK`: also that the database has one checkpoint of a height | `VotesTyped` |
| `NoDoubleVote`: no validator outside of `repeats` signs two blocks of a height | `ValidatorsVoteOnce` |
| `QuorumBacked`: every stored checkpoint has enough real signatures and is on the chain | `CheckpointsBacked` |
| `CheckpointAgreement`: no two blocks of a height become checkpoints | `CheckpointsAgree` |
| `SignaturesKept`: no update takes a signature off a checkpoint | `SignaturesNeverLost` |
| `CheckpointsAreFinal`: `CheckpointVotes` implements `CheckpointConsensus` | `CheckpointsStayAgreed` |

`CheckpointConsensus` has no votes, pools or threads. The validators agree on blocks,
at most one of a height, and for good; a node may `Learn` what is agreed on, and may
`Drop` what it has stored from some height on, but not store another block instead.
`CheckpointRefinement` takes a block for agreed on as soon as the signatures for it
that exist are enough (`AgreedOn`), whether or not any node has collected them. This
says more than `CheckpointAgreement`, which is about the checkpoints made: no votes
still on their way, in a thread or in a pool, can make another checkpoint of the
height later, and `update_checkpoint`, which overwrites what the database has for a
height, never overwrites it with another block.

The theorems hold for any number of nodes and threads, any quorums, intervals and
lifetimes, from `QuorumAssumption` (a quorum has at most `CHECKPOINT_QUORUM_SIZE`
validators, and size + `MaxRepeats` < 2 * `CHECKPOINT_MIN_VOTES`; with 13 of 20 up
to five). `NoDoubleVote` is not inductive: `VoterInv` says that all a node has
signed is below its `last`. `CpInv` and `FormedInv` tie the checkpoints to the
signatures, `KnownInv` says that pools, threads and the network hold signed votes
only. `QuorumsOverlap` then finds in two quorums of a height a validator that voted
once. For the refinement, `Agreed` follows from these: one agreed block of a height
(`AgreeOnce`), and everything stored is agreed on (`StoredAgreed`), as signatures are
never taken back. `AddBlock` and `HandleCheckpointVote` are then a `Learn`, `Detach` is a
`Drop` and the others stutter (`ConsensusStep`).

`CHECK_DEADLOCK FALSE`: at the bound on the height no block can be added.

## Blink

A blink is a transaction that counts as final before it is in a block, because
the quorum of its height has approved it: two subquorums of up to 10 service
nodes, of which 7 have to sign in each. Adjacent quorum intervals share a
subquorum, so that blinks of different heights cannot both be approved when they
spend the same output.

`Blink.tla` models the members of the quorums that receive blinks and
signatures. All transactions of the model spend one output.

* A handler runs on one of several threads. `jobs` are the threads in the middle
  of one, and a step of a job is what the code does under one lock. `HandleBlink`
  stores the blink under `qnet.mutex`; `Verify`, `Add` and `Enter` are `add_new_blink`,
  which holds `m_transactions_lock` in between (`PoolLocked`): it looks whether the
  blink is approved, `add_tx` evicts and adds, and an approved blink is entered in
  `m_blinks` last, under the blink lock; `Sign` signs the
  verdict and enters `process_blink_signatures` (`Process`), whose approval is
  recorded (`Record`) and relayed (`RelayApproved`) under locks of their own.
  `HandleBlinkSignature` and `Delay` are the two look-ups of a signature's blink.
* `votes` are the signature slots of the `blink_tx`s, `known` and `pending` are
  `qnet.blinks`, `blinked` is `m_blinks`, `relay` are the transactions of the
  pool without `do_not_relay`.
* `sent` are the signatures on the network. They arrive in any order, again, or
  never.
* `NotifyNewTransactions` brings ordinary transactions and approved blinks, with
  or without their signatures, from the peer-to-peer network. `incoming` has the
  threads inside of the handler: `parse_incoming_blinks` looks at `m_blinks` without a
  lock that it keeps; then, under `m_incoming_tx_lock` (`IncomingLocked`),
  `ParseIncomingTxs` looks whether the pool has the transaction, `HandleParsedTxs`
  evicts and adds under `m_transactions_lock`, and `AddBlinks` enters the blink in
  `m_blinks` afterwards. Quorumnet threads run in between.
* `Restart` keeps the pool and loses the rest.

Only the nodes of `Node` are modelled in full. Of a member in `Peer` one sees its
signatures: one for every blink, and at most one approval of its own. That is what
the run shows of a node: it approves a second transaction only if that is approved
already.

The run `blink` has one full node, b, and two peers, each of which approves one of
two conflicting blinks. The first blink, of height 49, needs a and b (its base
subquorum is smaller than `BLINK_SUBQUORUM_SIZE`, so that one place counts as
rejected); the second, of height 50, needs any two of three. So b may be the one
that both blinks need, or may come after the others have decided. The thresholds
are 2 of 3 for 7 of 10: what matters is that two approvals share a member. b has
two threads, of either network, so that any two handlers overlap, and may restart once
after it has approved a blink, when no handler is running; after that it has one thread
(`RestartIdle` and `TwoThreads`, in `BusyNext`). A transaction without signatures comes
only while the pool is empty (`OfUse`): later it would change nothing. About 280,000
states.

| Property | What it says |
|---|---|
| `NoConflictingBlinks` | there are never enough approvals for two conflicting transactions, also after a restart |
| `VerdictsAgree` | without restarts, no node finds approved what the signatures there are show rejected, or the other way round |
| `NoForgottenSignature` | no signature stays in `pending_sigs` once its blink is known |
| `ApprovedIsRelayed` | an approved transaction in the pool is relayed, whenever the approval came |
| `Decided` | when nothing is left to do, no handler is stuck and every blink is approved or rejected |
| `ApprovalIsFinal` | Blink implements `BlinkConsensus` |

`Decided` stands for liveness: it is about the states in which no node has work
(`HasWork`: no blink or signature that it would take, no handler that can go on), so
it needs no fairness, and says that a quorum all of whose messages arrive comes to a
verdict.

`BlinkConsensus.tla` says what a recipient relies on, without quorums, signatures and
threads: of the transactions that spend one output at most one is ever approved
(`Decide`), nodes learn of that one only (`Learn`), what a node holds in its pool is
replaced by nothing but the approved transaction, which stays (`Hold`, `Adopt`), and
a restart makes a node forget what it learned but not what it holds (`Forget`). A node
may `Adopt` before it learns: `add_tx` evicts in one step, and `m_blinks` gets the entry
in a later one, under another lock. In
`BlinkRefinement` the decision is made by the signature in existence that completes
the approvals, wherever it is counted later; `blinked` and `pool` are what nodes have
learned and hold.

`VerdictsAgree` is limited to runs without a restart because it is false otherwise:
a restarted node finds the transaction it had approved in its own pool, takes it for a
double spend, and signs a rejection.

`CHECK_DEADLOCK FALSE`: the node stops when every blink is decided.

### Proofs

`BlinkSteps` and `BlinkProofs` prove, for any number of members, threads, blinks and
restarts and for quorums of any size:

| Theorem | Property |
|---|---|
| `BlinkTypes` | `TypeOK` |
| `SignaturesAreCounted` | `NoForgottenSignature` |
| `ConflictsAreNotApproved` | `NoConflictingBlinks` |
| `VerdictsNeverDiffer` | `VerdictsAgree` |
| `ApprovedBlinksAreRelayed` | `ApprovedIsRelayed` |
| `QuorumsDecide` | `Decided` |
| `ApprovalsAreFinal` | `ApprovalIsFinal`: Blink implements `BlinkConsensus` |

The assumptions are `QuorumAssumption` (a subquorum has distinct members, and the
votes needed are more than half of its places; 7 of 10), `IntervalAssumption` (the
quorum interval is at least 4, so that two heights accepted at the same time are in
the same or in adjacent intervals; it is 5) and
`InstanceAssumption` (of the parameters' types; every node has at least one thread).

The inductive invariant `Inv` has seven parts. `Types`. `SigInv`: signatures that nodes
hold have been sent, and pending ones are for unknown blinks. `FirstInv`: every
member has at most one blink that it approved on its own, which its pool proves; all
else that it approves was already approved by such first approvals. So two
approved blinks are approved by first approvals alone, they share a subquorum,
two majorities of that share a member, and the member's first approval was one blink
(`ConflictsAreNotApproved`); the argument does not depend on what a restart forgets,
because the pool stays. `OnceInv`: without restarts a member signs a blink once, in
one thread. `RelayInv`: of an approved blink, the transaction is recorded as a blink or
a thread is about to, and it is relayed, or a thread is about to set it relayable,
also when another thread is adding it to the pool. `SaidInv`: of a blink that a member
knows, it has counted its own verdict or a thread is about to give it, and all peers
have signed. So when there is no work left a member has counted every member's
signature of every blink of its quorum, and all places of a subquorum, the unused ones
included, are on one side or the other of the two thresholds (`QuorumsDecide`).
`LearnInv`: what a node takes for approved, or a thread of either network is about to
record as approved, is approved by the signatures in existence. This is what makes the
window between an eviction and the entry in `m_blinks` harmless: the double spend check
does not protect the approved transaction there, but only an approved blink evicts, and
at most one transaction is approved.

The steps are first reduced to eleven kinds of change to one node (`Stores`, `Counts`,
`Verifies`, ...), and each part of the invariant is shown for these. `ConsensusStep`
maps them to the steps of `BlinkConsensus`. `BlinkSteps` uses four facts about counting
(`CountingLaws`); `BlinkProofs` derives them from the theorems about finite sets, and
has the theorems.

## Findings

* `pulse_stale_round`: `handle_message` says a round mismatch "will be detected
  in the signature". It is not: the hash is computed with the message's own
  round, so a message of an earlier round of the same top block is stored when
  its sender has the same position now. `Agreement` and the others hold
  nevertheless; `LockInAgreement` is stated for nodes that counted bitsets of
  their own round.
* `pulse_position_zero_down`: the producer's template carries quorum position 0
  and is dropped, by the check for locked-in validators, whenever validator 0
  does not take part. The round then fails although enough validators are
  there.
* `fork_restart`: `service_node_rules.h` says that the blocks before two
  checkpoints "are locked in". When a reorganisation above them has removed the
  later checkpoint, only `m_immutable_height` protects them, and a restart resets
  it. In the run a1 comes with its checkpoint and a2 with checkpoint c2, which locks a1
  in; c2 wins by weight, and the switch drops checkpoint c2. After the restart b1
  comes with checkpoint a1 and b2 with checkpoint c2: their chain is lighter than that
  of a1 and c2 (20 against 26) and replaces it because two checkpoints count against
  one. `LockedIn`, which is about one run of the daemon, holds.
* `fork_more_checkpoints`: the switch is commented "More checkpoints or equal
  checkpoints and more weight", but the main chain's checkpoints are counted only
  at the heights of the alternative blocks. A checkpoint above the alternative
  chain's tip does not count.

Noted while reading, without a run: the comment before the choice of signatures
in `send_and_wait_for_signed_blocks` says they are selected randomly, but the
loop adds `indices[index]`, the first ones, and not `selected[index]`; the flow
comment says the block can be sent "as soon as the first N signatures arrive",
but the stage waits for all locked-in validators. After a failed switch
`remove_alt_block` is called with the hash of the failed block once for every block
after it, so that these stay in the database. `handle_alternative_block` fails to
read the main chain's blocks when the alternative chain forks at the tip.
`received_checkpoint_vote` reads the vote pool without its lock. A vote that comes
before its block is not looked at again when the block comes.

In the Blink code: `parse_incoming_blinks` never adds to the set of missing
transactions it returns, so `handle_notify_new_transactions` never removes a blink
"with unknown txs" and keeps the signatures of a transaction it refused. A member
that sees an approval over quorumnet before it has the transaction calls
`add_existing_blink`; a later copy with signatures is then filtered as known, and
the transaction does not evict a conflicting one, although `tx_pool.h` says an
approved blink "should be accepted even if it conflicts with mempool". The
comments of `handle_blink_success` and `handle_blink_failure` require an answer
from a majority of the remotes, while `common_blink_response` forwards the first.

## Not modelled

* Within Pulse: a reorganisation during a round, the failure of
  `get_round_timings`, and exceptions that leave `pulse::main`.
* Within the choice between chains: two rollbacks that connect no other chain. An
  approved blink may have the blocks with a conflicting transaction popped
  (`blink_rollback`; `remove_blink_conflicts` refuses when one is immutable), and a
  checkpoint file may (`update_checkpoints_from_json_file`). `RollbackRestores` and
  `HeaviestChain` do not speak of these.
* The obligations quorum of the quorum cop: its verdicts are functions of uptime
  proofs, reachability tests and statistics over time.
* The service node list, the name system and the verification of blocks and
  transactions are deterministic and sequential under one lock; their difficulty
  is in data, not in order.
* Within Blink: the replies to the submitter, the choice of peers, blocks that
  arrive meanwhile and the rollback of mined transactions. Of the transaction
  pool, only conflicts between transactions. A member that restarts and signs both
  ways has one verdict counted for its places in both subquorums, where the code may
  count one in each; no property rests on it (`VerdictsAgree` excludes restarts,
  `NoConflictingBlinks` counts all signatures that were sent, and `Decided` holds for
  the places of each subquorum by themselves).
* Block download and the L2 tracker: scheduling of connections and requests;
  their results are inputs of the modules above.
* Swarms, databases, P2P, RPC, wallets, cryptography and serialisation.
