------------------------------- MODULE Pulse -------------------------------
(***************************************************************************)
(* Block production by the Pulse quorum (src/cryptonote_core/pulse.cpp).   *)
(*                                                                         *)
(* Every node runs pulse::main and pulse::handle_message on one dedicated  *)
(* thread.  One action below is one iteration of main's loop (one state    *)
(* function) or one call of handle_message.  The network is the grow-only  *)
(* set of messages that some node has relayed: a message may reach a node  *)
(* at any later time, in any order, any number of times, or never.         *)
(***************************************************************************)
EXTENDS Integers, Sequences, FiniteSets

CONSTANTS
  Node,               \* the service nodes
  NumValidators,      \* PULSE_QUORUM_NUM_VALIDATORS (11)
  Required,           \* PULSE_BLOCK_REQUIRED_SIGNATURES (7)
  MaxRound,           \* the last round of a block (255)
  Validator(_, _, _), \* Validator(top, round, p): the validator at position p
  Producer(_, _),     \* Producer(top, round): workers[0]
  EnoughNodes(_),     \* verify_pulse_quorum_sizes for the blocks after top
  Round0Start(_),     \* Round0Start(top): round_0_start_time, in stage timeouts
  Skew,               \* how far each node's clock is ahead of the real time
  Payload,            \* what a producer may put in a block template
  RandomValue,        \* the random values a validator may draw
  NoValue,            \* a random value not drawn yet
  MaxRestarts,        \* bound: how many nodes may lose their context
  MaxBlocks,          \* bound: how many blocks may be added after the first
  MaxTime             \* bound: the last tick of the real time

Pos   == 0 .. NumValidators - 1
Round == 0 .. MaxRound
Hash  == 0 .. MaxBlocks   \* a block hash: the index of the block in "blocks"
NoHash == -1              \* crypto::hash{}, the top hash of a fresh context

ASSUME SizeAssumption ==
  /\ NumValidators \in Nat \ {0}
  /\ Required \in Nat
  /\ MaxRound \in Nat
  /\ MaxRestarts \in Nat
  /\ MaxBlocks \in Nat
  /\ MaxTime \in Nat

(* 7 of 11 signatures: any two sets of signers share more validators than  *)
(* may have lost their context.                                            *)
ASSUME MajorityAssumption ==
  /\ Required <= NumValidators
  /\ NumValidators + MaxRestarts < 2 * Required

ASSUME QuorumAssumption ==
  \A t \in Hash, r \in Round :
    /\ Producer(t, r) \in Node
    /\ \A p \in Pos : Validator(t, r, p) \in Node \ {Producer(t, r)}
    /\ \A p, q \in Pos : Validator(t, r, p) = Validator(t, r, q) => p = q

ASSUME ValueAssumption ==
  /\ NoValue \notin RandomValue
  /\ \A t \in Hash : EnoughNodes(t) \in BOOLEAN

ASSUME ClockAssumption ==
  /\ \A t \in Hash : Round0Start(t) \in Nat
  /\ Skew \in [Node -> Int]

-----------------------------------------------------------------------------
(* enum round_state, in the order the comparisons of the code rely on.     *)

null_state                            == 0
wait_for_next_block                   == 1
prepare_for_round                     == 2
wait_for_round                        == 3
send_and_wait_for_handshakes          == 4
send_handshake_bitsets                == 5
wait_for_handshake_bitsets            == 6
send_block_template                   == 7
wait_for_block_template               == 8
send_and_wait_for_random_value_hashes == 9
send_and_wait_for_random_value        == 10
send_and_wait_for_signed_blocks       == 11
round_state == 0 .. 11

(* enum message_type, without "invalid" which every receiver drops.        *)
handshake         == 1
handshake_bitset  == 2
block_template    == 3
random_value_hash == 4
random_value      == 5
signed_block      == 6
message_type == 1 .. 6

(* The stage that waits for the messages of a type.                        *)
StageOf(type) ==
  CASE type = handshake         -> send_and_wait_for_handshakes
    [] type = handshake_bitset  -> wait_for_handshake_bitsets
    [] type = block_template    -> wait_for_block_template
    [] type = random_value_hash -> send_and_wait_for_random_value_hashes
    [] type = random_value      -> send_and_wait_for_random_value
    [] type = signed_block      -> send_and_wait_for_signed_blocks

(* blake2b_hash of a random value: known only to who knows the value.      *)
Blake2b(v) == <<"blake2b", v>>

Bitset == SUBSET Pos
Template == [prev : Hash, round : Round, bitset : Bitset, payload : Payload]
Seed == UNION {[B -> RandomValue] : B \in Bitset}
FinalBlock == [prev : Hash, round : Round, bitset : Bitset, payload : Payload,
               rand : Seed]

(* A message as its signature binds it.  "from" is the key that signed it, *)
(* "top" the top block hash in the signed data: msg_signature_hash leaves  *)
(* the top block hash out of a block template's.                           *)
Message ==
  [type : {handshake}, from : Node, top : Hash, round : Round, pos : Pos]
  \cup [type : {handshake_bitset}, from : Node, top : Hash, round : Round,
        pos : Pos, bitset : Bitset]
  \cup [type : {block_template}, from : Node, round : Round, pos : {0},
        block : Template]
  \cup [type : {random_value_hash}, from : Node, top : Hash, round : Round,
        pos : Pos, hash : {Blake2b(v) : v \in RandomValue}]
  \cup [type : {random_value}, from : Node, top : Hash, round : Round,
        pos : Pos, value : RandomValue]
  \cup [type : {signed_block}, from : Node, top : Hash, round : Round,
        pos : Pos, signed : FinalBlock]

NoBlock == [round |-> -1]   \* cryptonote::block{}

VARIABLES
  now,       \* the real time, in units of PULSE_STAGE_TIMEOUT
  tip,       \* tip[n]: the top block of n's blockchain
  blocks,    \* the blocks some node has added to its chain, as a sequence
  net,       \* the messages relayed so far
  state,     \* context.state
  running,   \* the nodes inside pulse::main's loop, which handle no message
  top,       \* context.wait_for_next_block.top_hash
  round,     \* context.prepare_for_round.round
  queued,    \* the nodes with prepare_for_round.queue_for_next_round set
  rcv,       \* the messages stored in context.transient
  early,     \* the messages in the stages' queues, state "received"
  sent,      \* the message types whose "sent" flag is set
  best,      \* wait_for_handshake_bitsets.best_bitset
  value,     \* random_value.send.data
  final,     \* signed_block.final_block
  found,     \* history: what was handed to core::handle_block_found
  restarted  \* history: the nodes that lost their context

chainVars     == <<tip, blocks>>
roundVars     == <<top, round, queued>>
transientVars == <<rcv, early, sent, best, value, final>>
historyVars   == <<found, restarted>>
vars == <<now, chainVars, net, state, running, roundVars, transientVars,
          historyVars>>

Clock(n) == now + Skew[n]
EndTime(n, stage) == Round0Start(top[n]) + 6 * round[n] + stage
TimedOutNotLast(n, stage) == stage < 6 /\ Clock(n) >= EndTime(n, stage)
TimedOut(n, stage) == Clock(n) >= EndTime(n, stage)

IsProducer(n)  == n = Producer(top[n], round[n])
IsValidator(n) == \E p \in Pos : n = Validator(top[n], round[n], p)
MyPosition(n)  == CHOOSE p \in Pos : n = Validator(top[n], round[n], p)

Stored(msgs, type) == {m \in msgs : m.type = type}
Bits(msgs, type)   == {m.pos : m \in Stored(msgs, type)}

BitsetGeqAny(S, T) == S # {}

(* stage.bitset >= best_bitset, an unsigned comparison of two bit masks.   *)
BitsetGeq(S, T) == S = T \/ \E p \in S \ T : \A q \in T \ S : q < p

-----------------------------------------------------------------------------
(* handle_message                                                          *)

(* The signature holds for n's top hash and the key n's quorum has at that *)
(* position.  The round in the signed data is the message's own.           *)
msg_signature_check(n, m) ==
  IF m.type = block_template
  THEN m.pos = 0 /\ m.from = Producer(top[n], round[n])
  ELSE m.from = Validator(top[n], round[n], m.pos) /\ m.top = top[n]

(* After the bitset is locked in, only its validators are listened to.     *)
LockedIn(n, m) ==
  state[n] > wait_for_handshake_bitsets /\ m.type > handshake_bitset
    => m.pos \in best[n]

AcceptsAnyValue(n, msgs, m) ==
  /\ LockedIn(n, m)
  /\ m.pos \notin Bits(msgs, m.type)
  /\ m.type = block_template =>
       m.block.round = round[n] /\ m.block.bitset = best[n]
  /\ m.type = signed_block => m.signed = final[n]

(* handle_message stores m when n already holds the messages msgs.         *)
Accepts(n, msgs, m) ==
  /\ LockedIn(n, m)
  /\ m.pos \notin Bits(msgs, m.type)
  /\ m.type = block_template =>
       m.block.round = round[n] /\ m.block.bitset = best[n]
  /\ m.type = random_value =>
       \A h \in Stored(msgs, random_value_hash) :
         h.pos = m.pos => h.hash = Blake2b(m.value)
  /\ m.type = signed_block => m.signed = final[n]

(* A message arrives over quorumnet.  One that changes nothing is dropped. *)
HandleMessage(n, m) ==
  /\ n \notin running
  /\ state[n] >= wait_for_round
  /\ msg_signature_check(n, m)
  /\ \/ /\ state[n] < StageOf(m.type)
        /\ m.pos \notin Bits(early[n], m.type)
        /\ early' = [early EXCEPT ![n] = @ \cup {m}]
        /\ UNCHANGED rcv
     \/ /\ state[n] >= StageOf(m.type)
        /\ Accepts(n, rcv[n], m)
        /\ rcv' = [rcv EXCEPT ![n] = @ \cup {m}]
        /\ UNCHANGED early
  /\ UNCHANGED <<now, chainVars, net, state, running, roundVars, sent, best,
                 value, final, historyVars>>

(* What n holds once it has handled its own messages of a stage and then   *)
(* the ones queued for it (handle_messages_received_early_for).            *)
Collect(n, own, type) ==
  LET mine == rcv[n] \cup {m \in own : Accepts(n, rcv[n], m)}
  IN  mine \cup {m \in Stored(early[n], type) : Accepts(n, mine, m)}

(* The send half of a stage, done once, and its early messages.  Storing a *)
(* message relays it.                                                      *)
SendAndCollect(n, own, type) ==
  /\ rcv'   = [rcv EXCEPT ![n] = Collect(n, own, type)]
  /\ net'   = net \cup Collect(n, own, type)
  /\ early' = [early EXCEPT ![n] = @ \ Stored(@, type)]
  /\ sent'  = [sent EXCEPT ![n] = @ \cup {m.type : m \in own}]

(* msg_init_from_context with the contents of a stage's message, which n   *)
(* sends on its first iteration in the stage.                              *)
MyHandshake(n) ==
  IF handshake \in sent[n] THEN {}
  ELSE {[type |-> handshake, from |-> n, top |-> top[n], round |-> round[n],
         pos |-> MyPosition(n)]}

MyHandshakeBitset(n) ==
  [type |-> handshake_bitset, from |-> n, top |-> top[n], round |-> round[n],
   pos |-> MyPosition(n), bitset |-> Bits(rcv[n], handshake)]

MyBlockTemplate(n, payload) ==
  [type |-> block_template, from |-> n, round |-> round[n], pos |-> 0,
   block |-> [prev |-> tip[n], round |-> round[n], bitset |-> best[n],
              payload |-> payload]]

MyRandomValueHash(n) ==
  IF random_value_hash \in sent[n] THEN {}
  ELSE {[type |-> random_value_hash, from |-> n, top |-> top[n],
         round |-> round[n], pos |-> MyPosition(n), hash |-> Blake2b(value[n])]}

MyRandomValue(n) ==
  IF random_value \in sent[n] THEN {}
  ELSE {[type |-> random_value, from |-> n, top |-> top[n],
         round |-> round[n], pos |-> MyPosition(n), value |-> value[n]]}

MySignedBlock(n) ==
  IF signed_block \in sent[n] THEN {}
  ELSE {[type |-> signed_block, from |-> n, top |-> top[n],
         round |-> round[n], pos |-> MyPosition(n), signed |-> final[n]]}

-----------------------------------------------------------------------------
(* The state functions of pulse::main.  The loop runs on while the state   *)
(* changes.                                                                *)

Goto(n, s) ==
  /\ state'   = [state EXCEPT ![n] = s]
  /\ running' = IF s # state[n] THEN running \cup {n} ELSE running \ {n}

goto_preparing_for_next_round(n) ==
  /\ Goto(n, prepare_for_round)
  /\ queued' = queued \cup {n}
  /\ UNCHANGED <<top, round>>

clear_transient(n) ==
  /\ rcv'   = [rcv EXCEPT ![n] = {}]
  /\ early' = [early EXCEPT ![n] = {}]
  /\ sent'  = [sent EXCEPT ![n] = {}]
  /\ best'  = [best EXCEPT ![n] = {}]
  /\ value' = [value EXCEPT ![n] = NoValue]
  /\ final' = [final EXCEPT ![n] = NoBlock]

goto_wait_for_next_block_and_clear_round_data(n) ==
  /\ Goto(n, wait_for_next_block)
  /\ round'  = [round EXCEPT ![n] = 0]
  /\ queued' = queued \ {n}
  /\ clear_transient(n)
  /\ UNCHANGED top

NullState(n) ==
  /\ state[n] = null_state
  /\ Goto(n, wait_for_next_block)
  /\ UNCHANGED <<now, chainVars, net, roundVars, transientVars, historyVars>>

(* Stays while the tip is the block Pulse has already tried to build on.   *)
WaitForNextBlock(n) ==
  /\ state[n] = wait_for_next_block
  /\ \/ /\ top[n] = tip[n]
        /\ Goto(n, wait_for_next_block)
        /\ UNCHANGED roundVars
     \/ /\ top[n] # tip[n]
        /\ Goto(n, prepare_for_round)
        /\ top'    = [top EXCEPT ![n] = tip[n]]
        /\ round'  = [round EXCEPT ![n] = 0]
        /\ queued' = queued \ {n}
  /\ UNCHANGED <<now, chainVars, net, transientVars, historyVars>>

(* The round the clock is in.                                              *)
ClockRound(n) ==
  IF Clock(n) <= Round0Start(top[n]) THEN 0
  ELSE (Clock(n) - Round0Start(top[n])) \div 6

NextRoundAgain(n) ==
  IF ClockRound(n) > round[n] THEN ClockRound(n) ELSE round[n]

(* The round to prepare: the next one if a stage failed, or a later one if *)
(* the clock says so.                                                      *)
NextRound(n) ==
  LET r == IF n \in queued THEN round[n] + 1 ELSE round[n]
  IN  IF ClockRound(n) > r THEN ClockRound(n) ELSE r

StalledLate(n) ==
  \/ n \in queued /\ (round[n] > MaxRound \/ top[n] # tip[n])
  \/ ClockRound(n) > MaxRound
  \/ ~EnoughNodes(top[n])

(* Pulse gives up on this top block.                                       *)
Stalled(n) ==
  \/ n \in queued /\ (round[n] >= MaxRound \/ top[n] # tip[n])
  \/ ClockRound(n) > MaxRound
  \/ ~EnoughNodes(top[n])

PrepareForRound(n) ==
  /\ state[n] = prepare_for_round
  /\ \/ /\ Stalled(n)
        /\ goto_wait_for_next_block_and_clear_round_data(n)
     \/ /\ ~Stalled(n)
        /\ clear_transient(n)
        /\ round'  = [round EXCEPT ![n] = NextRound(n)]
        /\ queued' = queued \ {n}
        /\ Goto(n, wait_for_round)
        /\ UNCHANGED top
  /\ UNCHANGED <<now, chainVars, net, historyVars>>

WaitForRound(n) ==
  /\ state[n] = wait_for_round
  /\ \/ /\ top[n] # tip[n]
        /\ goto_wait_for_next_block_and_clear_round_data(n)
     \/ /\ top[n] = tip[n]
        /\ \/ /\ ~TimedOut(n, 0)
              /\ Goto(n, wait_for_round)
              /\ UNCHANGED roundVars
           \/ /\ TimedOut(n, 0) /\ IsValidator(n)
              /\ Goto(n, send_and_wait_for_handshakes)
              /\ UNCHANGED roundVars
           \/ /\ TimedOut(n, 0) /\ IsProducer(n)
              /\ Goto(n, wait_for_handshake_bitsets)
              /\ UNCHANGED roundVars
           \/ /\ TimedOut(n, 0) /\ ~IsValidator(n) /\ ~IsProducer(n)
              /\ goto_preparing_for_next_round(n)
        /\ UNCHANGED transientVars
  /\ UNCHANGED <<now, chainVars, net, historyVars>>

(* Relaying the handshake may throw, before or after it reached some peer. *)
SendAndWaitForHandshakes(n) ==
  /\ state[n] = send_and_wait_for_handshakes
  /\ \/ /\ SendAndCollect(n, MyHandshake(n), handshake)
        /\ LET got == Bits(Collect(n, MyHandshake(n), handshake), handshake)
           IN  Goto(n, IF got = Pos \/ TimedOut(n, 1)
                       THEN send_handshake_bitsets
                       ELSE send_and_wait_for_handshakes)
        /\ UNCHANGED <<roundVars, best, value, final>>
     \/ /\ MyHandshake(n) # {}
        /\ net' \in {net, net \cup MyHandshake(n)}
        /\ goto_preparing_for_next_round(n)
        /\ UNCHANGED transientVars
  /\ UNCHANGED <<now, chainVars, historyVars>>

(* The stage that handles it has not begun: the bitset is put in the early *)
(* queue, unless n's slot there is taken, and is relayed from there.       *)
(* Making and signing it may throw before it is queued.                    *)
SendHandshakeBitsets(n) ==
  /\ state[n] = send_handshake_bitsets
  /\ \/ /\ early' = IF MyPosition(n) \in Bits(early[n], handshake_bitset)
                    THEN early
                    ELSE [early EXCEPT ![n] = @ \cup {MyHandshakeBitset(n)}]
        /\ Goto(n, wait_for_handshake_bitsets)
        /\ UNCHANGED roundVars
     \/ /\ goto_preparing_for_next_round(n)
        /\ UNCHANGED early
  /\ UNCHANGED <<now, chainVars, net, rcv, sent, best, value, final,
                 historyVars>>

(* The bitsets that at least k validators sent, and with n among them.     *)
AgreedBy(n, msgs, k) ==
  {B \in Bitset \ {{}} :
     /\ Cardinality({m.pos : m \in {x \in Stored(msgs, handshake_bitset) :
                                      x.bitset = B}}) >= k
     /\ IsValidator(n) => MyPosition(n) \in B}

LockableByFewer(n, msgs) == AgreedBy(n, msgs, Required - 1)

LockableByMore(n, msgs) == AgreedBy(n, msgs, Required + 1)

(* More than half must agree, so there is at most one.                     *)
Lockable(n, msgs) == AgreedBy(n, msgs, Required)

WaitForHandshakeBitsets(n) ==
  /\ state[n] = wait_for_handshake_bitsets
  /\ SendAndCollect(n, {}, handshake_bitset)
  /\ LET msgs == Collect(n, {}, handshake_bitset)
         done == TimedOut(n, 2) \/ Bits(msgs, handshake_bitset) = Pos
     IN  \/ /\ ~done
            /\ Goto(n, wait_for_handshake_bitsets)
            /\ UNCHANGED <<roundVars, best>>
         \/ /\ done /\ Lockable(n, msgs) = {}
            /\ goto_preparing_for_next_round(n)
            /\ UNCHANGED best
         \/ /\ done
            /\ \E B \in Lockable(n, msgs) : best' = [best EXCEPT ![n] = B]
            /\ Goto(n, IF IsProducer(n) THEN send_block_template
                       ELSE wait_for_block_template)
            /\ UNCHANGED roundVars
  /\ UNCHANGED <<now, chainVars, value, final, historyVars>>

(* The producer may not be active or not be able to make a template.  Its  *)
(* template carries quorum position 0.  It goes to the validators only.    *)
SendBlockTemplate(n) ==
  /\ state[n] = send_block_template
  /\ \/ /\ goto_preparing_for_next_round(n)
        /\ UNCHANGED <<net, transientVars>>
     \/ /\ tip[n] # top[n]
        /\ goto_wait_for_next_block_and_clear_round_data(n)
        /\ UNCHANGED net
     \/ /\ tip[n] = top[n]
        /\ \E x \in Payload : net' = net \cup {MyBlockTemplate(n, x)}
        /\ goto_preparing_for_next_round(n)
        /\ UNCHANGED transientVars
  /\ UNCHANGED <<now, chainVars, historyVars>>

(* A validator that does not find the block's L2 events in its own mempool *)
(* and L2 tracker rejects the template.                                    *)
WaitForBlockTemplate(n) ==
  /\ state[n] = wait_for_block_template
  /\ SendAndCollect(n, {}, block_template)
  /\ LET received == Bits(Collect(n, {}, block_template), block_template) # {}
     IN  \/ /\ received
            /\ \E v \in RandomValue : value' = [value EXCEPT ![n] = v]
            /\ Goto(n, send_and_wait_for_random_value_hashes)
            /\ UNCHANGED roundVars
         \/ /\ received \/ TimedOut(n, 3)
            /\ goto_preparing_for_next_round(n)
            /\ UNCHANGED value
         \/ /\ ~received /\ ~TimedOut(n, 3)
            /\ Goto(n, wait_for_block_template)
            /\ UNCHANGED <<roundVars, value>>
  /\ UNCHANGED <<now, chainVars, best, final, historyVars>>

EnforceNoTimeout(n, got, timed_out, all) == got # {} /\ got \subseteq best[n]

enforce_validator_participation_and_timeouts(n, got, timed_out, all) ==
  ~(timed_out /\ ~all) /\ got # {} /\ got \subseteq best[n]

SendAndWaitForRandomValueHashes(n) ==
  /\ state[n] = send_and_wait_for_random_value_hashes
  /\ SendAndCollect(n, MyRandomValueHash(n), random_value_hash)
  /\ LET got  == Bits(Collect(n, MyRandomValueHash(n), random_value_hash),
                      random_value_hash)
         all  == got = best[n]
         late == TimedOut(n, 4)
         ok   == enforce_validator_participation_and_timeouts(n, got, late, all)
     IN  \/ /\ ~late /\ ~all
            /\ Goto(n, send_and_wait_for_random_value_hashes)
            /\ UNCHANGED roundVars
         \/ /\ late \/ all
            /\ ~ok
            /\ goto_preparing_for_next_round(n)
         \/ /\ late \/ all
            /\ ok
            /\ Goto(n, send_and_wait_for_random_value)
            /\ UNCHANGED roundVars
  /\ UNCHANGED <<now, chainVars, best, value, final, historyVars>>

(* The template with the random values received, in the place of the hash  *)
(* of their concatenation.                                                 *)
FinalBlockOf(msgs) ==
  LET t == (CHOOSE m \in Stored(msgs, block_template) : TRUE).block
      V == Stored(msgs, random_value)
  IN  [prev |-> t.prev, round |-> t.round, bitset |-> t.bitset,
       payload |-> t.payload,
       rand |-> [p \in Bits(msgs, random_value) |->
                   (CHOOSE m \in V : m.pos = p).value]]

SendAndWaitForRandomValue(n) ==
  /\ state[n] = send_and_wait_for_random_value
  /\ SendAndCollect(n, MyRandomValue(n), random_value)
  /\ LET msgs == Collect(n, MyRandomValue(n), random_value)
         got  == Bits(msgs, random_value)
         all  == got = best[n]
         late == TimedOut(n, 5)
         ok   == enforce_validator_participation_and_timeouts(n, got, late, all)
     IN  \/ /\ ~late /\ ~all
            /\ Goto(n, send_and_wait_for_random_value)
            /\ UNCHANGED <<roundVars, final>>
         \/ /\ late \/ all
            /\ ~ok
            /\ goto_preparing_for_next_round(n)
            /\ UNCHANGED final
         \/ /\ late \/ all
            /\ ok
            /\ final' = [final EXCEPT ![n] = FinalBlockOf(msgs)]
            /\ Goto(n, send_and_wait_for_signed_blocks)
            /\ UNCHANGED roundVars
  /\ UNCHANGED <<now, chainVars, best, value, historyVars>>

(* The signatures added to the block: the first Required received ones, in *)
(* the order of their positions.                                           *)
Signers(got) ==
  {p \in got : Cardinality({q \in got : q < p}) < Required}

(* The quorum signatures verify against the quorum of the block's parent.  *)
verify_quorum_signatures(n, b, signers) ==
  \A p \in signers :
    Validator(b.prev, b.round, p) = Validator(top[n], round[n], p)

(* A verified block extends the chain if the tip is its parent, and is an  *)
(* alternative block, which is not followed, otherwise.                    *)
AddBlock(n, b) ==
  LET known == {h \in DOMAIN blocks : blocks[h] = b}
  IN  /\ known = {} => Len(blocks) < MaxBlocks
      /\ blocks' = IF known = {} THEN Append(blocks, b) ELSE blocks
      /\ tip' = IF tip[n] # b.prev THEN tip
                ELSE [tip EXCEPT ![n] = IF known = {} THEN Len(blocks) + 1
                                        ELSE CHOOSE h \in known : TRUE]

Signatures(n) ==
  Bits(Collect(n, MySignedBlock(n), signed_block), signed_block)

(* enforce_validator_participation_and_timeouts, at the end of the stage.  *)
AllSigned(n) ==
  LET enough == BitsetGeq(Signatures(n), best[n])
      late   == TimedOut(n, 6)
  IN  /\ late \/ enough
      /\ enforce_validator_participation_and_timeouts(n, Signatures(n), late,
                                                      enough)

(* core::handle_block_found fails when a transaction of the block is not   *)
(* in the mempool or when the block does not verify.                       *)
handle_block_found(n) ==
  /\ found' = found \cup {[top |-> top[n], round |-> round[n],
                           block |-> final[n],
                           signers |-> Signers(Signatures(n))]}
  /\ \/ /\ SendAndCollect(n, MySignedBlock(n), signed_block)
        /\ goto_preparing_for_next_round(n)
        /\ UNCHANGED <<chainVars, best, value, final>>
     \/ /\ verify_quorum_signatures(n, final[n], Signers(Signatures(n)))
        /\ AddBlock(n, final[n])
        /\ net' = net \cup Collect(n, MySignedBlock(n), signed_block)
        /\ goto_wait_for_next_block_and_clear_round_data(n)

SendAndWaitForSignedBlocks(n) ==
  /\ state[n] = send_and_wait_for_signed_blocks
  /\ \/ /\ AllSigned(n)
        /\ handle_block_found(n)
     \/ /\ ~AllSigned(n)
        /\ SendAndCollect(n, MySignedBlock(n), signed_block)
        /\ IF TimedOut(n, 6) \/ BitsetGeq(Signatures(n), best[n])
           THEN goto_preparing_for_next_round(n)
           ELSE /\ Goto(n, send_and_wait_for_signed_blocks)
                /\ UNCHANGED roundVars
        /\ UNCHANGED <<chainVars, best, value, final, found>>
  /\ UNCHANGED <<now, restarted>>

-----------------------------------------------------------------------------
(* What happens around Pulse.                                              *)

(* The blockchain adds a block from a peer, on another thread, whatever    *)
(* Pulse is doing.  The chain only grows: there is no reorganisation.      *)
ReceiveBlock(n) ==
  /\ \E h \in DOMAIN blocks :
       /\ blocks[h].prev = tip[n]
       /\ tip' = [tip EXCEPT ![n] = h]
  /\ UNCHANGED <<now, blocks, net, state, running, roundVars, transientVars,
                 historyVars>>

(* The daemon restarts.  The Pulse context is not stored anywhere; the     *)
(* blockchain is.                                                          *)
Restart(n) ==
  /\ Cardinality(restarted \cup {n}) <= MaxRestarts
  /\ restarted' = restarted \cup {n}
  /\ state'   = [state EXCEPT ![n] = null_state]
  /\ running' = running \ {n}
  /\ top'     = [top EXCEPT ![n] = NoHash]
  /\ round'   = [round EXCEPT ![n] = 0]
  /\ queued'  = queued \ {n}
  /\ clear_transient(n)
  /\ UNCHANGED <<now, chainVars, net, found>>

Tick ==
  /\ now < MaxTime
  /\ now' = now + 1
  /\ UNCHANGED <<chainVars, net, state, running, roundVars, transientVars,
                 historyVars>>

(* One iteration of the loop of pulse::main.                               *)
Main(n) ==
  \/ NullState(n)
  \/ WaitForNextBlock(n)
  \/ PrepareForRound(n)
  \/ WaitForRound(n)
  \/ SendAndWaitForHandshakes(n)
  \/ SendHandshakeBitsets(n)
  \/ WaitForHandshakeBitsets(n)
  \/ SendBlockTemplate(n)
  \/ WaitForBlockTemplate(n)
  \/ SendAndWaitForRandomValueHashes(n)
  \/ SendAndWaitForRandomValue(n)
  \/ SendAndWaitForSignedBlocks(n)

Init ==
  /\ now = 0
  /\ tip = [n \in Node |-> 0]
  /\ blocks = <<>>
  /\ net = {}
  /\ state = [n \in Node |-> null_state]
  /\ running = {}
  /\ top = [n \in Node |-> NoHash]
  /\ round = [n \in Node |-> 0]
  /\ queued = {}
  /\ rcv = [n \in Node |-> {}]
  /\ early = [n \in Node |-> {}]
  /\ sent = [n \in Node |-> {}]
  /\ best = [n \in Node |-> {}]
  /\ value = [n \in Node |-> NoValue]
  /\ final = [n \in Node |-> NoBlock]
  /\ found = {}
  /\ restarted = {}

Next ==
  \/ \E n \in Node : Main(n)
  \/ \E n \in Node, m \in net : HandleMessage(n, m)
  \/ \E n \in Node : ReceiveBlock(n)
  \/ \E n \in Node : Restart(n)
  \/ Tick

Spec == Init /\ [][Next]_vars

-----------------------------------------------------------------------------
(* Every variable keeps the range the code's types give it.                *)
TypeOK ==
  /\ now \in Nat
  /\ tip \in [Node -> Hash]
  /\ blocks \in Seq(FinalBlock) /\ Len(blocks) <= MaxBlocks
  /\ net \subseteq Message
  /\ state \in [Node -> round_state]
  /\ running \subseteq Node
  /\ top \in [Node -> Hash \cup {NoHash}]
  /\ round \in [Node -> Round]
  /\ queued \subseteq Node
  /\ rcv \in [Node -> SUBSET Message]
  /\ early \in [Node -> SUBSET Message]
  /\ sent \in [Node -> SUBSET message_type]
  /\ best \in [Node -> Bitset]
  /\ value \in [Node -> RandomValue \cup {NoValue}]
  /\ final \in [Node -> FinalBlock \cup {NoBlock}]
  /\ found \subseteq [top : Hash, round : Round, block : FinalBlock,
                      signers : Bitset]
  /\ restarted \subseteq Node

(* Two blocks completed for the same top block and round are the same      *)
(* block, even if validators lost their context and took part again        *)
(* (send_and_wait_for_signed_blocks hands them to handle_block_found).     *)
Agreement ==
  \A x, y \in found : x.top = y.top /\ x.round = y.round => x.block = y.block

(* A validator or producer that has not restarted speaks once: it never    *)
(* signs two different messages of one type for the same position of the   *)
(* same round of the same top block (pulse_send_stage::one_time_only, and  *)
(* prepare_for_round never going back to a round).                         *)
TopOf(m) == IF m.type = block_template THEN m.block.prev ELSE m.top

SingleVoice ==
  \A type \in message_type :
    LET said == Stored(net, type)
    IN  \A x, y \in said :
          /\ x.from = y.from /\ x.from \notin restarted
          /\ TopOf(x) = TopOf(y) /\ x.round = y.round
          => x = y

(* Two nodes locked in the same participants, if what they counted are     *)
(* bitsets of their round (wait_for_handshake_bitsets).                    *)
HasLockedIn(n) ==
  /\ state[n] > wait_for_handshake_bitsets
  /\ \A m \in Stored(rcv[n], handshake_bitset) : m.round = round[n]

LockInAgreement ==
  \A n, k \in Node :
    HasLockedIn(n) /\ HasLockedIn(k) /\ top[n] = top[k] /\ round[n] = round[k]
      => best[n] = best[k]

(* Every random value a validator holds opens a commitment it holds, and   *)
(* it reveals its own only when it holds every participant's commitment.   *)
(* handle_message checks a value only against a hash it happens to have.   *)
CommitBeforeReveal ==
  \A n \in Node :
    /\ \A m \in Stored(rcv[n], random_value) :
         \E h \in Stored(rcv[n], random_value_hash) :
           h.pos = m.pos /\ h.hash = Blake2b(m.value)
    /\ random_value \in sent[n] => Bits(rcv[n], random_value_hash) = best[n]

(* A completed block carries exactly the required signatures, all by its   *)
(* locked-in participants and of this very block, and its random seed has  *)
(* a value of every participant: the assertion before std::sample in       *)
(* send_and_wait_for_signed_blocks, where fewer would read past the end.   *)
CompleteBlocks ==
  \A x \in found :
    /\ Cardinality(x.signers) = Required
    /\ x.signers \subseteq x.block.bitset
    /\ DOMAIN x.block.rand = x.block.bitset
    /\ x.block.round = x.round
    /\ \A p \in x.block.bitset :
         \E m \in Stored(net, signed_block) :
           /\ m.from = Validator(x.top, x.round, p)
           /\ m.top = x.top /\ m.pos = p /\ m.signed = x.block

(* Two nodes that reach the signatures of a round sign the same block, if  *)
(* what they counted are messages of their round and top block and neither *)
(* the producer nor a participant lost its context in between: they built  *)
(* it apart, each from the messages it held when it left the stage of the  *)
(* random values, complete or at its timeout (send_and_wait_for_random_    *)
(* value, enforce_validator_participation_and_timeouts).                   *)
HeardItsRound(n) ==
  \A m \in rcv[n] : m.round = round[n] /\ TopOf(m) = top[n]

Speakers(n) ==
  {Producer(top[n], round[n])}
    \cup {Validator(top[n], round[n], p) : p \in best[n]}

SignersAgree ==
  \A n, k \in Node :
    /\ state[n] = send_and_wait_for_signed_blocks /\ state[k] = state[n]
    /\ top[n] = top[k] /\ round[n] = round[k]
    /\ HeardItsRound(n) /\ HeardItsRound(k)
    /\ Speakers(n) \cap restarted = {}
    => final[n] = final[k]

(* Every message a node has stored is of the round it is in ("A round      *)
(* mismatch will be detected in the signature").                           *)
OnlyThisRound ==
  \A n \in Node : \A m \in rcv[n] : m.round = round[n]

=============================================================================
