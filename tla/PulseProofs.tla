---------------------------- MODULE PulseProofs ----------------------------
(***************************************************************************)
(* Proofs about Pulse, for every quorum size, number of nodes, rounds,     *)
(* heights and clocks: the types, and what the steps of a node do.         *)
(***************************************************************************)
EXTENDS Pulse, TLAPS

(* The messages in existence: relayed, or waiting in an early queue.       *)
AllMsgs == net \cup UNION {early[n] : n \in Node}

(* n will not take part in round r on top of t again.                      *)
Past(n, t, r) ==
  \/ t < top[n]
  \/ /\ t = top[n]
     /\ \/ r < round[n]
        \/ r = round[n] /\ n \in queued
        \/ state[n] <= wait_for_next_block

(* n has already sent its message of this type in the current round.       *)
Did(n, type) ==
  IF type = handshake_bitset THEN state[n] > send_handshake_bitsets
  ELSE type \in sent[n]

-----------------------------------------------------------------------------
(* What holds of one node's context.                                       *)

(* Where n is in the round, its role, and what it has not begun.           *)
RoleInv(n) ==
  /\ n \in queued => state[n] = prepare_for_round
  /\ state[n] >= prepare_for_round => top[n] \in Hash
  /\ state[n] \in {send_and_wait_for_handshakes, send_handshake_bitsets}
       \cup (wait_for_block_template .. send_and_wait_for_signed_blocks)
     => IsValidator(n)
  /\ state[n] = send_block_template => IsProducer(n)
  /\ state[n] = wait_for_handshake_bitsets => IsValidator(n) \/ IsProducer(n)
  /\ state[n] >= send_and_wait_for_random_value_hashes
       => value[n] \in RandomValue
  /\ top[n] <= tip[n]

(* What n stores was checked against its top block and quorum, belongs to  *)
(* a stage n has reached, and has been relayed.                            *)
StoreInv(n) ==
  /\ state[n] <= wait_for_next_block => rcv[n] = {} /\ early[n] = {}
  /\ \A m \in rcv[n] \cup early[n] : msg_signature_check(n, m)
  /\ rcv[n] \subseteq net
  /\ state[n] > prepare_for_round =>
       \A m \in rcv[n] : StageOf(m.type) <= state[n]

(* n has sent nothing before its round, and its own handshake is in its    *)
(* bitset.                                                                 *)
HandshakeInv(n) ==
  /\ state[n] = wait_for_round => sent[n] = {}
  /\ \/ state[n] = send_and_wait_for_handshakes /\ handshake \in sent[n]
     \/ state[n] = send_handshake_bitsets
     => MyPosition(n) \in Bits(rcv[n], handshake)

(* The validators whose bitset n has counted as its choice.                *)
Supporters(n) ==
  {m.pos : m \in {x \in Stored(rcv[n], handshake_bitset) :
                    x.bitset = best[n]}}

(* S holds Required positions.                                             *)
Large(S) == \E T \in SUBSET S : Cardinality(T) >= Required

LockInInv(n) == state[n] > wait_for_handshake_bitsets => Large(Supporters(n))

TemplateInv(n) ==
  /\ state[n] > prepare_for_round =>
       \A m \in Stored(rcv[n], block_template) :
         m.block.round = round[n] /\ m.block.bitset = best[n]
  /\ state[n] >= send_and_wait_for_random_value_hashes =>
       Stored(rcv[n], block_template) # {}

CommitInv(n) ==
  /\ random_value \in sent[n] =>
       state[n] \in {prepare_for_round, send_and_wait_for_random_value,
                     send_and_wait_for_signed_blocks}
  /\ random_value \in sent[n] \/ state[n] >= send_and_wait_for_random_value
       => Bits(rcv[n], random_value_hash) = best[n]
  /\ \A m \in Stored(rcv[n], random_value) :
       \E h \in Stored(rcv[n], random_value_hash) :
         h.pos = m.pos /\ h.hash = Blake2b(m.value)

FinalInv(n) ==
  state[n] = send_and_wait_for_signed_blocks =>
    /\ final[n] \in FinalBlock
    /\ final[n].round = round[n]
    /\ final[n].bitset = best[n]
    /\ DOMAIN final[n].rand = best[n]
    /\ final[n].prev <= Len(blocks)
    /\ \A m \in Stored(rcv[n], signed_block) : m.signed = final[n]

(* Each part of the block n signs comes from a message n holds.            *)
BuiltInv(n) ==
  state[n] = send_and_wait_for_signed_blocks =>
    /\ \E t \in Stored(rcv[n], block_template) :
         final[n].prev = t.block.prev /\ final[n].payload = t.block.payload
    /\ \A p \in best[n] :
         \E m \in Stored(rcv[n], random_value) :
           m.pos = p /\ final[n].rand[p] = m.value

NodeInv(n) ==
  /\ RoleInv(n)
  /\ StoreInv(n)
  /\ HandshakeInv(n)
  /\ LockInInv(n)
  /\ TemplateInv(n)
  /\ CommitInv(n)
  /\ FinalInv(n)
  /\ BuiltInv(n)

-----------------------------------------------------------------------------
(* What holds of the messages, the blocks and the history.                 *)

ChainInv ==
  /\ \A n \in Node : tip[n] <= Len(blocks)
  /\ \A h \in 1 .. Len(blocks) : blocks[h].prev < h

MessageInv ==
  \A m \in AllMsgs :
    /\ m.type # block_template => Validator(m.top, m.round, m.pos) = m.from
    /\ m.type = block_template =>
         m.block.round = m.round /\ m.block.prev <= Len(blocks)
    /\ m.type = handshake_bitset => m.pos \in m.bitset
    /\ m.type = signed_block => m.signed.round = m.round

(* A message of a node that kept its context is of a round that is over    *)
(* for the node, or is the one it has sent in its current round.           *)
SentInv ==
  \A m \in AllMsgs :
    m.from \notin restarted =>
      \/ Past(m.from, TopOf(m), m.round)
      \/ /\ m.type # block_template
         /\ m.top = top[m.from] /\ m.round = round[m.from]
         /\ state[m.from] > wait_for_round
         /\ Did(m.from, m.type)

VoiceInv ==
  \A x, y \in AllMsgs :
    /\ x.type = y.type /\ x.from = y.from /\ x.from \notin restarted
    /\ TopOf(x) = TopOf(y) /\ x.round = y.round
    => x = y

FoundInv ==
  \A x \in found :
    /\ Large(x.block.bitset)
    /\ x.signers = Signers(x.block.bitset)
    /\ DOMAIN x.block.rand = x.block.bitset
    /\ x.block.round = x.round
    /\ \A p \in x.block.bitset :
         \E m \in Stored(net, signed_block) :
           /\ m.from = Validator(x.top, x.round, p)
           /\ m.top = x.top /\ m.pos = p /\ m.signed = x.block

IInv ==
  /\ TypeOK
  /\ \A n \in Node : NodeInv(n)
  /\ ChainInv
  /\ MessageInv
  /\ SentInv
  /\ VoiceInv
  /\ FoundInv

-----------------------------------------------------------------------------
USE DEF null_state, wait_for_next_block, prepare_for_round, wait_for_round,
  send_and_wait_for_handshakes, send_handshake_bitsets,
  wait_for_handshake_bitsets, send_block_template, wait_for_block_template,
  send_and_wait_for_random_value_hashes, send_and_wait_for_random_value,
  send_and_wait_for_signed_blocks, handshake, handshake_bitset,
  block_template, random_value_hash, random_value, signed_block

(* The steps of one node.                                                  *)
Step(n) ==
  \/ Main(n)
  \/ \E m \in net : HandleMessage(n, m)
  \/ ReceiveBlock(n)
  \/ Restart(n)

(* The context of k is as it was.                                          *)
Same(k) ==
  /\ state'[k] = state[k] /\ top'[k] = top[k] /\ round'[k] = round[k]
  /\ (k \in queued') = (k \in queued)
  /\ rcv'[k] = rcv[k] /\ early'[k] = early[k] /\ sent'[k] = sent[k]
  /\ best'[k] = best[k] /\ value'[k] = value[k] /\ final'[k] = final[k]
  /\ tip'[k] = tip[k]

(* A step of n changes no other node's context.                            *)
LEMMA Frame ==
  ASSUME TypeOK, NEW n \in Node, Step(n), NEW k \in Node \ {n}
  PROVE  Same(k)
<1>. USE DEF Same, TypeOK, Goto, goto_preparing_for_next_round, clear_transient,
       goto_wait_for_next_block_and_clear_round_data, SendAndCollect,
       chainVars, roundVars, transientVars
<1>1. CASE NullState(n)  BY Zenon, <1>1 DEF NullState
<1>2. CASE WaitForNextBlock(n)  BY <1>2 DEF WaitForNextBlock
<1>3. CASE PrepareForRound(n)  BY <1>3 DEF PrepareForRound
<1>4. CASE WaitForRound(n)  BY <1>4 DEF WaitForRound
<1>5. CASE SendAndWaitForHandshakes(n)  BY <1>5 DEF SendAndWaitForHandshakes
<1>6. CASE SendHandshakeBitsets(n)  BY <1>6 DEF SendHandshakeBitsets
<1>7. CASE WaitForHandshakeBitsets(n)  BY <1>7 DEF WaitForHandshakeBitsets
<1>8. CASE SendBlockTemplate(n)  BY <1>8 DEF SendBlockTemplate
<1>9. CASE WaitForBlockTemplate(n)  BY <1>9 DEF WaitForBlockTemplate
<1>10. CASE SendAndWaitForRandomValueHashes(n)
  BY <1>10 DEF SendAndWaitForRandomValueHashes
<1>11. CASE SendAndWaitForRandomValue(n)
  BY <1>11 DEF SendAndWaitForRandomValue
<1>12. CASE SendAndWaitForSignedBlocks(n)
  <2>1. CASE AllSigned(n)
    BY <1>12, <2>1 DEF SendAndWaitForSignedBlocks, handle_block_found, AddBlock
  <2>2. CASE ~AllSigned(n)
    BY <1>12, <2>2 DEF SendAndWaitForSignedBlocks
  <2>. QED  BY Zenon, <2>1, <2>2
<1>13. CASE \E m \in net : HandleMessage(n, m)
  BY Zenon, <1>13 DEF HandleMessage
<1>14. CASE ReceiveBlock(n)  BY Zenon, <1>14 DEF ReceiveBlock
<1>15. CASE Restart(n)  BY <1>15 DEF Restart
<1>. QED
  BY Zenon, <1>1, <1>2, <1>3, <1>4, <1>5, <1>6, <1>7, <1>8, <1>9, <1>10, <1>11,
     <1>12, <1>13, <1>14, <1>15 DEF Step, Main

(* What n can put in existence by a step: at most one message.             *)
Created(n) ==
  {M \in SUBSET Message :
     \/ M = {}
     \/ state[n] = send_and_wait_for_handshakes /\ M = MyHandshake(n)
     \/ state[n] = send_handshake_bitsets /\ M = {MyHandshakeBitset(n)}
     \/ /\ state[n] = send_block_template /\ tip[n] = top[n]
        /\ \E x \in Payload : M = {MyBlockTemplate(n, x)}
     \/ state[n] = send_and_wait_for_random_value_hashes /\ M = MyRandomValueHash(n)
     \/ state[n] = send_and_wait_for_random_value /\ M = MyRandomValue(n)
     \/ state[n] = send_and_wait_for_signed_blocks /\ M = MySignedBlock(n)}

(* n's position is the one the quorum has it at.                           *)
LEMMA Position ==
  ASSUME TypeOK, NEW n \in Node, IsValidator(n)
  PROVE  /\ MyPosition(n) \in Pos
         /\ n = Validator(top[n], round[n], MyPosition(n))
BY Zenon DEF IsValidator, MyPosition

(* The senders of stored messages are positions of the quorum.             *)
LEMMA BitsInPos ==
  ASSUME NEW M \in SUBSET Message, NEW type
  PROVE  Bits(M, type) \in Bitset
<1>. SUFFICES ASSUME NEW m \in M PROVE m.pos \in Pos
  BY Zenon DEF Bits, Stored, Bitset
<1>1. 0 \in Pos  BY SizeAssumption DEF Pos
<1>. QED  BY Zenon, <1>1 DEF Message

(* The messages n sends are messages.                                      *)
LEMMA OwnMessages ==
  ASSUME TypeOK, NEW n \in Node, RoleInv(n)
  PROVE  /\ state[n] = send_and_wait_for_handshakes => MyHandshake(n) \subseteq Message
         /\ state[n] = send_handshake_bitsets => MyHandshakeBitset(n) \in Message
         /\ state[n] = send_block_template =>
              \A x \in Payload : MyBlockTemplate(n, x) \in Message
         /\ state[n] = send_and_wait_for_random_value_hashes =>
              MyRandomValueHash(n) \subseteq Message
         /\ state[n] = send_and_wait_for_random_value =>
              MyRandomValue(n) \subseteq Message
         /\ state[n] = send_and_wait_for_signed_blocks /\ final[n] \in FinalBlock =>
              MySignedBlock(n) \subseteq Message
<1>1. n \in Node /\ round[n] \in Round /\ best[n] \in Bitset /\ tip[n] \in Hash
      /\ rcv[n] \in SUBSET Message /\ (state[n] >= 2 => top[n] \in Hash)
  BY Zenon DEF TypeOK, RoleInv
<1>2. state[n] \in {4, 5, 9, 10, 11} => MyPosition(n) \in Pos
  BY Position DEF RoleInv
<1>3. ASSUME state[n] = send_and_wait_for_handshakes
      PROVE  MyHandshake(n) \subseteq Message
  BY <1>1, <1>2, <1>3 DEF MyHandshake, Message
<1>4. ASSUME state[n] = send_handshake_bitsets
      PROVE  MyHandshakeBitset(n) \in Message
  BY <1>1, <1>2, <1>4, BitsInPos DEF MyHandshakeBitset, Message
<1>5. ASSUME state[n] = send_block_template, NEW x \in Payload
      PROVE  MyBlockTemplate(n, x) \in Message
  BY Zenon, <1>1, <1>5 DEF MyBlockTemplate, Message, Template
<1>6. ASSUME state[n] = send_and_wait_for_random_value_hashes
      PROVE  MyRandomValueHash(n) \subseteq Message
  BY <1>1, <1>2, <1>6 DEF MyRandomValueHash, Message, RoleInv
<1>7. ASSUME state[n] = send_and_wait_for_random_value
      PROVE  MyRandomValue(n) \subseteq Message
  BY <1>1, <1>2, <1>7 DEF MyRandomValue, Message, RoleInv
<1>8. ASSUME state[n] = send_and_wait_for_signed_blocks, final[n] \in FinalBlock
      PROVE  MySignedBlock(n) \subseteq Message
  BY <1>1, <1>2, <1>8 DEF MySignedBlock, Message
<1>. QED  BY Zenon, <1>3, <1>4, <1>5, <1>6, <1>7, <1>8

(* What a node holds comes from what it held, sent and had queued.         *)
LEMMA CollectBounds ==
  ASSUME NEW n, NEW own, NEW type
  PROVE  /\ rcv[n] \subseteq Collect(n, own, type)
         /\ Collect(n, own, type) \subseteq rcv[n] \cup own \cup early[n]
         /\ \A m \in Collect(n, own, type) \ (rcv[n] \cup own) : m.type = type
BY Zenon DEF Collect, Stored

(* The step of n adds only M, and what n had, to the network and its own   *)
(* early queue.                                                            *)
Adds(n, M) ==
  /\ net \subseteq net'
  /\ net' \subseteq net \cup rcv[n] \cup early[n] \cup M
  /\ early'[n] \subseteq early[n] \cup net \cup M

(* Collecting adds only the node's own messages to those in existence.     *)
LEMMA CollectAdds ==
  ASSUME TypeOK, NEW n \in Node, NEW own, NEW type, SendAndCollect(n, own, type)
  PROVE  Adds(n, own)
BY CollectBounds DEF TypeOK, Adds, SendAndCollect

(* A step brings only the messages it creates into existence.              *)
LEMMA Absorb ==
  ASSUME TypeOK, NEW n \in Node, StoreInv(n), Step(n), NEW M \in Created(n),
         Adds(n, M)
  PROVE  AllMsgs' \subseteq AllMsgs \cup M
<1>1. \A k \in Node \ {n} : early'[k] = early[k]
  BY Zenon, Frame DEF Same
<1>2. rcv[n] \subseteq net
  BY Zenon DEF StoreInv
<1>3. ASSUME NEW k \in Node  PROVE early'[k] \subseteq AllMsgs \cup M
  <2>1. CASE k = n  BY Zenon, <2>1 DEF Adds, AllMsgs
  <2>2. CASE k # n  BY Zenon, <1>1, <2>2 DEF AllMsgs
  <2>. QED  BY Zenon, <2>1, <2>2
<1>4. net' \subseteq AllMsgs \cup M
  BY Zenon, <1>2 DEF Adds, AllMsgs
<1>. QED  BY Zenon, <1>3, <1>4 DEF AllMsgs

(* Nothing is forgotten by the network, and n adds at most its own message *)
(* of the stage it is in.                                                  *)
LEMMA Growth ==
  ASSUME TypeOK, NEW n \in Node, RoleInv(n), StoreInv(n), FinalInv(n), Step(n)
  PROVE  /\ net \subseteq net'
         /\ \E M \in Created(n) : AllMsgs' \subseteq AllMsgs \cup M
<1>. SUFFICES \E M \in Created(n) : Adds(n, M)
  BY Zenon, Absorb DEF Adds
<1>. USE DEF TypeOK, Adds, Goto, goto_preparing_for_next_round,
       clear_transient, goto_wait_for_next_block_and_clear_round_data,
       chainVars, roundVars, transientVars
<1>a. {} \in Created(n)
  BY Zenon DEF Created
<1>1. CASE NullState(n)
  <2>. Adds(n, {})  BY Zenon, <1>1 DEF NullState
  <2>. QED  BY Zenon, <1>a
<1>2. CASE WaitForNextBlock(n)
  <2>. Adds(n, {})  BY Zenon, <1>2 DEF WaitForNextBlock
  <2>. QED  BY Zenon, <1>a
<1>3. CASE PrepareForRound(n)
  <2>. Adds(n, {})  BY Zenon, <1>3 DEF PrepareForRound
  <2>. QED  BY Zenon, <1>a
<1>4. CASE WaitForRound(n)
  <2>. Adds(n, {})  BY Zenon, <1>4 DEF WaitForRound
  <2>. QED  BY Zenon, <1>a
<1>5. CASE SendAndWaitForHandshakes(n)
  <2>1. MyHandshake(n) \in Created(n)
    BY Zenon, <1>5, OwnMessages DEF SendAndWaitForHandshakes, Created
  <2>2. Adds(n, MyHandshake(n))
    <3>1. CASE SendAndCollect(n, MyHandshake(n), handshake)
      BY Zenon, <3>1, CollectAdds
    <3>2. CASE ~SendAndCollect(n, MyHandshake(n), handshake)
      BY Zenon, <1>5, <3>2 DEF SendAndWaitForHandshakes
    <3>. QED  BY Zenon, <3>1, <3>2
  <2>. QED  BY Zenon, <2>1, <2>2
<1>6. CASE SendHandshakeBitsets(n)
  <2>0. /\ state[n] = send_handshake_bitsets /\ net' = net /\ rcv' = rcv
        /\ \/ early' = early
           \/ early' = [early EXCEPT ![n] = @ \cup {MyHandshakeBitset(n)}]
    BY <1>6 DEF SendHandshakeBitsets
  <2>1. {MyHandshakeBitset(n)} \in Created(n)
    BY Zenon, <2>0, OwnMessages DEF Created
  <2>2. Adds(n, {MyHandshakeBitset(n)})
    BY Zenon, <2>0
  <2>. QED  BY Zenon, <2>1, <2>2
<1>7. CASE WaitForHandshakeBitsets(n)
  <2>. Adds(n, {})  BY Zenon, <1>7, CollectAdds DEF WaitForHandshakeBitsets
  <2>. QED  BY Zenon, <1>a
<1>8. CASE SendBlockTemplate(n)
  <2>1. CASE net' = net
    <3>. Adds(n, {})  BY Zenon, <1>8, <2>1 DEF SendBlockTemplate
    <3>. QED  BY Zenon, <1>a
  <2>2. CASE net' # net
    <3>1. PICK x \in Payload : /\ net' = net \cup {MyBlockTemplate(n, x)}
                               /\ tip[n] = top[n]
      BY Zenon, <1>8, <2>2 DEF SendBlockTemplate
    <3>2. {MyBlockTemplate(n, x)} \in Created(n)
      BY <1>8, <3>1, OwnMessages DEF SendBlockTemplate, Created
    <3>3. early'[n] \subseteq early[n]
      BY Zenon, <1>8 DEF SendBlockTemplate
    <3>. QED  BY Zenon, <3>1, <3>2, <3>3
  <2>. QED  BY Zenon, <2>1, <2>2
<1>9. CASE WaitForBlockTemplate(n)
  <2>. Adds(n, {})  BY Zenon, <1>9, CollectAdds DEF WaitForBlockTemplate
  <2>. QED  BY Zenon, <1>a
<1>10. CASE SendAndWaitForRandomValueHashes(n)
  <2>1. MyRandomValueHash(n) \in Created(n)
    BY Zenon, <1>10, OwnMessages DEF SendAndWaitForRandomValueHashes, Created
  <2>2. Adds(n, MyRandomValueHash(n))
    BY Zenon, <1>10, CollectAdds DEF SendAndWaitForRandomValueHashes
  <2>. QED  BY Zenon, <2>1, <2>2
<1>11. CASE SendAndWaitForRandomValue(n)
  <2>1. MyRandomValue(n) \in Created(n)
    BY Zenon, <1>11, OwnMessages DEF SendAndWaitForRandomValue, Created
  <2>2. Adds(n, MyRandomValue(n))
    BY Zenon, <1>11, CollectAdds DEF SendAndWaitForRandomValue
  <2>. QED  BY Zenon, <2>1, <2>2
<1>12. CASE SendAndWaitForSignedBlocks(n)
  <2>1. MySignedBlock(n) \in Created(n)
    BY Zenon, <1>12, OwnMessages
       DEF SendAndWaitForSignedBlocks, FinalInv, Created
  <2>2. Adds(n, MySignedBlock(n))
    <3>1. CASE SendAndCollect(n, MySignedBlock(n), signed_block)
      BY Zenon, <3>1, CollectAdds
    <3>2. CASE ~SendAndCollect(n, MySignedBlock(n), signed_block)
      <4>1. /\ net' = net \cup Collect(n, MySignedBlock(n), signed_block)
            /\ early'[n] = {}
        BY Zenon, <1>12, <3>2
           DEF SendAndWaitForSignedBlocks, handle_block_found
      <4>. QED  BY <4>1, CollectBounds
    <3>. QED  BY Zenon, <3>1, <3>2
  <2>. QED  BY Zenon, <2>1, <2>2
<1>13. CASE \E m \in net : HandleMessage(n, m)
  <2>. Adds(n, {})  BY <1>13 DEF HandleMessage
  <2>. QED  BY Zenon, <1>a
<1>14. CASE ReceiveBlock(n)
  <2>. Adds(n, {})  BY Zenon, <1>14 DEF ReceiveBlock
  <2>. QED  BY Zenon, <1>a
<1>15. CASE Restart(n)
  <2>. Adds(n, {})  BY Zenon, <1>15 DEF Restart
  <2>. QED  BY Zenon, <1>a
<1>. QED
  BY Zenon, <1>1, <1>2, <1>3, <1>4, <1>5, <1>6, <1>7, <1>8, <1>9, <1>10, <1>11,
     <1>12, <1>13, <1>14, <1>15 DEF Step, Main

(* Collected messages are messages.                                        *)
LEMMA CollectType ==
  ASSUME TypeOK, NEW n \in Node, NEW own \in SUBSET Message, NEW type
  PROVE  Collect(n, own, type) \in SUBSET Message
BY Zenon, CollectBounds DEF TypeOK

(* The round prepared next is a round, and a later one if n was queued.    *)
LEMMA NextRoundBounds ==
  ASSUME TypeOK, NEW n \in Node, top[n] \in Hash, ~Stalled(n)
  PROVE  /\ NextRound(n) \in Round
         /\ NextRound(n) >= round[n]
         /\ n \in queued => NextRound(n) > round[n]
<1>1. now \in Int /\ Skew[n] \in Int /\ Round0Start(top[n]) \in Int
      /\ round[n] \in 0 .. MaxRound /\ MaxRound \in Nat
  BY SizeAssumption, ClockAssumption DEF TypeOK, Round
<1>2. ClockRound(n) \in Nat
  <2>. DEFINE d == Clock(n) - Round0Start(top[n])
  <2>1. d \in Int  BY <1>1 DEF Clock
  <2>2. d > 0 => d \div 6 \in Nat  BY <2>1
  <2>3. (Clock(n) <= Round0Start(top[n])) <=> ~(d > 0)  BY <1>1 DEF Clock
  <2>. QED  BY Zenon, <2>2, <2>3 DEF ClockRound
<1>3. ClockRound(n) <= MaxRound
  BY <1>1, <1>2 DEF Stalled
<1>4. n \in queued => round[n] < MaxRound
  BY <1>1 DEF Stalled
<1>. QED
  BY <1>1, <1>2, <1>3, <1>4 DEF NextRound, Round

(* The final block is a block.                                             *)
LEMMA FinalBlockType ==
  ASSUME NEW M \in SUBSET Message, Stored(M, block_template) # {}
  PROVE  FinalBlockOf(M) \in FinalBlock
<1>. DEFINE t == (CHOOSE m \in Stored(M, block_template) : TRUE).block
            V == Stored(M, random_value)
            B == Bits(M, random_value)
            rand == [p \in B |-> (CHOOSE m \in V : m.pos = p).value]
<1>1. t \in Template
  <2>. PICK m : m = CHOOSE x \in Stored(M, block_template) : TRUE
    BY Zenon
  <2>1. m \in Stored(M, block_template)
    BY Zenon
  <2>. QED  BY <2>1 DEF Stored, Message
<1>2. B \in Bitset
  BY Zenon, BitsInPos
<1>3. ASSUME NEW p \in B PROVE (CHOOSE m \in V : m.pos = p).value \in RandomValue
  <2>1. \E m \in V : m.pos = p
    BY Zenon DEF Bits
  <2>. PICK m : m = CHOOSE x \in V : x.pos = p
    BY Zenon
  <2>2. m \in V
    BY Zenon, <2>1
  <2>3. m \in Message /\ m.type = random_value
    BY Zenon, <2>2 DEF Stored
  <2>4. m.value \in RandomValue
    BY <2>3 DEF Message
  <2>. QED  BY Zenon, <2>4
<1>4. rand \in Seed
  BY <1>2, <1>3 DEF Seed
<1>5. FinalBlockOf(M) = [prev |-> t.prev, round |-> t.round, bitset |-> t.bitset,
                         payload |-> t.payload, rand |-> rand]
  BY Zenon DEF FinalBlockOf
<1>. HIDE DEF t, rand
<1>. QED  BY <1>1, <1>4, <1>5 DEF Template, FinalBlock

(* A node's own messages of a stage are of the stage's type.               *)
LEMMA OwnTypes ==
  ASSUME NEW n
  PROVE  /\ \A m \in MyHandshake(n) : m.type = 1
         /\ \A m \in MyRandomValueHash(n) : m.type = 4
         /\ \A m \in MyRandomValue(n) : m.type = 5
         /\ \A m \in MySignedBlock(n) : m.type = 6
<1>1. \A m \in MyHandshake(n) : m.type = 1  BY DEF MyHandshake
<1>2. \A m \in MyRandomValueHash(n) : m.type = 4  BY DEF MyRandomValueHash
<1>3. \A m \in MyRandomValue(n) : m.type = 5  BY DEF MyRandomValue
<1>4. \A m \in MySignedBlock(n) : m.type = 6  BY DEF MySignedBlock
<1>. QED  BY Zenon, <1>1, <1>2, <1>3, <1>4

(* Every step keeps the types.                                             *)
LEMMA TypeStep ==
  ASSUME TypeOK, NEW n \in Node, NodeInv(n), Step(n)
  PROVE  TypeOK'
<1>. USE DEF chainVars, roundVars, transientVars, historyVars
<1>0. /\ 0 \in Round /\ {} \in Bitset
      /\ message_type = {1, 2, 3, 4, 5, 6}
      /\ round_state = {0, 1, 2, 3, 4, 5, 6, 7, 8, 9, 10, 11}
      /\ RoleInv(n) /\ FinalInv(n)
  BY SizeAssumption DEF Round, Bitset, message_type, round_state, NodeInv
<1>a. ASSUME NEW s \in round_state, Goto(n, s)
      PROVE  state' \in [Node -> round_state] /\ running' \subseteq Node
  BY Zenon, <1>a DEF Goto, TypeOK
<1>b. ASSUME clear_transient(n)
      PROVE  /\ rcv' \in [Node -> SUBSET Message]
             /\ early' \in [Node -> SUBSET Message]
             /\ sent' \in [Node -> SUBSET message_type]
             /\ best' \in [Node -> Bitset]
             /\ value' \in [Node -> RandomValue \cup {NoValue}]
             /\ final' \in [Node -> FinalBlock \cup {NoBlock}]
  BY Zenon, <1>0, <1>b DEF clear_transient, TypeOK
<1>c. ASSUME NEW own \in SUBSET Message, NEW type \in message_type,
             SendAndCollect(n, own, type), \A m \in own : m.type = type
      PROVE  /\ net' \subseteq Message
             /\ rcv' \in [Node -> SUBSET Message]
             /\ early' \in [Node -> SUBSET Message]
             /\ sent' \in [Node -> SUBSET message_type]
  <2>1. Collect(n, own, type) \in SUBSET Message  BY Zenon, CollectType
  <2>2. {m.type : m \in own} \subseteq message_type  BY Zenon, <1>c
  <2>. QED  BY Zenon, <1>c, <2>1, <2>2 DEF TypeOK, SendAndCollect, Stored
<1>d. ASSUME goto_preparing_for_next_round(n)
      PROVE  /\ state' \in [Node -> round_state] /\ running' \subseteq Node
             /\ queued' \subseteq Node
             /\ top' = top /\ round' = round
  BY Zenon, <1>0, <1>a, <1>d DEF goto_preparing_for_next_round, TypeOK
<1>e. ASSUME goto_wait_for_next_block_and_clear_round_data(n)
      PROVE  /\ state' \in [Node -> round_state] /\ running' \subseteq Node
             /\ queued' \subseteq Node
             /\ top' = top /\ round' \in [Node -> Round]
             /\ clear_transient(n)
  BY Zenon, <1>0, <1>a, <1>e
     DEF goto_wait_for_next_block_and_clear_round_data, TypeOK
<1>1. CASE NullState(n)
  BY Zenon, <1>0, <1>1, <1>a DEF NullState, TypeOK
<1>2. CASE WaitForNextBlock(n)
  <2>1. /\ state' \in [Node -> round_state] /\ running' \subseteq Node
    BY Zenon, <1>0, <1>2, <1>a DEF WaitForNextBlock
  <2>2. /\ top' \in [Node -> Hash \cup {NoHash}]
        /\ round' \in [Node -> Round] /\ queued' \subseteq Node
    BY <1>0, <1>2 DEF WaitForNextBlock, TypeOK
  <2>3. UNCHANGED <<now, chainVars, net, transientVars, historyVars>>
    BY Zenon, <1>2 DEF WaitForNextBlock
  <2>. QED  BY Zenon, <2>1, <2>2, <2>3 DEF TypeOK
<1>3. CASE PrepareForRound(n)
  <2>1. top[n] \in Hash  BY <1>0, <1>3 DEF PrepareForRound, RoleInv
  <2>2. ~Stalled(n) => NextRound(n) \in Round  BY Zenon, <2>1, NextRoundBounds
  <2>3. CASE Stalled(n)
    BY Zenon, <1>3, <1>b, <1>e, <2>3 DEF PrepareForRound, TypeOK
  <2>4. CASE ~Stalled(n)
    BY <1>0, <1>3, <1>a, <1>b, <2>2, <2>4 DEF PrepareForRound, TypeOK
  <2>. QED  BY Zenon, <2>3, <2>4
<1>4. CASE WaitForRound(n)
  <2>1. CASE goto_wait_for_next_block_and_clear_round_data(n)
    BY Zenon, <1>4, <1>b, <1>e, <2>1 DEF WaitForRound, TypeOK
  <2>2. CASE goto_preparing_for_next_round(n) /\ UNCHANGED transientVars
    BY Zenon, <1>4, <1>d, <2>2 DEF WaitForRound, TypeOK
  <2>3. CASE UNCHANGED <<roundVars, transientVars>>
    BY Zenon, <1>0, <1>4, <1>a, <1>d, <1>e, <2>3 DEF WaitForRound, TypeOK
  <2>. QED  BY Zenon, <1>4, <2>1, <2>2, <2>3 DEF WaitForRound
<1>5. CASE SendAndWaitForHandshakes(n)
  <2>1. MyHandshake(n) \in SUBSET Message
    BY Zenon, <1>0, <1>5, OwnMessages DEF SendAndWaitForHandshakes
  <2>2. \A m \in MyHandshake(n) : m.type = 1  BY Zenon, OwnTypes
  <2>3. CASE /\ SendAndCollect(n, MyHandshake(n), handshake)
             /\ UNCHANGED <<roundVars, best, value, final>>
    <3>1. /\ net' \subseteq Message
          /\ rcv' \in [Node -> SUBSET Message]
          /\ early' \in [Node -> SUBSET Message]
          /\ sent' \in [Node -> SUBSET message_type]
      BY Zenon, <1>0, <1>c, <2>1, <2>2, <2>3
    <3>2. /\ state' \in [Node -> round_state] /\ running' \subseteq Node
          /\ UNCHANGED <<now, chainVars, historyVars>>
      BY Zenon, <1>0, <1>5, <1>a, <1>d DEF SendAndWaitForHandshakes
    <3>. QED  BY Zenon, <2>3, <3>1, <3>2 DEF TypeOK
  <2>4. CASE /\ net' \in {net, net \cup MyHandshake(n)}
             /\ goto_preparing_for_next_round(n)
             /\ UNCHANGED transientVars
    BY Zenon, <1>5, <1>d, <2>1, <2>4 DEF SendAndWaitForHandshakes, TypeOK
  <2>. QED  BY Zenon, <1>5, <2>3, <2>4 DEF SendAndWaitForHandshakes
<1>6. CASE SendHandshakeBitsets(n)
  <2>1. MyHandshakeBitset(n) \in Message
    BY Zenon, <1>0, <1>6, OwnMessages DEF SendHandshakeBitsets
  <2>2. /\ state' \in [Node -> round_state] /\ running' \subseteq Node
        /\ top' = top /\ round' = round /\ queued' \subseteq Node
    <3>1. \/ Goto(n, wait_for_handshake_bitsets) /\ UNCHANGED <<top, round, queued>>
          \/ goto_preparing_for_next_round(n)
      BY Zenon, <1>6 DEF SendHandshakeBitsets
    <3>. QED  BY Zenon, <1>0, <1>a, <1>d, <3>1 DEF TypeOK
  <2>3. early' \in [Node -> SUBSET Message]
    BY <1>6, <2>1 DEF SendHandshakeBitsets, TypeOK
  <2>4. UNCHANGED <<now, chainVars, net, rcv, sent, best, value, final, historyVars>>
    BY Zenon, <1>6 DEF SendHandshakeBitsets
  <2>. QED  BY Zenon, <2>2, <2>3, <2>4 DEF TypeOK
<1>7. CASE WaitForHandshakeBitsets(n)
  <2>1. /\ net' \subseteq Message
        /\ rcv' \in [Node -> SUBSET Message]
        /\ early' \in [Node -> SUBSET Message]
        /\ sent' \in [Node -> SUBSET message_type]
    <3>. {} \in SUBSET Message /\ 2 \in message_type  BY Zenon, <1>0
    <3>. SendAndCollect(n, {}, 2)  BY Zenon, <1>7 DEF WaitForHandshakeBitsets
    <3>. QED  BY Zenon, <1>c
  <2>2. best' \in [Node -> Bitset]
    BY Zenon, <1>7 DEF WaitForHandshakeBitsets, Lockable, AgreedBy, TypeOK
  <2>3. /\ state' \in [Node -> round_state] /\ running' \subseteq Node
        /\ queued' \subseteq Node
        /\ UNCHANGED <<now, chainVars, top, round, value, final, historyVars>>
    BY Zenon, <1>0, <1>7, <1>a, <1>d DEF WaitForHandshakeBitsets, TypeOK
  <2>. QED  BY Zenon, <2>1, <2>2, <2>3 DEF TypeOK
<1>8. CASE SendBlockTemplate(n)
  <2>1. net' \subseteq Message
    BY <1>0, <1>8, OwnMessages DEF SendBlockTemplate, TypeOK
  <2>2. CASE goto_wait_for_next_block_and_clear_round_data(n)
    BY Zenon, <1>8, <1>b, <1>e, <2>1, <2>2 DEF SendBlockTemplate, TypeOK
  <2>3. CASE goto_preparing_for_next_round(n) /\ UNCHANGED transientVars
    BY Zenon, <1>8, <1>d, <2>1, <2>3 DEF SendBlockTemplate, TypeOK
  <2>. QED  BY Zenon, <1>8, <2>2, <2>3 DEF SendBlockTemplate
<1>9. CASE WaitForBlockTemplate(n)
  <2>1. /\ net' \subseteq Message
        /\ rcv' \in [Node -> SUBSET Message]
        /\ early' \in [Node -> SUBSET Message]
        /\ sent' \in [Node -> SUBSET message_type]
    <3>. {} \in SUBSET Message /\ 3 \in message_type  BY Zenon, <1>0
    <3>. SendAndCollect(n, {}, 3)  BY Zenon, <1>9 DEF WaitForBlockTemplate
    <3>. QED  BY Zenon, <1>c
  <2>3. /\ state' \in [Node -> round_state] /\ running' \subseteq Node
        /\ queued' \subseteq Node
        /\ UNCHANGED <<now, chainVars, top, round, best, final, historyVars>>
    BY Zenon, <1>0, <1>9, <1>a, <1>d DEF WaitForBlockTemplate, TypeOK
  <2>4. value' \in [Node -> RandomValue \cup {NoValue}]
    BY Zenon, <1>9 DEF WaitForBlockTemplate, TypeOK
  <2>. QED  BY Zenon, <2>1, <2>3, <2>4 DEF TypeOK
<1>10. CASE SendAndWaitForRandomValueHashes(n)
  <2>1. MyRandomValueHash(n) \in SUBSET Message
    BY Zenon, <1>0, <1>10, OwnMessages DEF SendAndWaitForRandomValueHashes
  <2>2. \A m \in MyRandomValueHash(n) : m.type = 4  BY Zenon, OwnTypes
  <2>3. /\ net' \subseteq Message
        /\ rcv' \in [Node -> SUBSET Message]
        /\ early' \in [Node -> SUBSET Message]
        /\ sent' \in [Node -> SUBSET message_type]
    BY Zenon, <1>0, <1>c, <1>10, <2>1, <2>2 DEF SendAndWaitForRandomValueHashes
  <2>4. /\ state' \in [Node -> round_state] /\ running' \subseteq Node
        /\ queued' \subseteq Node
        /\ UNCHANGED <<now, chainVars, top, round, best, value, final, historyVars>>
    BY Zenon, <1>0, <1>10, <1>a, <1>d
       DEF SendAndWaitForRandomValueHashes, TypeOK
  <2>. QED  BY Zenon, <2>3, <2>4 DEF TypeOK
<1>11. CASE SendAndWaitForRandomValue(n)
  <2>. DEFINE msgs == Collect(n, MyRandomValue(n), random_value)
  <2>1. MyRandomValue(n) \in SUBSET Message
    BY Zenon, <1>0, <1>11, OwnMessages DEF SendAndWaitForRandomValue
  <2>2. \A m \in MyRandomValue(n) : m.type = 5  BY Zenon, OwnTypes
  <2>3. /\ net' \subseteq Message
        /\ rcv' \in [Node -> SUBSET Message]
        /\ early' \in [Node -> SUBSET Message]
        /\ sent' \in [Node -> SUBSET message_type]
    BY Zenon, <1>0, <1>c, <1>11, <2>1, <2>2 DEF SendAndWaitForRandomValue
  <2>4. Stored(msgs, block_template) # {}
    <3>1. Stored(rcv[n], block_template) # {}
      <4>1. state[n] = send_and_wait_for_random_value /\ TemplateInv(n)
        BY Zenon, <1>11 DEF SendAndWaitForRandomValue, NodeInv
      <4>2. 10 >= 9  OBVIOUS
      <4>. QED  BY Zenon, <4>1, <4>2 DEF TemplateInv
    <3>2. rcv[n] \subseteq msgs
      BY Zenon, CollectBounds
    <3>. QED  BY Zenon, <3>1, <3>2 DEF Stored
  <2>5. FinalBlockOf(msgs) \in FinalBlock
    BY Zenon, <2>1, <2>4, CollectType, FinalBlockType
  <2>. HIDE DEF msgs
  <2>6. /\ state' \in [Node -> round_state] /\ running' \subseteq Node
        /\ queued' \subseteq Node
        /\ final' = final \/ final' = [final EXCEPT ![n] = FinalBlockOf(msgs)]
        /\ UNCHANGED <<now, chainVars, top, round, best, value, historyVars>>
    BY Zenon, <1>0, <1>11, <1>a, <1>d
       DEF SendAndWaitForRandomValue, TypeOK, msgs
  <2>. QED  BY Zenon, <2>3, <2>5, <2>6 DEF TypeOK
<1>12. CASE SendAndWaitForSignedBlocks(n)
  <2>1. MySignedBlock(n) \in SUBSET Message /\ final[n] \in FinalBlock
        /\ top[n] \in Hash
    <3>1. state[n] = 11  BY Zenon, <1>12 DEF SendAndWaitForSignedBlocks
    <3>2. top[n] \in Hash  BY <1>0, <3>1 DEF RoleInv
    <3>3. final[n] \in FinalBlock  BY Zenon, <1>0, <3>1 DEF FinalInv
    <3>. QED  BY Zenon, <1>0, <3>1, <3>2, <3>3, OwnMessages
  <2>2. \A m \in MySignedBlock(n) : m.type = 6  BY Zenon, OwnTypes
  <2>3. Signers(Signatures(n)) \in Bitset
    BY Zenon, <2>1, CollectType, BitsInPos DEF Signers, Signatures, Bitset
  <2>4. Collect(n, MySignedBlock(n), signed_block) \in SUBSET Message
    BY Zenon, <2>1, CollectType
  <2>5. CASE SendAndCollect(n, MySignedBlock(n), signed_block) /\ UNCHANGED chainVars
    <3>1. /\ net' \subseteq Message
          /\ rcv' \in [Node -> SUBSET Message]
          /\ early' \in [Node -> SUBSET Message]
          /\ sent' \in [Node -> SUBSET message_type]
      BY Zenon, <1>0, <1>c, <2>1, <2>2, <2>5
    <3>2. CASE AllSigned(n)
      <4>1. found' \subseteq [top : Hash, round : Round, block : FinalBlock,
                              signers : Bitset]
        BY <1>12, <2>1, <2>3, <3>2
           DEF SendAndWaitForSignedBlocks, handle_block_found, TypeOK
      <4>2. CASE goto_preparing_for_next_round(n) /\ UNCHANGED <<best, value, final>>
        BY Zenon, <1>12, <1>d, <2>5, <3>1, <4>1, <4>2
           DEF SendAndWaitForSignedBlocks, TypeOK
      <4>3. CASE goto_wait_for_next_block_and_clear_round_data(n)
        BY Zenon, <1>12, <1>b, <1>e, <2>5, <3>1, <4>1, <4>3
           DEF SendAndWaitForSignedBlocks, TypeOK
      <4>. QED
        BY Zenon, <1>12, <3>2, <4>2, <4>3
           DEF SendAndWaitForSignedBlocks, handle_block_found
    <3>3. CASE ~AllSigned(n)
      <4>1. /\ state' \in [Node -> round_state] /\ running' \subseteq Node
            /\ queued' \subseteq Node /\ top' = top /\ round' = round
        BY Zenon, <1>0, <1>12, <1>a, <1>d, <3>3
           DEF SendAndWaitForSignedBlocks, TypeOK
      <4>. QED
        BY Zenon, <1>12, <2>5, <3>1, <3>3, <4>1
           DEF SendAndWaitForSignedBlocks, TypeOK
    <3>. QED  BY Zenon, <3>2, <3>3
  <2>6. CASE ~(SendAndCollect(n, MySignedBlock(n), signed_block) /\ UNCHANGED chainVars)
    <3>1. /\ AddBlock(n, final[n])
          /\ net' = net \cup Collect(n, MySignedBlock(n), signed_block)
          /\ goto_wait_for_next_block_and_clear_round_data(n)
          /\ found' = found \cup {[top |-> top[n], round |-> round[n],
                                   block |-> final[n],
                                   signers |-> Signers(Signatures(n))]}
          /\ UNCHANGED <<now, restarted>>
      BY Zenon, <1>12, <2>6 DEF SendAndWaitForSignedBlocks, handle_block_found
    <3>. DEFINE known == {h \in DOMAIN blocks : blocks[h] = final[n]}
    <3>2. Len(blocks) \in 0 .. MaxBlocks /\ DOMAIN blocks = 1 .. Len(blocks)
      BY SizeAssumption DEF TypeOK
    <3>3. known # {} => (CHOOSE h \in known : TRUE) \in 1 .. Len(blocks)
      BY Zenon, <3>2
    <3>. HIDE DEF known
    <3>4. /\ known = {} => Len(blocks) < MaxBlocks
          /\ blocks' = IF known = {} THEN Append(blocks, final[n]) ELSE blocks
          /\ tip' = IF tip[n] # final[n].prev THEN tip
                    ELSE [tip EXCEPT ![n] = IF known = {} THEN Len(blocks) + 1
                                            ELSE CHOOSE h \in known : TRUE]
      BY Zenon, <3>1 DEF AddBlock, known
    <3>5. blocks' \in Seq(FinalBlock) /\ Len(blocks') <= MaxBlocks
      BY <2>1, <3>2, <3>4, SizeAssumption DEF TypeOK
    <3>6. tip' \in [Node -> Hash]
      BY <3>2, <3>3, <3>4, SizeAssumption DEF TypeOK, Hash
    <3>. QED
      BY <1>b, <1>e, <2>1, <2>3, <2>4, <3>1, <3>5, <3>6 DEF TypeOK
  <2>. QED  BY Zenon, <2>5, <2>6
<1>13. CASE \E m \in net : HandleMessage(n, m)
  BY <1>13 DEF HandleMessage, TypeOK
<1>14. CASE ReceiveBlock(n)
  <2>1. DOMAIN blocks \subseteq Hash
    BY SizeAssumption DEF TypeOK, Hash
  <2>. QED  BY Zenon, <1>14, <2>1 DEF ReceiveBlock, TypeOK
<1>15. CASE Restart(n)
  BY Zenon, <1>0, <1>15, <1>b DEF Restart, TypeOK
<1>. QED
  BY Zenon, <1>1, <1>2, <1>3, <1>4, <1>5, <1>6, <1>7, <1>8, <1>9, <1>10, <1>11,
     <1>12, <1>13, <1>14, <1>15 DEF Step, Main

-----------------------------------------------------------------------------
(* The steps of a node, one kind at a time: what each does to its control  *)
(* state, to its tip and to its data.                                      *)

(* What the helpers of the state functions do to n.                        *)
LEMMA Cleared ==
  ASSUME TypeOK, NEW n \in Node, clear_transient(n)
  PROVE  /\ rcv'[n] = {} /\ early'[n] = {} /\ sent'[n] = {} /\ best'[n] = {}
         /\ value'[n] = NoValue /\ final'[n] = NoBlock
BY Zenon DEF TypeOK, clear_transient

(* goto_preparing_for_next_round keeps the top block and the round.        *)
LEMMA Queued ==
  ASSUME TypeOK, NEW n \in Node, goto_preparing_for_next_round(n)
  PROVE  /\ state'[n] = prepare_for_round /\ n \in queued'
         /\ top'[n] = top[n] /\ round'[n] = round[n]
BY Zenon DEF TypeOK, goto_preparing_for_next_round, Goto

(* Going back to wait_for_next_block clears the round's messages.          *)
LEMMA Abandoned ==
  ASSUME TypeOK, NEW n \in Node, goto_wait_for_next_block_and_clear_round_data(n)
  PROVE  /\ state'[n] = wait_for_next_block /\ n \notin queued'
         /\ top'[n] = top[n] /\ round'[n] = 0 /\ clear_transient(n)
BY Zenon DEF TypeOK, goto_wait_for_next_block_and_clear_round_data, Goto

(* What SendAndCollect leaves n with.                                      *)
LEMMA Collected ==
  ASSUME TypeOK, NEW n \in Node, NEW own, NEW type, SendAndCollect(n, own, type)
  PROVE  /\ rcv'[n] = Collect(n, own, type)
         /\ net' = net \cup rcv'[n]
         /\ early'[n] \subseteq early[n]
         /\ Stored(early'[n], type) = {}
         /\ sent'[n] = sent[n] \cup {m.type : m \in own}
BY Zenon DEF TypeOK, SendAndCollect, Stored

-----------------------------------------------------------------------------
(* How a step changes the control state of n.                              *)

Stays(n) ==
  /\ state'[n] = state[n] /\ top'[n] = top[n] /\ round'[n] = round[n]
  /\ (n \in queued' <=> n \in queued)

Boots(n) ==
  /\ state[n] = null_state /\ state'[n] = wait_for_next_block
  /\ top'[n] = top[n] /\ round'[n] = round[n] /\ (n \in queued' <=> n \in queued)

Enters(n) ==
  /\ state[n] = wait_for_next_block /\ state'[n] = prepare_for_round
  /\ top'[n] = tip[n] /\ top'[n] # top[n] /\ round'[n] = 0 /\ n \notin queued'

Starts(n) ==
  /\ state[n] = prepare_for_round /\ state'[n] = wait_for_round
  /\ top'[n] = top[n] /\ ~Stalled(n) /\ round'[n] = NextRound(n)
  /\ n \notin queued' /\ clear_transient(n)

Leaves(n) ==
  /\ state[n] >= prepare_for_round /\ state'[n] = wait_for_next_block
  /\ top'[n] = top[n] /\ round'[n] = 0 /\ n \notin queued' /\ clear_transient(n)

Fails(n) ==
  /\ state[n] >= wait_for_round /\ state'[n] = prepare_for_round
  /\ top'[n] = top[n] /\ round'[n] = round[n] /\ n \in queued'

Advances(n) ==
  /\ top'[n] = top[n] /\ round'[n] = round[n] /\ (n \in queued' <=> n \in queued)
  /\ \/ /\ state[n] = wait_for_round
        /\ \/ IsValidator(n) /\ state'[n] = send_and_wait_for_handshakes
           \/ IsProducer(n) /\ state'[n] = wait_for_handshake_bitsets
     \/ /\ state[n] = send_and_wait_for_handshakes
        /\ state'[n] = send_handshake_bitsets
     \/ /\ state[n] = send_handshake_bitsets
        /\ state'[n] = wait_for_handshake_bitsets
     \/ /\ state[n] = wait_for_handshake_bitsets
        /\ \/ IsProducer(n) /\ state'[n] = send_block_template
           \/ ~IsProducer(n) /\ state'[n] = wait_for_block_template
     \/ /\ state[n] = wait_for_block_template
        /\ state'[n] = send_and_wait_for_random_value_hashes
     \/ /\ state[n] = send_and_wait_for_random_value_hashes
        /\ state'[n] = send_and_wait_for_random_value
     \/ /\ state[n] = send_and_wait_for_random_value
        /\ state'[n] = send_and_wait_for_signed_blocks

Resets(n) ==
  /\ state'[n] = null_state /\ top'[n] = NoHash /\ round'[n] = 0
  /\ n \notin queued' /\ clear_transient(n) /\ n \in restarted'

Moves(n) ==
  \/ Stays(n) \/ Boots(n) \/ Enters(n) \/ Starts(n) \/ Leaves(n) \/ Fails(n)
  \/ Advances(n) \/ Resets(n)

(* Where each state function leads.                                        *)
LEMMA Control ==
  ASSUME TypeOK, NEW n \in Node, Step(n)
  PROVE  Moves(n)
<1>. USE Queued, Abandoned DEF Moves, roundVars
<1>g. \A s : Goto(n, s) => state'[n] = s
  BY Zenon DEF TypeOK, Goto
<1>o. /\ 2 >= 2 /\ 3 >= 2 /\ 7 >= 2 /\ 11 >= 2
      /\ 3 >= 3 /\ 4 >= 3 /\ 5 >= 3 /\ 6 >= 3 /\ 7 >= 3 /\ 8 >= 3 /\ 9 >= 3
      /\ 10 >= 3 /\ 11 >= 3
  OBVIOUS
<1>1. CASE NullState(n)
  BY Zenon, <1>1, <1>g DEF NullState, Boots
<1>2. CASE WaitForNextBlock(n)
  BY Zenon, <1>2, <1>g DEF WaitForNextBlock, TypeOK, Stays, Enters
<1>3. CASE PrepareForRound(n)
  BY Zenon, <1>3, <1>g, <1>o DEF PrepareForRound, TypeOK, Starts, Leaves
<1>4. CASE WaitForRound(n)
  BY Zenon, <1>4, <1>g, <1>o DEF WaitForRound, Stays, Leaves, Fails, Advances
<1>5. CASE SendAndWaitForHandshakes(n)
  BY Zenon, <1>5, <1>g, <1>o
     DEF SendAndWaitForHandshakes, Stays, Fails, Advances
<1>6. CASE SendHandshakeBitsets(n)
  BY Zenon, <1>6, <1>g, <1>o DEF SendHandshakeBitsets, Fails, Advances
<1>7. CASE WaitForHandshakeBitsets(n)
  BY Zenon, <1>7, <1>g, <1>o
     DEF WaitForHandshakeBitsets, Stays, Fails, Advances
<1>8. CASE SendBlockTemplate(n)
  BY Zenon, <1>8, <1>g, <1>o DEF SendBlockTemplate, Leaves, Fails
<1>9. CASE WaitForBlockTemplate(n)
  BY Zenon, <1>9, <1>g, <1>o DEF WaitForBlockTemplate, Stays, Fails, Advances
<1>10. CASE SendAndWaitForRandomValueHashes(n)
  BY Zenon, <1>10, <1>g, <1>o
     DEF SendAndWaitForRandomValueHashes, Stays, Fails, Advances
<1>11. CASE SendAndWaitForRandomValue(n)
  BY Zenon, <1>11, <1>g, <1>o
     DEF SendAndWaitForRandomValue, Stays, Fails, Advances
<1>12. CASE SendAndWaitForSignedBlocks(n)
  BY Zenon, <1>12, <1>g, <1>o
     DEF SendAndWaitForSignedBlocks, handle_block_found, Stays, Leaves, Fails
<1>13. CASE \E m \in net : HandleMessage(n, m)
  BY Zenon, <1>13 DEF HandleMessage, Stays
<1>14. CASE ReceiveBlock(n)
  BY Zenon, <1>14 DEF ReceiveBlock, Stays
<1>15. CASE Restart(n)
  BY Zenon, <1>15 DEF Restart, TypeOK, Resets
<1>. QED
  BY Zenon, <1>1, <1>2, <1>3, <1>4, <1>5, <1>6, <1>7, <1>8, <1>9, <1>10, <1>11,
     <1>12, <1>13, <1>14, <1>15 DEF Step, Main

(* The steps of n that are not a state function.                           *)
Aside(n) ==
  (\E m \in net : HandleMessage(n, m)) \/ ReceiveBlock(n) \/ Restart(n)

(* They leave the state alone, or restart the node.                        *)
LEMMA AsideStays ==
  ASSUME TypeOK, NEW n \in Node, Aside(n)
  PROVE  state'[n] = state[n] \/ state'[n] = null_state
BY Zenon DEF Aside, HandleMessage, ReceiveBlock, Restart, TypeOK

(* The state tells which state function runs.                              *)
LEMMA StateFunction ==
  ASSUME NEW n \in Node, Step(n), ~Aside(n)
  PROVE  /\ state[n] = 0 => NullState(n)
         /\ state[n] = 1 => WaitForNextBlock(n)
         /\ state[n] = 2 => PrepareForRound(n)
         /\ state[n] = 3 => WaitForRound(n)
         /\ state[n] = 4 => SendAndWaitForHandshakes(n)
         /\ state[n] = 5 => SendHandshakeBitsets(n)
         /\ state[n] = 6 => WaitForHandshakeBitsets(n)
         /\ state[n] = 7 => SendBlockTemplate(n)
         /\ state[n] = 8 => WaitForBlockTemplate(n)
         /\ state[n] = 9 => SendAndWaitForRandomValueHashes(n)
         /\ state[n] = 10 => SendAndWaitForRandomValue(n)
         /\ state[n] = 11 => SendAndWaitForSignedBlocks(n)
<1>0. NullState(n) => state[n] = 0  BY Zenon DEF NullState
<1>1. WaitForNextBlock(n) => state[n] = 1  BY Zenon DEF WaitForNextBlock
<1>2. PrepareForRound(n) => state[n] = 2  BY Zenon DEF PrepareForRound
<1>3. WaitForRound(n) => state[n] = 3  BY Zenon DEF WaitForRound
<1>4. SendAndWaitForHandshakes(n) => state[n] = 4
  BY Zenon DEF SendAndWaitForHandshakes
<1>5. SendHandshakeBitsets(n) => state[n] = 5
  BY Zenon DEF SendHandshakeBitsets
<1>6. WaitForHandshakeBitsets(n) => state[n] = 6
  BY Zenon DEF WaitForHandshakeBitsets
<1>7. SendBlockTemplate(n) => state[n] = 7  BY Zenon DEF SendBlockTemplate
<1>8. WaitForBlockTemplate(n) => state[n] = 8
  BY Zenon DEF WaitForBlockTemplate
<1>9. SendAndWaitForRandomValueHashes(n) => state[n] = 9
  BY Zenon DEF SendAndWaitForRandomValueHashes
<1>10. SendAndWaitForRandomValue(n) => state[n] = 10
  BY Zenon DEF SendAndWaitForRandomValue
<1>11. SendAndWaitForSignedBlocks(n) => state[n] = 11
  BY Zenon DEF SendAndWaitForSignedBlocks
<1>. QED
  BY <1>0, <1>1, <1>2, <1>3, <1>4, <1>5, <1>6, <1>7, <1>8, <1>9, <1>10, <1>11
     DEF Step, Main, Aside

(* Only a completed block and a block from a peer move a tip.              *)
LEMMA ChainKept ==
  ASSUME TypeOK, NEW n \in Node, Step(n)
  PROVE  \/ tip' = tip /\ blocks' = blocks
         \/ /\ state[n] = send_and_wait_for_signed_blocks
            /\ AddBlock(n, final[n])
         \/ ReceiveBlock(n)
<1>. USE DEF chainVars
<1>1. CASE NullState(n)  BY Zenon, <1>1 DEF NullState
<1>2. CASE WaitForNextBlock(n)  BY Zenon, <1>2 DEF WaitForNextBlock
<1>3. CASE PrepareForRound(n)  BY Zenon, <1>3 DEF PrepareForRound
<1>4. CASE WaitForRound(n)  BY Zenon, <1>4 DEF WaitForRound
<1>5. CASE SendAndWaitForHandshakes(n)
  BY Zenon, <1>5 DEF SendAndWaitForHandshakes
<1>6. CASE SendHandshakeBitsets(n)  BY Zenon, <1>6 DEF SendHandshakeBitsets
<1>7. CASE WaitForHandshakeBitsets(n)
  BY Zenon, <1>7 DEF WaitForHandshakeBitsets
<1>8. CASE SendBlockTemplate(n)  BY Zenon, <1>8 DEF SendBlockTemplate
<1>9. CASE WaitForBlockTemplate(n)  BY Zenon, <1>9 DEF WaitForBlockTemplate
<1>10. CASE SendAndWaitForRandomValueHashes(n)
  BY Zenon, <1>10 DEF SendAndWaitForRandomValueHashes
<1>11. CASE SendAndWaitForRandomValue(n)
  BY Zenon, <1>11 DEF SendAndWaitForRandomValue
<1>12. CASE SendAndWaitForSignedBlocks(n)
  BY Zenon, <1>12 DEF SendAndWaitForSignedBlocks, handle_block_found
<1>13. CASE \E m \in net : HandleMessage(n, m)
  BY Zenon, <1>13 DEF HandleMessage
<1>14. CASE ReceiveBlock(n)  BY Zenon, <1>14
<1>15. CASE Restart(n)  BY Zenon, <1>15 DEF Restart
<1>. QED
  BY Zenon, <1>1, <1>2, <1>3, <1>4, <1>5, <1>6, <1>7, <1>8, <1>9, <1>10, <1>11,
     <1>12, <1>13, <1>14, <1>15 DEF Step, Main

(* A tip moves to a block that follows it.                                 *)
LEMMA ChainStep ==
  ASSUME TypeOK, ChainInv, NEW n \in Node, FinalInv(n), Step(n)
  PROVE  /\ ChainInv' /\ Len(blocks) <= Len(blocks')
         /\ tip[n] <= tip'[n]
<1>0. /\ Len(blocks) \in Nat /\ DOMAIN blocks = 1 .. Len(blocks)
      /\ blocks \in Seq(FinalBlock)
      /\ \A k \in Node : tip[k] \in Nat
  BY SizeAssumption DEF TypeOK, Hash
<1>1. CASE tip' = tip /\ blocks' = blocks
  BY <1>0, <1>1 DEF ChainInv
<1>2. CASE state[n] = send_and_wait_for_signed_blocks /\ AddBlock(n, final[n])
  <2>. DEFINE known == {h \in DOMAIN blocks : blocks[h] = final[n]}
              h0 == CHOOSE h \in known : TRUE
  <2>1. final[n] \in FinalBlock /\ final[n].prev <= Len(blocks)
    BY Zenon, <1>2 DEF FinalInv
  <2>2. final[n].prev \in Nat
    BY <2>1, SizeAssumption DEF FinalBlock, Hash
  <2>3. known # {} => h0 \in 1 .. Len(blocks) /\ blocks[h0] = final[n]
    BY Zenon, <1>0
  <2>. HIDE DEF known, h0
  <2>4. /\ blocks' = IF known = {} THEN Append(blocks, final[n]) ELSE blocks
        /\ tip' = IF tip[n] # final[n].prev THEN tip
                  ELSE [tip EXCEPT ![n] = IF known = {} THEN Len(blocks) + 1
                                          ELSE h0]
    BY Zenon, <1>2 DEF AddBlock, known, h0
  <2>5. known # {} => final[n].prev < h0 /\ h0 <= Len(blocks) /\ h0 \in Nat
    BY <1>0, <2>2, <2>3 DEF ChainInv
  <2>6. Len(blocks') \in Nat /\ Len(blocks) <= Len(blocks')
        /\ (known = {} => Len(blocks') = Len(blocks) + 1)
    BY <1>0, <2>1, <2>4
  <2>7. \A h \in 1 .. Len(blocks') : blocks'[h].prev < h
    BY <1>0, <2>1, <2>2, <2>4, <2>6 DEF ChainInv
  <2>8. tip' \in [Node -> Nat] /\ \A k \in Node : tip'[k] <= Len(blocks')
    BY <1>0, <2>4, <2>5, <2>6 DEF ChainInv, TypeOK
  <2>9. tip[n] <= tip'[n]
    BY <1>0, <2>1, <2>2, <2>4, <2>5 DEF TypeOK
  <2>. QED  BY Zenon, <2>6, <2>7, <2>8, <2>9 DEF ChainInv
<1>3. CASE ReceiveBlock(n)
  <2>1. PICK h \in DOMAIN blocks : blocks[h].prev = tip[n] /\ tip' = [tip EXCEPT ![n] = h]
    BY Zenon, <1>3 DEF ReceiveBlock
  <2>2. blocks' = blocks
    BY Zenon, <1>3 DEF ReceiveBlock
  <2>3. tip[n] < h /\ h <= Len(blocks)
    BY <1>0, <2>1 DEF ChainInv
  <2>. QED  BY <1>0, <2>1, <2>2, <2>3 DEF ChainInv, TypeOK
<1>. QED  BY Zenon, <1>1, <1>2, <1>3, ChainKept

(* What a step does to the value, the bitset and the block of n.           *)
LEMMA DataKept ==
  ASSUME TypeOK, NEW n \in Node, Step(n)
  PROVE  /\ \/ /\ value'[n] = value[n]
               /\ state[n] = wait_for_block_template =>
                    state'[n] # send_and_wait_for_random_value_hashes
            \/ state[n] = wait_for_block_template /\ value'[n] \in RandomValue
            \/ clear_transient(n) /\ state'[n] <= wait_for_round
         /\ \/ best'[n] = best[n]
            \/ /\ state[n] = wait_for_handshake_bitsets
               /\ state'[n] > wait_for_handshake_bitsets
            \/ clear_transient(n) /\ state'[n] <= wait_for_round
         /\ \/ final'[n] = final[n]
            \/ /\ state[n] = send_and_wait_for_random_value
               /\ state'[n] = send_and_wait_for_signed_blocks
            \/ clear_transient(n) /\ state'[n] <= wait_for_round
<1>. USE Abandoned DEF transientVars
<1>g. \A s : Goto(n, s) => state'[n] = s
  BY Zenon DEF TypeOK, Goto
<1>o. /\ 0 <= 3 /\ 1 <= 3 /\ 3 <= 3 /\ 7 > 6 /\ 8 > 6 /\ 2 # 9 /\ 8 # 9
      /\ 0 # 8 /\ 1 # 8 /\ 2 # 8 /\ 3 # 8 /\ 4 # 8 /\ 5 # 8 /\ 6 # 8 /\ 7 # 8
      /\ 9 # 8 /\ 10 # 8 /\ 11 # 8
  OBVIOUS
<1>1. CASE NullState(n)  BY Zenon, <1>1, <1>o DEF NullState
<1>2. CASE WaitForNextBlock(n)  BY Zenon, <1>2, <1>o DEF WaitForNextBlock
<1>3. CASE PrepareForRound(n)  BY Zenon, <1>3, <1>g, <1>o DEF PrepareForRound
<1>4. CASE WaitForRound(n)  BY Zenon, <1>4, <1>o DEF WaitForRound
<1>5. CASE SendAndWaitForHandshakes(n)
  BY Zenon, <1>5, <1>o DEF SendAndWaitForHandshakes
<1>6. CASE SendHandshakeBitsets(n)
  BY Zenon, <1>6, <1>o DEF SendHandshakeBitsets
<1>7. CASE WaitForHandshakeBitsets(n)
  BY Zenon, <1>7, <1>g, <1>o DEF WaitForHandshakeBitsets
<1>8. CASE SendBlockTemplate(n)  BY Zenon, <1>8, <1>o DEF SendBlockTemplate
<1>9. CASE WaitForBlockTemplate(n)
  BY Zenon, <1>9, <1>g, <1>o, Queued DEF WaitForBlockTemplate, TypeOK
<1>10. CASE SendAndWaitForRandomValueHashes(n)
  BY Zenon, <1>10, <1>o DEF SendAndWaitForRandomValueHashes
<1>11. CASE SendAndWaitForRandomValue(n)
  BY Zenon, <1>11, <1>g, <1>o DEF SendAndWaitForRandomValue
<1>12. CASE SendAndWaitForSignedBlocks(n)
  BY Zenon, <1>12, <1>o DEF SendAndWaitForSignedBlocks, handle_block_found
<1>13. CASE \E m \in net : HandleMessage(n, m)
  BY Zenon, <1>13, <1>o DEF HandleMessage
<1>14. CASE ReceiveBlock(n)  BY Zenon, <1>14, <1>o DEF ReceiveBlock
<1>15. CASE Restart(n)  BY Zenon, <1>15, <1>o DEF Restart, TypeOK
<1>. QED
  BY Zenon, <1>1, <1>2, <1>3, <1>4, <1>5, <1>6, <1>7, <1>8, <1>9, <1>10, <1>11,
     <1>12, <1>13, <1>14, <1>15 DEF Step, Main

(* A node past wait_for_round is the validator or producer it was.         *)
LEMMA RoleStep ==
  ASSUME TypeOK, TypeOK', ChainInv, NEW n \in Node, NodeInv(n), Step(n)
  PROVE  RoleInv(n)'
<1>. USE DEF RoleInv
<1>0. /\ state[n] \in 0 .. 11 /\ tip[n] \in Nat /\ tip'[n] \in Nat
      /\ tip[n] \in Hash /\ NoHash \in Int
      /\ (top[n] \in Hash \/ top[n] = NoHash) /\ top[n] \in Int
      /\ RoleInv(n) /\ FinalInv(n)
  <2>1. /\ state[n] \in 0 .. 11 /\ tip[n] \in Hash /\ tip'[n] \in Hash
        /\ top[n] \in Hash \cup {NoHash} /\ RoleInv(n) /\ FinalInv(n)
    BY Zenon DEF TypeOK, round_state, NodeInv
  <2>2. NoHash \in Int /\ \A h \in Hash : h \in Nat /\ h \in Int
    BY SizeAssumption DEF Hash, NoHash
  <2>. QED  BY Zenon, <2>1, <2>2
<1>1. tip[n] <= tip'[n]
  BY Zenon, <1>0, ChainStep
<1>2. top'[n] <= tip'[n]
  <2>1. top'[n] \in {top[n], tip[n], NoHash}
    BY Zenon, Control
       DEF Moves, Stays, Boots, Enters, Starts, Leaves, Fails, Advances, Resets
  <2>2. top[n] <= tip[n]  BY Zenon, <1>0
  <2>. QED  BY <1>0, <1>1, <2>1, <2>2 DEF NoHash
<1>3. CASE Stays(n)
  <2>1. state[n] >= 9 => value'[n] \in RandomValue
    <3>1. state'[n] = state[n]  BY Zenon, <1>3 DEF Stays
    <3>2. state[n] >= 9 => ~(state'[n] <= 3)  BY <1>0, <3>1
    <3>. QED  BY Zenon, <1>0, <3>2, DataKept
  <2>. QED  BY Zenon, <1>0, <1>2, <1>3, <2>1 DEF Stays, IsValidator, IsProducer
<1>4. CASE Advances(n)
  <2>1. state'[n] >= 9 => value'[n] \in RandomValue
    <3>1. \/ state'[n] \in {4, 5, 6, 7, 8}
          \/ state[n] = 8 /\ state'[n] = 9
          \/ state[n] \in {9, 10} /\ state'[n] \in {10, 11}
      BY Zenon, <1>4 DEF Advances
    <3>2. state'[n] >= 9 =>
            /\ ~(state'[n] <= 3)
            /\ state[n] >= 9 \/ (state[n] = 8 /\ state'[n] = 9)
      BY <3>1
    <3>. QED  BY Zenon, <1>0, <3>2, DataKept
  <2>2. /\ top'[n] = top[n] /\ round'[n] = round[n]
        /\ (n \in queued' <=> n \in queued)
    BY Zenon, <1>4 DEF Advances
  <2>3. (IsValidator(n)' <=> IsValidator(n)) /\ (IsProducer(n)' <=> IsProducer(n))
    BY Zenon, <2>2 DEF IsValidator, IsProducer
  <2>4. n \notin queued' /\ top'[n] \in Hash
    <3>1. state[n] \in {3, 4, 5, 6, 8, 9, 10}
      BY Zenon, <1>4 DEF Advances
    <3>2. state[n] # 2 /\ state[n] >= 2  BY <3>1
    <3>. QED  BY Zenon, <1>0, <2>2, <3>2
  <2>5. /\ state[n] \in {4, 5, 8, 9, 10} => IsValidator(n)
        /\ state[n] = 6 => IsValidator(n) \/ IsProducer(n)
    <3>1. 8 \in 8 .. 11 /\ 9 \in 8 .. 11 /\ 10 \in 8 .. 11  OBVIOUS
    <3>. QED  BY Zenon, <1>0, <3>1
  <2>6. \/ state'[n] \in {4, 5, 8, 9, 10, 11} /\ IsValidator(n)
        \/ state'[n] = 6 /\ (IsValidator(n) \/ IsProducer(n))
        \/ state'[n] = 7 /\ IsProducer(n)
    BY Zenon, <1>4, <2>5 DEF Advances
  <2>. QED  BY <1>2, <2>1, <2>3, <2>4, <2>6
<1>b. ASSUME state'[n] \in {0, 1, 2, 3}, n \in queued' => state'[n] = 2,
             state'[n] \in {2, 3} => top'[n] \in Hash
      PROVE  RoleInv(n)'
  BY <1>2, <1>b
<1>o. /\ 0 # 2 /\ 0 # 3 /\ 1 # 2 /\ 1 # 3 /\ 2 >= 2
      /\ state[n] >= 3 => state[n] >= 2
  BY <1>0
<1>5. CASE Boots(n)
  BY Zenon, <1>0, <1>b, <1>o, <1>5 DEF Boots
<1>6. CASE Enters(n)
  BY Zenon, <1>0, <1>b, <1>6 DEF Enters
<1>7. CASE Starts(n)
  BY Zenon, <1>0, <1>b, <1>o, <1>7 DEF Starts
<1>8. CASE Leaves(n)
  BY Zenon, <1>b, <1>o, <1>8 DEF Leaves
<1>9. CASE Fails(n)
  BY Zenon, <1>0, <1>b, <1>o, <1>9 DEF Fails
<1>10. CASE Resets(n)
  BY Zenon, <1>b, <1>o, <1>10 DEF Resets
<1>. QED
  BY Zenon, <1>3, <1>4, <1>5, <1>6, <1>7, <1>8, <1>9, <1>10, Control DEF Moves

-----------------------------------------------------------------------------
(* What a message n makes in a step looks like.                            *)
OwnMessage(n, m) ==
  /\ m \in Message /\ m.from = n /\ m.round = round[n] /\ TopOf(m) = top[n]
  /\ state[n] > wait_for_round
  /\ m.type # block_template =>
       /\ m.top = top[n] /\ m.pos = MyPosition(n) /\ m.pos \in Pos
       /\ n = Validator(top[n], round[n], m.pos)
       /\ ~Did(n, m.type)
  /\ m.type = block_template =>
       /\ state[n] = send_block_template
       /\ m.block.round = round[n] /\ m.block.prev = tip[n]
  /\ m.type = handshake_bitset =>
       state[n] = send_handshake_bitsets /\ m.pos \in m.bitset
  /\ m.type \notin {handshake_bitset, block_template} =>
       state[n] = StageOf(m.type)
  /\ m.type = random_value => m.value = value[n]
  /\ m.type = signed_block => m.signed = final[n]

(* What a node's own messages contain.                                     *)
LEMMA OwnMessageFacts ==
  ASSUME TypeOK, NEW n \in Node, NodeInv(n), NEW M \in Created(n), NEW m \in M
  PROVE  OwnMessage(n, m)
<1>0. m \in Message  BY Zenon DEF Created
<1>1. state[n] \in {4, 5, 9, 10, 11} =>
        MyPosition(n) \in Pos /\ n = Validator(top[n], round[n], MyPosition(n))
  <2>1. RoleInv(n) /\ 9 \in 8 .. 11 /\ 10 \in 8 .. 11 /\ 11 \in 8 .. 11
    BY DEF NodeInv
  <2>2. state[n] \in {4, 5, 9, 10, 11} => IsValidator(n)
    BY Zenon, <2>1 DEF RoleInv
  <2>. QED  BY Zenon, <2>2, Position
<1>. USE DEF OwnMessage, TopOf, Did, StageOf
<1>2. CASE state[n] = send_and_wait_for_handshakes /\ M = MyHandshake(n)
  BY <1>0, <1>1, <1>2 DEF MyHandshake
<1>3. CASE state[n] = send_handshake_bitsets /\ M = {MyHandshakeBitset(n)}
  BY <1>0, <1>1, <1>3 DEF MyHandshakeBitset, NodeInv, HandshakeInv
<1>4. CASE /\ state[n] = send_block_template /\ tip[n] = top[n]
           /\ \E x \in Payload : M = {MyBlockTemplate(n, x)}
  BY <1>0, <1>4 DEF MyBlockTemplate
<1>5. CASE state[n] = send_and_wait_for_random_value_hashes /\ M = MyRandomValueHash(n)
  BY <1>0, <1>1, <1>5 DEF MyRandomValueHash
<1>6. CASE state[n] = send_and_wait_for_random_value /\ M = MyRandomValue(n)
  BY <1>0, <1>1, <1>6 DEF MyRandomValue
<1>7. CASE state[n] = send_and_wait_for_signed_blocks /\ M = MySignedBlock(n)
  BY <1>0, <1>1, <1>7 DEF MySignedBlock
<1>. QED  BY Zenon, <1>2, <1>3, <1>4, <1>5, <1>6, <1>7 DEF Created

=============================================================================
