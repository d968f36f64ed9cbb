---------------------------- MODULE PulseStages -----------------------------
(***************************************************************************)
(* A step of a node keeps what the invariant says of the messages it       *)
(* holds, of its lock-in, its template and the random values.              *)
(***************************************************************************)
EXTENDS PulseProofs

USE DEF null_state, wait_for_next_block, prepare_for_round, wait_for_round,
  send_and_wait_for_handshakes, send_handshake_bitsets,
  wait_for_handshake_bitsets, send_block_template, wait_for_block_template,
  send_and_wait_for_random_value_hashes, send_and_wait_for_random_value,
  send_and_wait_for_signed_blocks, handshake, handshake_bitset,
  block_template, random_value_hash, random_value, signed_block

(* How a step changes the messages n holds.                                *)
Collects(n) ==
  \E own \in Created(n), type \in message_type :
    /\ type # block_template \/ own = {}
    /\ \A m \in own : m.type = type
    /\ state[n] = StageOf(type)
    /\ rcv'[n] = Collect(n, own, type)
    /\ early'[n] \subseteq early[n]
    /\ net' = net \cup rcv'[n]
    /\ sent'[n] = sent[n] \cup {m.type : m \in own}
    /\ state'[n] = prepare_for_round \/ state'[n] >= state[n]

Holds(n) ==
  \/ clear_transient(n) /\ state'[n] <= wait_for_round
  \/ /\ rcv'[n] = rcv[n] /\ sent'[n] = sent[n] /\ net \subseteq net'
     /\ early'[n] \subseteq
          early[n] \cup {m \in {MyHandshakeBitset(n)} : {m} \in Created(n)}
  \/ Collects(n)
  \/ \E m \in net : HandleMessage(n, m)

(* A message that arrives only adds to what n holds.                       *)
LEMMA Handled ==
  ASSUME TypeOK, NEW n \in Node, \E m \in net : HandleMessage(n, m)
  PROVE  /\ state'[n] = state[n] /\ sent'[n] = sent[n]
         /\ rcv[n] \subseteq rcv'[n]
<1>1. PICK m \in net : HandleMessage(n, m)  OBVIOUS
<1>2. state' = state /\ sent' = sent
  BY Zenon, <1>1 DEF HandleMessage
<1>3. rcv' = rcv \/ rcv' = [rcv EXCEPT ![n] = rcv[n] \cup {m}]
  BY Zenon, <1>1 DEF HandleMessage
<1>4. n \in DOMAIN rcv  BY Zenon DEF TypeOK
<1>5. rcv[n] \subseteq rcv'[n]  BY Zenon, <1>3, <1>4
<1>. QED  BY Zenon, <1>2, <1>5

(* The stage that follows another, and the ways back.                      *)
LEMMA NextStage ==
  ASSUME TypeOK, NEW n \in Node, Step(n)
  PROVE  \/ clear_transient(n) /\ state'[n] <= wait_for_round
         \/ /\ top'[n] = top[n] /\ round'[n] = round[n]
            /\ state'[n] = state[n] \/ (state[n] >= 3 /\ state'[n] = 2)
         \/ state[n] <= 1 /\ state'[n] <= 2
         \/ /\ top'[n] = top[n] /\ round'[n] = round[n]
            /\ \/ state[n] = 3 /\ state'[n] \in {4, 6}
               \/ state[n] = 4 /\ state'[n] = 5
               \/ state[n] = 5 /\ state'[n] = 6
               \/ state[n] = 6 /\ state'[n] \in {7, 8}
               \/ state[n] = 8 /\ state'[n] = 9
               \/ state[n] = 9 /\ state'[n] = 10
               \/ state[n] = 10 /\ state'[n] = 11
<1>1. Moves(n)  BY Zenon, Control
<1>2. 0 <= 1 /\ 1 <= 1 /\ 1 <= 2 /\ 2 <= 2 /\ 0 <= 3 /\ 1 <= 3 /\ 3 <= 3
  OBVIOUS
<1>. QED
  BY Zenon, <1>1, <1>2
     DEF Moves, Stays, Boots, Enters, Starts, Leaves, Fails, Advances, Resets

(* What a node holds after its stage's messages are collected.             *)
LEMMA Holding ==
  ASSUME TypeOK, NEW n \in Node, NodeInv(n), Step(n)
  PROVE  Holds(n)
<1>. USE DEF Holds, transientVars
<1>0. /\ RoleInv(n) /\ FinalInv(n) /\ {} \in Created(n)
  BY DEF NodeInv, Created
<1>g. \A s : Goto(n, s) => state'[n] = s
  BY Zenon DEF TypeOK, Goto
<1>o. /\ 0 <= 3 /\ 1 <= 3 /\ 3 <= 3 /\ 4 >= 4 /\ 5 >= 4 /\ 6 >= 6 /\ 7 >= 6
      /\ 8 >= 6 /\ 8 >= 8 /\ 9 >= 8 /\ 9 >= 9 /\ 10 >= 9 /\ 10 >= 10
      /\ 11 >= 10 /\ 11 >= 11
  OBVIOUS
<1>s. /\ StageOf(1) = 4 /\ StageOf(2) = 6 /\ StageOf(3) = 8 /\ StageOf(4) = 9
      /\ StageOf(5) = 10 /\ StageOf(6) = 11
      /\ 1 # 3 /\ 2 # 3 /\ 4 # 3 /\ 5 # 3 /\ 6 # 3
  BY DEF StageOf
<1>c. ASSUME NEW own \in Created(n), NEW type \in message_type,
             type # block_template \/ own = {}, \A m \in own : m.type = type,
             state[n] = StageOf(type), SendAndCollect(n, own, type),
             state'[n] = prepare_for_round \/ state'[n] >= state[n]
      PROVE  Collects(n)
  <2>1. /\ rcv'[n] = Collect(n, own, type)
        /\ net' = net \cup rcv'[n]
        /\ early'[n] \subseteq early[n]
        /\ sent'[n] = sent[n] \cup {m.type : m \in own}
    BY <1>c, Collected
  <2>. QED  BY Zenon, <1>c, <2>1 DEF Collects
<1>t. /\ 1 \in message_type /\ 2 \in message_type /\ 3 \in message_type
      /\ 4 \in message_type /\ 5 \in message_type /\ 6 \in message_type
  BY DEF message_type
<1>1. CASE NullState(n)  BY Zenon, <1>1 DEF NullState
<1>2. CASE WaitForNextBlock(n)  BY Zenon, <1>2 DEF WaitForNextBlock
<1>3. CASE PrepareForRound(n)
  BY Zenon, <1>3, <1>o, <1>g, Abandoned DEF PrepareForRound
<1>4. CASE WaitForRound(n)  BY Zenon, <1>4, <1>o, Abandoned DEF WaitForRound
<1>5. CASE SendAndWaitForHandshakes(n)
  <2>1. MyHandshake(n) \in Created(n)
    BY Zenon, <1>0, <1>5, OwnMessages DEF SendAndWaitForHandshakes, Created
  <2>2. CASE /\ SendAndCollect(n, MyHandshake(n), handshake)
             /\ state'[n] >= state[n]
    <3>1. \A m \in MyHandshake(n) : m.type = handshake  BY DEF MyHandshake
    <3>2. state[n] = StageOf(handshake)
      BY Zenon, <1>5, <1>s DEF SendAndWaitForHandshakes
    <3>. QED  BY Zenon, <1>0, <1>c, <1>s, <1>t, <2>1, <2>2, <3>1, <3>2
  <2>3. CASE net \subseteq net' /\ UNCHANGED transientVars
    BY Zenon, <2>3
  <2>. QED  BY Zenon, <1>5, <1>g, <1>o, <2>2, <2>3 DEF SendAndWaitForHandshakes
<1>6. CASE SendHandshakeBitsets(n)
  <2>1. {MyHandshakeBitset(n)} \in Created(n)
    BY Zenon, <1>0, <1>6, OwnMessages DEF SendHandshakeBitsets, Created
  <2>. QED  BY Zenon, <1>6, <2>1 DEF SendHandshakeBitsets, TypeOK
<1>7. CASE WaitForHandshakeBitsets(n)
  <2>1. state[n] = StageOf(handshake_bitset)
    BY Zenon, <1>7, <1>s DEF WaitForHandshakeBitsets
  <2>2. state'[n] = prepare_for_round \/ state'[n] >= state[n]
    BY Zenon, <1>7, <1>g, <1>o, Queued DEF WaitForHandshakeBitsets
  <2>3. SendAndCollect(n, {}, handshake_bitset)
    BY Zenon, <1>7 DEF WaitForHandshakeBitsets
  <2>. QED  BY Zenon, <1>0, <1>c, <1>s, <1>t, <2>1, <2>2, <2>3
<1>8. CASE SendBlockTemplate(n)
  BY Zenon, <1>8, <1>o, Abandoned DEF SendBlockTemplate
<1>9. CASE WaitForBlockTemplate(n)
  <2>1. state[n] = StageOf(block_template)
    BY Zenon, <1>9, <1>s DEF WaitForBlockTemplate
  <2>2. state'[n] = prepare_for_round \/ state'[n] >= state[n]
    BY Zenon, <1>9, <1>g, <1>o, Queued DEF WaitForBlockTemplate
  <2>3. SendAndCollect(n, {}, block_template)
    BY Zenon, <1>9 DEF WaitForBlockTemplate
  <2>. QED  BY Zenon, <1>0, <1>c, <1>s, <1>t, <2>1, <2>2, <2>3
<1>10. CASE SendAndWaitForRandomValueHashes(n)
  <2>1. state[n] = StageOf(random_value_hash)
    BY Zenon, <1>10, <1>s DEF SendAndWaitForRandomValueHashes
  <2>2. state'[n] = prepare_for_round \/ state'[n] >= state[n]
    BY Zenon, <1>10, <1>g, <1>o, Queued DEF SendAndWaitForRandomValueHashes
  <2>3. SendAndCollect(n, MyRandomValueHash(n), random_value_hash)
    BY Zenon, <1>10 DEF SendAndWaitForRandomValueHashes
  <2>4. MyRandomValueHash(n) \in Created(n)
    BY Zenon, <1>0, <1>10, OwnMessages
       DEF SendAndWaitForRandomValueHashes, Created
  <2>5. \A m \in MyRandomValueHash(n) : m.type = random_value_hash
    BY DEF MyRandomValueHash
  <2>. QED  BY Zenon, <1>0, <1>c, <1>s, <1>t, <2>1, <2>2, <2>3, <2>4, <2>5
<1>11. CASE SendAndWaitForRandomValue(n)
  <2>1. state[n] = StageOf(random_value)
    BY Zenon, <1>11, <1>s DEF SendAndWaitForRandomValue
  <2>2. state'[n] = prepare_for_round \/ state'[n] >= state[n]
    BY Zenon, <1>11, <1>g, <1>o, Queued DEF SendAndWaitForRandomValue
  <2>3. SendAndCollect(n, MyRandomValue(n), random_value)
    BY Zenon, <1>11 DEF SendAndWaitForRandomValue
  <2>4. MyRandomValue(n) \in Created(n)
    BY Zenon, <1>0, <1>11, OwnMessages DEF SendAndWaitForRandomValue, Created
  <2>5. \A m \in MyRandomValue(n) : m.type = random_value
    BY DEF MyRandomValue
  <2>. QED  BY Zenon, <1>0, <1>c, <1>s, <1>t, <2>1, <2>2, <2>3, <2>4, <2>5
<1>12. CASE SendAndWaitForSignedBlocks(n)
  <2>1. state[n] = StageOf(signed_block)
    BY Zenon, <1>12, <1>s DEF SendAndWaitForSignedBlocks
  <2>2. MySignedBlock(n) \in Created(n)
    BY Zenon, <1>0, <1>12, OwnMessages
       DEF SendAndWaitForSignedBlocks, FinalInv, Created
  <2>3. \A m \in MySignedBlock(n) : m.type = signed_block
    BY DEF MySignedBlock
  <2>4. CASE /\ SendAndCollect(n, MySignedBlock(n), signed_block)
             /\ state'[n] = prepare_for_round \/ state'[n] >= state[n]
    BY Zenon, <1>0, <1>c, <1>s, <1>t, <2>1, <2>2, <2>3, <2>4
  <2>5. CASE clear_transient(n) /\ state'[n] <= wait_for_round
    BY Zenon, <2>5
  <2>6. CASE AllSigned(n)
    <3>1. handle_block_found(n)
      BY Zenon, <1>12, <2>6 DEF SendAndWaitForSignedBlocks
    <3>2. CASE /\ SendAndCollect(n, MySignedBlock(n), signed_block)
               /\ goto_preparing_for_next_round(n)
      BY Zenon, <2>4, <3>2, Queued
    <3>3. CASE goto_wait_for_next_block_and_clear_round_data(n)
      BY Zenon, <1>o, <2>5, <3>3, Abandoned
    <3>. QED  BY Zenon, <3>1, <3>2, <3>3 DEF handle_block_found
  <2>7. CASE ~AllSigned(n)
    BY Zenon, <1>12, <1>g, <1>o, <2>4, <2>7, Queued
       DEF SendAndWaitForSignedBlocks
  <2>. QED  BY Zenon, <2>6, <2>7
<1>13. CASE \E m \in net : HandleMessage(n, m)
  BY Zenon, <1>13
<1>14. CASE ReceiveBlock(n)  BY Zenon, <1>14 DEF ReceiveBlock
<1>15. CASE Restart(n)  BY Zenon, <1>15, <1>o DEF Restart, TypeOK
<1>. QED
  BY Zenon, <1>1, <1>2, <1>3, <1>4, <1>5, <1>6, <1>7, <1>8, <1>9, <1>10, <1>11,
     <1>12, <1>13, <1>14, <1>15 DEF Step, Main

(* n checks again what it holds with the same quorum, if it keeps it.      *)
LEMMA SameQuorum ==
  ASSUME TypeOK, NEW n \in Node, NodeInv(n), Step(n),
         state[n] > wait_for_next_block, state'[n] # wait_for_next_block,
         state'[n] # null_state, state'[n] # wait_for_round \/ state[n] = wait_for_round
  PROVE  /\ top'[n] = top[n] /\ round'[n] = round[n]
         /\ state'[n] = prepare_for_round \/ state'[n] >= state[n]
         /\ \A m : msg_signature_check(n, m)' <=> msg_signature_check(n, m)
<1>0. state[n] \in 0 .. 11  BY Zenon DEF TypeOK, round_state
<1>1. /\ top'[n] = top[n] /\ round'[n] = round[n]
      /\ state'[n] = prepare_for_round \/ state'[n] >= state[n]
  BY <1>0, Control
     DEF Moves, Stays, Boots, Enters, Starts, Leaves, Fails, Advances,
    Resets
<1>. QED  BY Zenon, <1>1 DEF msg_signature_check

(* What a node stores has been checked, and relayed.                       *)
LEMMA StoreStep ==
  ASSUME TypeOK, TypeOK', ChainInv, NEW n \in Node, NodeInv(n), Step(n)
  PROVE  StoreInv(n)'
<1>0. /\ state[n] \in 0 .. 11 /\ state'[n] \in 0 .. 11 /\ StoreInv(n)
      /\ rcv[n] \in SUBSET Message /\ early[n] \in SUBSET Message
      /\ n \in Node
  BY Zenon DEF TypeOK, round_state, NodeInv
<1>s. \A m \in Message : m.type \in message_type /\ StageOf(m.type) \in 4 .. 11
  BY DEF Message, StageOf, message_type
<1>1. CASE clear_transient(n)
  BY Zenon, <1>1, Cleared DEF StoreInv
<1>2. CASE /\ rcv'[n] = rcv[n] /\ net \subseteq net'
           /\ early'[n] \subseteq
                early[n] \cup {m \in {MyHandshakeBitset(n)} : {m} \in Created(n)}
           /\ ~clear_transient(n)
  <2>1. CASE state[n] <= wait_for_next_block
    <3>1. rcv'[n] = {} /\ early'[n] \subseteq {m \in {MyHandshakeBitset(n)} : {m} \in Created(n)}
      BY Zenon, <1>0, <1>2, <2>1 DEF StoreInv
    <3>2. \A m : {m} \notin Created(n)
      BY <1>0, <2>1, OwnMessageFacts DEF OwnMessage
    <3>. QED  BY Zenon, <3>1, <3>2 DEF StoreInv
  <2>2. CASE state[n] > wait_for_next_block
    <3>1. /\ top'[n] = top[n] /\ round'[n] = round[n]
          /\ state'[n] = prepare_for_round
             \/ (state'[n] >= state[n] /\ state[n] > prepare_for_round)
             \/ state'[n] = state[n]
          /\ state'[n] > wait_for_next_block
      BY <1>0, <1>2, <2>2, Control
         DEF Moves, Stays, Boots, Enters, Starts, Leaves, Fails, Advances, Resets
    <3>2. \A m \in early'[n] \cup rcv'[n] : msg_signature_check(n, m)
      <4>1. \A m : {m} \in Created(n) /\ m = MyHandshakeBitset(n) => msg_signature_check(n, m)
        BY OwnMessageFacts
           DEF OwnMessage, msg_signature_check, MyHandshakeBitset
      <4>. QED  BY Zenon, <1>0, <1>2, <4>1 DEF StoreInv
    <3>3. \A m \in early'[n] \cup rcv'[n] : msg_signature_check(n, m)'
      BY Zenon, <3>1, <3>2 DEF msg_signature_check
    <3>4. rcv'[n] \subseteq net'
      BY Zenon, <1>0, <1>2 DEF StoreInv
    <3>5. state'[n] > prepare_for_round => \A m \in rcv'[n] : StageOf(m.type) <= state'[n]
      BY <1>0, <1>2, <1>s, <3>1 DEF StoreInv
    <3>. QED  BY <1>0, <3>1, <3>3, <3>4, <3>5 DEF StoreInv
  <2>. QED  BY <1>0, <2>1, <2>2
<1>3. CASE Collects(n) /\ ~clear_transient(n)
  <2>1. PICK own \in Created(n), type \in message_type :
          /\ \A m \in own : m.type = type
          /\ state[n] = StageOf(type)
          /\ type # block_template \/ own = {}
          /\ rcv'[n] = Collect(n, own, type)
          /\ early'[n] \subseteq early[n]
          /\ net' = net \cup rcv'[n]
          /\ state'[n] = prepare_for_round \/ state'[n] >= state[n]
    BY Zenon, <1>3 DEF Collects
  <2>2. state[n] >= 4
    BY <2>1 DEF StageOf, message_type
  <2>3. /\ top'[n] = top[n] /\ round'[n] = round[n]
    BY <1>0, <2>1, <2>2, SameQuorum
  <2>4. \A m \in rcv'[n] : m \in rcv[n] \/ m \in own \/ (m \in early[n] /\ m.type = type)
    BY <2>1, CollectBounds
  <2>5. \A m \in own : msg_signature_check(n, m)
    BY <2>1, OwnMessageFacts DEF OwnMessage, msg_signature_check
  <2>6. \A m \in rcv'[n] \cup early'[n] : msg_signature_check(n, m)'
    BY Zenon, <1>0, <2>1, <2>3, <2>4, <2>5 DEF StoreInv, msg_signature_check
  <2>7. \A m \in rcv'[n] : StageOf(m.type) <= state[n]
    BY <1>0, <2>1, <2>2, <2>4 DEF StoreInv
  <2>8. state'[n] > prepare_for_round => \A m \in rcv'[n] : StageOf(m.type) <= state'[n]
    <3>1. own \in SUBSET Message  BY Zenon DEF Created
    <3>2. \A m \in rcv'[n] : StageOf(m.type) \in 4 .. 11
      BY Zenon, <1>0, <1>s, <2>4, <3>1
    <3>. QED  BY <1>0, <2>1, <2>7, <3>2
  <2>. QED  BY <1>0, <2>1, <2>2, <2>6, <2>8 DEF StoreInv
<1>4. CASE \E m \in net : HandleMessage(n, m)
  <2>1. PICK m \in net : HandleMessage(n, m)  BY Zenon, <1>4
  <2>2. /\ state[n] >= wait_for_round /\ msg_signature_check(n, m)
        /\ top' = top /\ round' = round /\ state' = state /\ net' = net
        /\ \/ early'[n] = early[n] \cup {m} /\ rcv'[n] = rcv[n]
           \/ /\ state[n] >= StageOf(m.type)
              /\ rcv'[n] = rcv[n] \cup {m} /\ early'[n] = early[n]
    BY Zenon, <2>1 DEF HandleMessage, TypeOK, roundVars
  <2>3. \A x \in rcv'[n] \cup early'[n] : msg_signature_check(n, x)'
    BY Zenon, <1>0, <2>2 DEF StoreInv, msg_signature_check
  <2>. QED  BY <1>0, <2>2, <2>3 DEF StoreInv
<1>. QED  BY Zenon, <1>1, <1>2, <1>3, <1>4, Holding DEF Holds

(* n's own handshake is in its bitset from the time it has sent it.        *)
LEMMA HandshakeStep ==
  ASSUME TypeOK, TypeOK', ChainInv, NEW n \in Node, NodeInv(n), Step(n)
  PROVE  HandshakeInv(n)'
<1>0. /\ state[n] \in 0 .. 11 /\ StoreInv(n) /\ HandshakeInv(n) /\ RoleInv(n)
      /\ rcv[n] \in SUBSET Message
  BY Zenon DEF TypeOK, round_state, NodeInv
<1>a. state'[n] = wait_for_round => sent'[n] = {}
  <2>. SUFFICES ASSUME state'[n] = wait_for_round PROVE sent'[n] = {}
    BY Zenon
  <2>1. CASE clear_transient(n)  BY Zenon, <2>1, Cleared
  <2>2. CASE ~clear_transient(n)
    <3>1. state[n] = wait_for_round
      BY <1>0, <2>2, NextStage
    <3>2. ~Collects(n)
      BY <3>1 DEF Collects, StageOf, message_type
    <3>3. (\E m \in net : HandleMessage(n, m)) => sent'[n] = sent[n]
      BY Zenon DEF HandleMessage
    <3>. QED
      BY Zenon, <1>0, <2>2, <3>1, <3>2, <3>3, Holding DEF Holds, HandshakeInv
  <2>. QED  BY Zenon, <2>1, <2>2
<1>. SUFFICES ASSUME \/ state'[n] = send_and_wait_for_handshakes /\ handshake \in sent'[n]
                     \/ state'[n] = send_handshake_bitsets
              PROVE  MyPosition(n)' \in Bits(rcv'[n], handshake)
  BY Zenon, <1>a DEF HandshakeInv
<1>1. top'[n] = top[n] /\ round'[n] = round[n] /\ state[n] \in {3, 4, 5}
  BY <1>0, NextStage
<1>2. MyPosition(n)' = MyPosition(n)
  BY Zenon, <1>1 DEF MyPosition
<1>3. CASE SendAndWaitForHandshakes(n)
  <2>1. state'[n] # prepare_for_round  OBVIOUS
  <2>2. SendAndCollect(n, MyHandshake(n), handshake)
    BY Zenon, <1>3, <2>1, Queued DEF SendAndWaitForHandshakes
  <2>3. rcv'[n] = Collect(n, MyHandshake(n), handshake)
        /\ rcv[n] \subseteq rcv'[n]
    BY <2>2, Collected, CollectBounds
  <2>4. CASE handshake \in sent[n]
    <3>1. MyPosition(n) \in Bits(rcv[n], handshake)
      BY Zenon, <1>0, <1>3, <2>4 DEF HandshakeInv, SendAndWaitForHandshakes
    <3>. QED  BY Zenon, <1>2, <2>3, <3>1 DEF Bits, Stored
  <2>5. CASE handshake \notin sent[n]
    <3>. DEFINE m == [type |-> handshake, from |-> n, top |-> top[n],
                      round |-> round[n], pos |-> MyPosition(n)]
    <3>1. MyHandshake(n) = {m} /\ m.type = handshake /\ m.pos = MyPosition(n)
      BY Zenon, <2>5 DEF MyHandshake
    <3>. HIDE DEF m
    <3>2. state[n] = 4  BY Zenon, <1>3 DEF SendAndWaitForHandshakes
    <3>3. CASE m.pos \in Bits(rcv[n], handshake)
      BY Zenon, <1>2, <2>3, <3>1, <3>3 DEF Bits, Stored
    <3>4. CASE m.pos \notin Bits(rcv[n], handshake)
      <4>1. Accepts(n, rcv[n], m)
        BY <3>1, <3>2, <3>4 DEF Accepts, LockedIn
      <4>2. m \in rcv'[n]
        BY Zenon, <2>3, <3>1, <4>1 DEF Collect
      <4>. QED  BY Zenon, <1>2, <3>1, <4>2 DEF Bits, Stored
    <3>. QED  BY Zenon, <3>3, <3>4
  <2>. QED  BY Zenon, <2>4, <2>5
<1>4. CASE ~SendAndWaitForHandshakes(n)
  <2>0. Aside(n) \/ WaitForRound(n) \/ SendHandshakeBitsets(n)
    BY Zenon, <1>1, <1>4, StateFunction
  <2>1. CASE \E m \in net : HandleMessage(n, m)
    <3>1. state'[n] = state[n] /\ sent'[n] = sent[n] /\ rcv[n] \subseteq rcv'[n]
      BY Zenon, <2>1, Handled
    <3>. QED  BY Zenon, <1>0, <1>2, <3>1 DEF HandshakeInv, Bits, Stored
  <2>2. CASE ReceiveBlock(n)
    <3>1. state'[n] = state[n] /\ sent'[n] = sent[n] /\ rcv[n] = rcv'[n]
      BY Zenon, <2>2 DEF ReceiveBlock, transientVars
    <3>. QED  BY Zenon, <1>0, <1>2, <3>1 DEF HandshakeInv
  <2>3. CASE Restart(n)
    BY <2>3 DEF Restart, TypeOK
  <2>4. CASE WaitForRound(n)
    <3>1. state'[n] # 5 /\ sent'[n] = {}
      <4>1. state[n] = 3 /\ sent[n] = {}
        BY Zenon, <1>0, <2>4 DEF WaitForRound, HandshakeInv
      <4>2. state'[n] # 5
        BY <4>1, NextStage
      <4>3. sent'[n] = {}
        BY Zenon, <2>4, <4>1, Abandoned, Cleared DEF WaitForRound, transientVars
      <4>. QED  BY Zenon, <4>2, <4>3
    <3>. QED  BY Zenon, <3>1
  <2>5. CASE SendHandshakeBitsets(n)
    <3>1. state'[n] = 6 \/ state'[n] = 2
      BY Zenon, <2>5, Queued DEF SendHandshakeBitsets, Goto, TypeOK
    <3>. QED  BY <3>1
  <2>. QED  BY Zenon, <2>0, <2>1, <2>2, <2>3, <2>4, <2>5 DEF Aside
<1>. QED  BY Zenon, <1>3, <1>4

-----------------------------------------------------------------------------
(* n forgets what it holds only by clearing its round data.                *)
LEMMA RcvKept ==
  ASSUME TypeOK, NEW n \in Node, NodeInv(n), Step(n),
         ~(clear_transient(n) /\ state'[n] <= wait_for_round)
  PROVE  rcv[n] \subseteq rcv'[n]
<1>1. CASE \E m \in net : HandleMessage(n, m)
  BY Zenon, <1>1, Handled
<1>2. CASE Collects(n)
  <2>1. PICK own, type : rcv'[n] = Collect(n, own, type)
    BY Zenon, <1>2 DEF Collects
  <2>2. rcv[n] \subseteq Collect(n, own, type)  BY Zenon DEF Collect
  <2>. QED  BY Zenon, <2>1, <2>2
<1>3. Holds(n)  BY Zenon, Holding
<1>. QED  BY Zenon, <1>1, <1>2, <1>3 DEF Holds

(* It clears them only to wait for a block or a round.                     *)
LEMMA RcvGrows ==
  ASSUME TypeOK, TypeOK', NEW n \in Node, NodeInv(n), Step(n),
         state'[n] > wait_for_round
  PROVE  rcv[n] \subseteq rcv'[n]
<1>1. state'[n] \in 0 .. 11  BY Zenon DEF TypeOK, round_state
<1>2. ~(state'[n] <= wait_for_round)  BY <1>1
<1>. QED  BY Zenon, <1>2, RcvKept

(* What n stores it has accepted, knowing at least what it held before.    *)
LEMMA Gained ==
  ASSUME TypeOK, NEW n \in Node, NodeInv(n), Step(n), NEW m \in rcv'[n] \ rcv[n]
  PROVE  /\ \E msgs : rcv[n] \subseteq msgs /\ Accepts(n, msgs, m)
         /\ StageOf(m.type) <= state[n]
         /\ state[n] > prepare_for_round
         /\ state[n] = wait_for_handshake_bitsets =>
              m.type = handshake_bitset \/ state'[n] = state[n]
<1>1. CASE \E x \in net : HandleMessage(n, x)
  <2>1. PICK x \in net : HandleMessage(n, x)  BY Zenon, <1>1
  <2>2. m = x /\ Accepts(n, rcv[n], x) /\ state[n] >= StageOf(x.type)
        /\ state[n] >= wait_for_round /\ state' = state
    BY <2>1 DEF HandleMessage, TypeOK
  <2>3. StageOf(x.type) \in Int /\ state[n] \in Int
    BY DEF TypeOK, Message, StageOf, round_state
  <2>. QED  BY <2>2, <2>3
<1>2. CASE Collects(n)
  <2>1. PICK own \in Created(n), type \in message_type :
          /\ \A x \in own : x.type = type
          /\ state[n] = StageOf(type)
          /\ rcv'[n] = Collect(n, own, type)
    BY Zenon, <1>2 DEF Collects
  <2>. DEFINE mine == rcv[n] \cup {x \in own : Accepts(n, rcv[n], x)}
  <2>2. \/ m \in own /\ Accepts(n, rcv[n], m)
        \/ m \in Stored(early[n], type) /\ Accepts(n, mine, m)
    BY Zenon, <2>1 DEF Collect
  <2>3. rcv[n] \subseteq mine  BY Zenon
  <2>. HIDE DEF mine
  <2>4. m.type = type /\ \E msgs : rcv[n] \subseteq msgs /\ Accepts(n, msgs, m)
    BY Zenon, <2>1, <2>2, <2>3 DEF Stored
  <2>5. StageOf(type) \in 4 .. 11 /\ (StageOf(type) = 6 => type = 2)
    BY <2>1 DEF message_type, StageOf
  <2>. QED  BY <2>1, <2>4, <2>5
<1>3. CASE clear_transient(n)
  BY Zenon, <1>3, Cleared
<1>. QED  BY Zenon, <1>1, <1>2, <1>3, Holding DEF Holds

-----------------------------------------------------------------------------
(* The lock-in, the template and the random values.                        *)

(* The locked-in bitset stays the one a majority sent.                     *)
LEMMA LockInStep ==
  ASSUME TypeOK, TypeOK', ChainInv, NEW n \in Node, NodeInv(n), Step(n)
  PROVE  LockInInv(n)'
<1>0. state[n] \in 0 .. 11 /\ state'[n] \in 0 .. 11 /\ LockInInv(n)
      /\ rcv[n] \in SUBSET Message /\ rcv'[n] \in SUBSET Message
  BY Zenon DEF TypeOK, round_state, NodeInv
<1>. SUFFICES ASSUME state'[n] > wait_for_handshake_bitsets
              PROVE  Large(Supporters(n)')
  BY Zenon DEF LockInInv
<1>1. state[n] >= wait_for_handshake_bitsets
  BY <1>0, NextStage
<1>2. CASE state[n] = wait_for_handshake_bitsets
  <2>1. state'[n] # state[n] /\ state'[n] # prepare_for_round
    BY <1>2
  <2>2. ~Aside(n)
    BY <1>2, <2>1, AsideStays
  <2>3. WaitForHandshakeBitsets(n)
    BY Zenon, <1>2, <2>2, StateFunction
  <2>. DEFINE msgs == Collect(n, {}, handshake_bitset)
  <2>4. rcv'[n] = msgs
    <3>1. SendAndCollect(n, {}, handshake_bitset)
      BY Zenon, <2>3 DEF WaitForHandshakeBitsets
    <3>. QED  BY Zenon, <3>1 DEF SendAndCollect, TypeOK
  <2>5. \E B \in Lockable(n, msgs) : best' = [best EXCEPT ![n] = B]
    BY Zenon, <2>1, <2>3, Queued DEF WaitForHandshakeBitsets, Goto, TypeOK
  <2>6. best'[n] \in Lockable(n, msgs)
    BY Zenon, <2>5 DEF TypeOK
  <2>. HIDE DEF msgs
  <2>7. Cardinality(Supporters(n)') >= Required
    BY Zenon, <2>4, <2>6 DEF Lockable, AgreedBy, Supporters
  <2>. QED  BY Zenon, <2>7 DEF Large
<1>3. CASE state[n] > wait_for_handshake_bitsets
  <2>1. best'[n] = best[n]
    BY <1>0, <1>3, DataKept
  <2>2. rcv[n] \subseteq rcv'[n]
    BY <1>0, RcvGrows
  <2>3. Supporters(n) \subseteq Supporters(n)'
    BY Zenon, <2>1, <2>2 DEF Supporters, Stored
  <2>. QED  BY Zenon, <1>0, <1>3, <2>3 DEF LockInInv, Large
<1>. QED  BY <1>0, <1>1, <1>2, <1>3

(* The template held is of this round and of the locked-in bitset.         *)
LEMMA TemplateStep ==
  ASSUME TypeOK, TypeOK', ChainInv, NEW n \in Node, NodeInv(n), Step(n)
  PROVE  TemplateInv(n)'
<1>0. /\ state[n] \in 0 .. 11 /\ state'[n] \in 0 .. 11
      /\ TemplateInv(n) /\ StoreInv(n)
      /\ StageOf(block_template) = wait_for_block_template
  BY Zenon DEF TypeOK, round_state, NodeInv, StageOf
<1>1. ASSUME state'[n] > prepare_for_round, NEW m \in rcv'[n], m.type = block_template
      PROVE  m.block.round = round'[n] /\ m.block.bitset = best'[n]
  <2>1. ~clear_transient(n)
    BY Zenon, <1>1, Cleared
  <2>2. state[n] > prepare_for_round /\ round'[n] = round[n]
    BY <1>0, <1>1, <2>1, NextStage
  <2>3. CASE m \in rcv[n]
    <3>1. state[n] >= wait_for_block_template
      BY Zenon, <1>0, <1>1, <2>2, <2>3 DEF StoreInv
    <3>2. best'[n] = best[n]
      <4>1. state[n] # wait_for_handshake_bitsets  BY <3>1
      <4>. QED  BY Zenon, <2>1, <4>1, DataKept
    <3>. QED  BY Zenon, <1>0, <1>1, <2>2, <2>3, <3>2 DEF TemplateInv, Stored
  <2>4. CASE m \notin rcv[n]
    <3>1. StageOf(m.type) <= state[n] /\ \E msgs : Accepts(n, msgs, m)
      BY Zenon, <1>1, <2>4, Gained
    <3>2. best'[n] = best[n]
      BY <1>0, <1>1, <2>1, <3>1, DataKept
    <3>. QED  BY Zenon, <1>1, <2>2, <3>1, <3>2 DEF Accepts
  <2>. QED  BY Zenon, <2>3, <2>4
<1>2. ASSUME state'[n] >= send_and_wait_for_random_value_hashes
      PROVE  Stored(rcv'[n], block_template) # {}
  <2>1. rcv[n] \subseteq rcv'[n]
    BY <1>0, <1>2, RcvGrows
  <2>2. state[n] >= wait_for_block_template
    BY <1>0, <1>2, NextStage
  <2>3. CASE state[n] = wait_for_block_template
    <3>1. ~Aside(n)
      BY <1>2, <2>3, AsideStays
    <3>2. WaitForBlockTemplate(n)
      BY Zenon, <2>3, <3>1, StateFunction
    <3>3. Bits(Collect(n, {}, block_template), block_template) # {}
      <4>1. \A s : Goto(n, s) => state'[n] = s
        BY Zenon DEF Goto, TypeOK
      <4>2. ~(8 >= 9) /\ ~(2 >= 9)  OBVIOUS
      <4>. QED  BY Zenon, <1>2, <3>2, <4>1, <4>2, Queued DEF WaitForBlockTemplate
    <3>4. rcv'[n] = Collect(n, {}, block_template)
      <4>1. SendAndCollect(n, {}, block_template)
        BY Zenon, <3>2 DEF WaitForBlockTemplate
      <4>. QED  BY Zenon, <4>1 DEF SendAndCollect, TypeOK
    <3>. QED  BY Zenon, <3>3, <3>4 DEF Bits
  <2>4. CASE state[n] > wait_for_block_template
    BY <1>0, <2>1, <2>4 DEF TemplateInv, Stored
  <2>. QED  BY <1>0, <2>2, <2>3, <2>4
<1>. QED  BY Zenon, <1>1, <1>2 DEF TemplateInv, Stored

(* The participation check lets a stage end only with all its messages.    *)
LEMMA AllCommitted ==
  ASSUME TypeOK, TypeOK', NEW n \in Node, NodeInv(n), Step(n),
         state[n] = send_and_wait_for_random_value_hashes,
         state'[n] = send_and_wait_for_random_value
  PROVE  Bits(rcv'[n], random_value_hash) = best[n]
<1>1. ~Aside(n)
  BY AsideStays
<1>2. SendAndWaitForRandomValueHashes(n)
  BY Zenon, <1>1, StateFunction
<1>3. rcv'[n] = Collect(n, MyRandomValueHash(n), random_value_hash)
  <2>1. SendAndCollect(n, MyRandomValueHash(n), random_value_hash)
    BY Zenon, <1>2 DEF SendAndWaitForRandomValueHashes
  <2>. QED  BY Zenon, <2>1 DEF SendAndCollect, TypeOK
<1>4. Bits(Collect(n, MyRandomValueHash(n), random_value_hash), random_value_hash)
        = best[n]
  <2>. DEFINE got  == Bits(Collect(n, MyRandomValueHash(n), random_value_hash),
                           random_value_hash)
              all  == got = best[n]
              late == TimedOut(n, 4)
              ok   == enforce_validator_participation_and_timeouts(n, got, late, all)
  <2>1. \/ Goto(n, send_and_wait_for_random_value_hashes)
        \/ goto_preparing_for_next_round(n)
        \/ (late \/ all) /\ ok
    BY Zenon, <1>2 DEF SendAndWaitForRandomValueHashes
  <2>. HIDE DEF got
  <2>2. ~Goto(n, send_and_wait_for_random_value_hashes)
    <3>1. Goto(n, send_and_wait_for_random_value_hashes)
            => state'[n] = send_and_wait_for_random_value_hashes
      BY Zenon DEF Goto, TypeOK
    <3>. QED  BY <3>1
  <2>3. ~goto_preparing_for_next_round(n)
    BY Queued
  <2>4. all
    BY Zenon, <2>1, <2>2, <2>3 DEF enforce_validator_participation_and_timeouts
  <2>. QED  BY Zenon, <2>4 DEF got
<1>. QED  BY Zenon, <1>3, <1>4

(* Every value held opens a hash held.                                     *)
LEMMA CommitStep ==
  ASSUME TypeOK, TypeOK', ChainInv, NEW n \in Node, NodeInv(n), Step(n)
  PROVE  CommitInv(n)'
<1>0. /\ state[n] \in 0 .. 11 /\ state'[n] \in 0 .. 11
      /\ CommitInv(n) /\ StoreInv(n)
      /\ StageOf(random_value) = send_and_wait_for_random_value
  <2>1. StageOf(random_value) = send_and_wait_for_random_value  BY DEF StageOf
  <2>. QED  BY Zenon, <2>1 DEF TypeOK, round_state, NodeInv
<1>. DEFINE Clears == clear_transient(n) /\ state'[n] <= wait_for_round
<1>1. CASE Clears
  <2>1. rcv'[n] = {} /\ sent'[n] = {}  BY Zenon, <1>1, Cleared
  <2>2. ~(state'[n] >= 10)  BY <1>0, <1>1
  <2>. QED  BY Zenon, <2>1, <2>2 DEF CommitInv, Stored
<1>2. CASE ~Clears
  <2>1. random_value \in sent'[n] =>
          random_value \in sent[n] \/ state[n] = send_and_wait_for_random_value
    <3>1. (\E m \in net : HandleMessage(n, m)) => sent'[n] = sent[n]
      BY Zenon, Handled
    <3>2. Collects(n) => random_value \notin sent'[n] \/ random_value \in sent[n]
            \/ state[n] = send_and_wait_for_random_value
      <4>. SUFFICES ASSUME Collects(n), random_value \in sent'[n] \ sent[n]
                    PROVE  state[n] = send_and_wait_for_random_value
        BY Zenon
      <4>1. PICK own, type : /\ \A m \in own : m.type = type
                             /\ state[n] = StageOf(type)
                             /\ sent'[n] = sent[n] \cup {m.type : m \in own}
        BY Zenon DEF Collects
      <4>2. type = random_value  BY Zenon, <4>1
      <4>. QED  BY Zenon, <1>0, <4>1, <4>2
    <3>. QED  BY Zenon, <1>2, <3>1, <3>2, Holding DEF Holds
  <2>2. random_value \in sent[n] \/ state[n] >= send_and_wait_for_random_value
        => /\ state[n] \in {2, 10, 11}
           /\ state'[n] \in {2, 10, 11}
           /\ best'[n] = best[n]
           /\ Bits(rcv[n], random_value_hash) = best[n]
    <3>. SUFFICES ASSUME random_value \in sent[n] \/ state[n] >= 10
                  PROVE  /\ state[n] \in {2, 10, 11}
                         /\ state'[n] \in {2, 10, 11}
                         /\ best'[n] = best[n]
                         /\ Bits(rcv[n], random_value_hash) = best[n]
      BY Zenon
    <3>1. state[n] \in {2, 10, 11} /\ Bits(rcv[n], random_value_hash) = best[n]
      <4>1. CommitInv(n)!1 /\ CommitInv(n)!2  BY Zenon, <1>0 DEF CommitInv
      <4>. QED  BY <1>0, <4>1
    <3>2. state'[n] \in {2, 10, 11}
      BY <1>0, <1>2, <3>1, NextStage
    <3>3. best'[n] = best[n]
      <4>1. state[n] # wait_for_handshake_bitsets  BY <3>1
      <4>. QED  BY Zenon, <1>2, <4>1, DataKept
    <3>. QED  BY Zenon, <3>1, <3>2, <3>3
  <2>3. \A m \in rcv'[n] \ rcv[n] :
          random_value \in sent[n] \/ state[n] >= send_and_wait_for_random_value
          => m.type # random_value_hash
    <3>. SUFFICES ASSUME NEW m \in rcv'[n] \ rcv[n], m.type = random_value_hash,
                         random_value \in sent[n] \/ state[n] >= 10
                  PROVE  FALSE
      BY Zenon
    <3>1. PICK msgs : rcv[n] \subseteq msgs /\ Accepts(n, msgs, m)
      BY Zenon, Gained
    <3>2. state[n] >= 10
      BY <2>2, Gained
    <3>3. m.pos \in best[n]
      BY <1>0, <3>1, <3>2 DEF Accepts, LockedIn
    <3>4. m.pos \in Bits(rcv[n], random_value_hash)
      BY Zenon, <2>2, <3>3
    <3>5. m.pos \in Bits(msgs, random_value_hash)
      BY Zenon, <3>1, <3>4 DEF Bits, Stored
    <3>. QED  BY Zenon, <3>1, <3>5 DEF Accepts
  <2>4. rcv[n] \subseteq rcv'[n]
    BY Zenon, <1>2, RcvKept
  <2>5. random_value \in sent[n] \/ state[n] >= send_and_wait_for_random_value
        => Bits(rcv'[n], random_value_hash) = best'[n]
    BY Zenon, <2>2, <2>3, <2>4 DEF Bits, Stored
  <2>6. random_value \in sent'[n] => state'[n] \in {2, 10, 11}
    BY <2>1, <2>2
  <2>7. random_value \in sent'[n] \/ state'[n] >= send_and_wait_for_random_value
        => Bits(rcv'[n], random_value_hash) = best'[n]
    <3>1. CASE random_value \in sent[n] \/ state[n] >= send_and_wait_for_random_value
      BY Zenon, <2>5, <3>1
    <3>2. CASE /\ random_value \notin sent[n]
               /\ ~(state[n] >= send_and_wait_for_random_value)
               /\ state'[n] >= send_and_wait_for_random_value
      <4>1. state[n] = 9 /\ state'[n] = 10
        BY <1>0, <3>2, NextStage
      <4>2. best'[n] = best[n]
        <5>1. state[n] # wait_for_handshake_bitsets  BY <4>1
        <5>. QED  BY Zenon, <1>2, <5>1, DataKept
      <4>. QED  BY Zenon, <4>1, <4>2, AllCommitted
    <3>. QED  BY <1>0, <2>1, <3>1, <3>2
  <2>8. ASSUME NEW m \in rcv'[n], m.type = random_value
        PROVE  \E h \in Stored(rcv'[n], random_value_hash) :
                 h.pos = m.pos /\ h.hash = Blake2b(m.value)
    <3>1. CASE m \in rcv[n]
      <4>1. PICK h \in Stored(rcv[n], random_value_hash) :
              h.pos = m.pos /\ h.hash = Blake2b(m.value)
        BY Zenon, <1>0, <2>8, <3>1 DEF CommitInv, Stored
      <4>. QED  BY Zenon, <2>4, <4>1 DEF Stored
    <3>2. CASE m \notin rcv[n]
      <4>1. PICK msgs : rcv[n] \subseteq msgs /\ Accepts(n, msgs, m)
        BY Zenon, <3>2, Gained
      <4>2. state[n] >= send_and_wait_for_random_value
        <5>1. StageOf(m.type) <= state[n]  BY Zenon, <3>2, Gained
        <5>. QED  BY <1>0, <2>8, <5>1
      <4>3. m.pos \in Bits(rcv[n], random_value_hash)
        <5>1. LockedIn(n, m)  BY Zenon, <4>1 DEF Accepts
        <5>2. state[n] > 6 /\ m.type > 2  BY <1>0, <2>8, <4>2
        <5>3. m.pos \in best[n]  BY Zenon, <5>1, <5>2 DEF LockedIn
        <5>. QED  BY Zenon, <2>2, <4>2, <5>3
      <4>4. PICK h \in Stored(rcv[n], random_value_hash) : h.pos = m.pos
        BY Zenon, <4>3 DEF Bits
      <4>5. h \in Stored(msgs, random_value_hash)
        BY Zenon, <4>1, <4>4 DEF Stored
      <4>6. h.hash = Blake2b(m.value)
        BY Zenon, <2>8, <4>1, <4>4, <4>5 DEF Accepts
      <4>. QED  BY Zenon, <2>4, <4>4, <4>6 DEF Stored
    <3>. QED  BY Zenon, <3>1, <3>2
  <2>. QED  BY Zenon, <2>6, <2>7, <2>8 DEF CommitInv, Stored
<1>. QED  BY Zenon, <1>1, <1>2

=============================================================================
