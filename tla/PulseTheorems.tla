--------------------------- MODULE PulseTheorems ----------------------------
(***************************************************************************)
(* The invariant of Pulse is inductive, and what follows from it: the      *)
(* properties of Pulse, for every value of the constants.                  *)
(***************************************************************************)
EXTENDS PulseStages

USE DEF null_state, wait_for_next_block, prepare_for_round, wait_for_round,
  send_and_wait_for_handshakes, send_handshake_bitsets,
  wait_for_handshake_bitsets, send_block_template, wait_for_block_template,
  send_and_wait_for_random_value_hashes, send_and_wait_for_random_value,
  send_and_wait_for_signed_blocks, handshake, handshake_bitset,
  block_template, random_value_hash, random_value, signed_block

(* The block a validator signs is its template with a value of every       *)
(* participant.                                                            *)
LEMMA Completed ==
  ASSUME TypeOK, TypeOK', NEW n \in Node, NodeInv(n), Step(n),
         state[n] = send_and_wait_for_random_value,
         state'[n] = send_and_wait_for_signed_blocks
  PROVE  /\ final'[n] = FinalBlockOf(rcv'[n])
         /\ Bits(rcv'[n], random_value) = best[n]
         /\ \A m \in rcv'[n] \ rcv[n] : m.type = random_value
<1>1. ~Aside(n)
  BY AsideStays
<1>2. SendAndWaitForRandomValue(n)
  BY Zenon, <1>1, StateFunction
<1>. DEFINE msgs == Collect(n, MyRandomValue(n), random_value)
<1>3. rcv'[n] = msgs
  BY <1>2, Collected DEF SendAndWaitForRandomValue
<1>4. \A m \in msgs \ rcv[n] : m.type = random_value
  BY CollectBounds DEF MyRandomValue
<1>. HIDE DEF msgs
<1>p. ~goto_preparing_for_next_round(n) /\ ~Goto(n, send_and_wait_for_random_value)
  BY Queued DEF Goto, TypeOK
<1>5. Bits(msgs, random_value) = best[n] /\ final' = [final EXCEPT ![n] = FinalBlockOf(msgs)]
  BY Zenon, <1>2, <1>p DEF SendAndWaitForRandomValue, msgs,
       enforce_validator_participation_and_timeouts
<1>. QED  BY Zenon, <1>3, <1>4, <1>5 DEF TypeOK

(* The final block a validator holds is the one its own messages make.     *)
LEMMA FinalStep ==
  ASSUME TypeOK, TypeOK', ChainInv, ChainInv', MessageInv, NEW n \in Node,
         NodeInv(n), Step(n), TemplateInv(n)'
  PROVE  FinalInv(n)'
<1>0. /\ state[n] \in 0 .. 11 /\ state'[n] \in 0 .. 11
      /\ FinalInv(n) /\ StoreInv(n) /\ TemplateInv(n)
      /\ StageOf(signed_block) = send_and_wait_for_signed_blocks
      /\ rcv'[n] \in SUBSET Message
      /\ Len(blocks) \in Nat /\ Len(blocks') \in Nat /\ Len(blocks) <= Len(blocks')
  BY ChainStep DEF TypeOK, round_state, NodeInv, StageOf
<1>. SUFFICES ASSUME state'[n] = send_and_wait_for_signed_blocks
              PROVE  /\ final'[n] \in FinalBlock
                     /\ final'[n].round = round'[n]
                     /\ final'[n].bitset = best'[n]
                     /\ DOMAIN final'[n].rand = best'[n]
                     /\ final'[n].prev <= Len(blocks')
                     /\ \A m \in Stored(rcv'[n], signed_block) : m.signed = final'[n]
  BY Zenon DEF FinalInv
<1>1. /\ state[n] \in {10, 11} /\ round'[n] = round[n] /\ top'[n] = top[n]
      /\ best'[n] = best[n]
  <2>1. state[n] \in {10, 11} /\ round'[n] = round[n] /\ top'[n] = top[n]
    BY <1>0, Control
       DEF Moves, Stays, Boots, Enters, Starts, Leaves, Fails, Advances, Resets
  <2>2. best'[n] = best[n]
    BY <2>1, DataKept
  <2>. QED  BY Zenon, <2>1, <2>2
<1>2. CASE state[n] = send_and_wait_for_random_value
  <2>. DEFINE t == CHOOSE m \in Stored(rcv'[n], block_template) : TRUE
  <2>1. Stored(rcv'[n], block_template) # {}
    BY DEF TemplateInv
  <2>2. t \in rcv'[n] /\ t.type = block_template
    BY Zenon, <2>1 DEF Stored
  <2>3. final'[n].prev = t.block.prev /\ final'[n].round = t.block.round
        /\ final'[n].bitset = t.block.bitset
        /\ DOMAIN final'[n].rand = Bits(rcv'[n], random_value)
        /\ final'[n] = FinalBlockOf(rcv'[n])
    <3>. DEFINE rand == [p \in Bits(rcv'[n], random_value) |->
                  (CHOOSE m \in Stored(rcv'[n], random_value) : m.pos = p).value]
    <3>1. FinalBlockOf(rcv'[n]) =
            [prev |-> t.block.prev, round |-> t.block.round,
             bitset |-> t.block.bitset, payload |-> t.block.payload, rand |-> rand]
      BY Zenon DEF FinalBlockOf
    <3>2. DOMAIN rand = Bits(rcv'[n], random_value)
      BY Zenon
    <3>. HIDE DEF rand, t
    <3>. QED  BY <1>2, <3>1, <3>2, Completed
  <2>. HIDE DEF t
  <2>4. t.block.round = round'[n] /\ t.block.bitset = best'[n]
    BY <2>2 DEF TemplateInv, Stored
  <2>5. t \in net
    BY <1>0, <1>2, <2>2, Completed DEF StoreInv
  <2>6. t.block.prev <= Len(blocks)
    BY Zenon, <2>2, <2>5 DEF MessageInv, AllMsgs
  <2>7. t.block.prev \in Nat
    BY <1>0, <2>2, SizeAssumption DEF Message, Template, Hash
  <2>8. \A m \in rcv'[n] : m.type # signed_block
    BY <1>0, <1>2, Completed DEF StoreInv
  <2>9. final'[n] \in FinalBlock
    BY Zenon, <1>0, <2>1, <2>3, FinalBlockType
  <2>10. DOMAIN final'[n].rand = best'[n]
    BY Zenon, <1>1, <1>2, <2>3, Completed
  <2>11. final'[n].prev <= Len(blocks')
    BY <1>0, <2>3, <2>6, <2>7
  <2>. QED
    BY Zenon, <2>3, <2>4, <2>8, <2>9, <2>10, <2>11 DEF Stored
<1>3. CASE state[n] = send_and_wait_for_signed_blocks
  <2>1. final'[n] = final[n]
    BY <1>0, <1>3, DataKept
  <2>2. /\ final[n] \in FinalBlock /\ final[n].round = round[n]
        /\ final[n].bitset = best[n] /\ DOMAIN final[n].rand = best[n]
        /\ final[n].prev <= Len(blocks)
        /\ \A m \in Stored(rcv[n], signed_block) : m.signed = final[n]
    BY Zenon, <1>0, <1>3 DEF FinalInv
  <2>3. final[n].prev \in Nat
    BY <2>2, SizeAssumption DEF FinalBlock, Hash
  <2>4. \A m \in rcv'[n] \ rcv[n] : m.type = signed_block => m.signed = final[n]
    BY Zenon, Gained DEF Accepts
  <2>. QED  BY <1>0, <1>1, <2>1, <2>2, <2>3, <2>4 DEF Stored
<1>. QED  BY Zenon, <1>1, <1>2, <1>3

(* It takes its template and its values from messages n goes on holding.   *)
LEMMA BuiltStep ==
  ASSUME TypeOK, TypeOK', NEW n \in Node, NodeInv(n), Step(n), TemplateInv(n)'
  PROVE  BuiltInv(n)'
<1>. SUFFICES ASSUME state'[n] = send_and_wait_for_signed_blocks
              PROVE  BuiltInv(n)'
  BY Zenon DEF BuiltInv
<1>1. state[n] \in {10, 11} /\ best'[n] = best[n]
  <2>0. state[n] \in 0 .. 11
    BY Zenon DEF TypeOK, round_state
  <2>1. state[n] \in {10, 11}
    BY <2>0, Control
       DEF Moves, Stays, Boots, Enters, Starts, Leaves, Fails, Advances, Resets
  <2>. QED  BY <2>1, DataKept
<1>2. CASE state[n] = send_and_wait_for_random_value
  <2>. DEFINE t == CHOOSE m \in Stored(rcv'[n], block_template) : TRUE
              V == Stored(rcv'[n], random_value)
              rand == [p \in Bits(rcv'[n], random_value) |->
                         (CHOOSE m \in V : m.pos = p).value]
  <2>1. t \in Stored(rcv'[n], block_template)
    <3>1. Stored(rcv'[n], block_template) # {}  BY DEF TemplateInv
    <3>. QED  BY Zenon, <3>1
  <2>2. /\ final'[n] = [prev |-> t.block.prev, round |-> t.block.round,
                        bitset |-> t.block.bitset, payload |-> t.block.payload,
                        rand |-> rand]
        /\ Bits(rcv'[n], random_value) = best'[n]
    BY Zenon, <1>1, <1>2, Completed DEF FinalBlockOf
  <2>3. ASSUME NEW p \in best'[n]
        PROVE  \E m \in V : m.pos = p /\ rand[p] = m.value
    <3>1. \E m \in V : m.pos = p  BY Zenon, <2>2 DEF Bits
    <3>2. PICK m : m = CHOOSE x \in V : x.pos = p  BY Zenon
    <3>3. m \in V /\ m.pos = p  BY Zenon, <3>1, <3>2
    <3>4. rand[p] = m.value  BY Zenon, <2>2, <3>2
    <3>. QED  BY Zenon, <3>3, <3>4
  <2>. HIDE DEF t, rand
  <2>4. /\ final'[n].prev = t.block.prev /\ final'[n].payload = t.block.payload
        /\ final'[n].rand = rand
    BY <2>2
  <2>. QED  BY Zenon, <2>1, <2>3, <2>4 DEF BuiltInv
<1>3. CASE state[n] = send_and_wait_for_signed_blocks
  <2>1. final'[n] = final[n] /\ rcv[n] \subseteq rcv'[n]
    BY <1>3, DataKept, RcvGrows
  <2>2. \A x : Stored(rcv[n], x) \subseteq Stored(rcv'[n], x)
    BY Zenon, <2>1 DEF Stored
  <2>3. /\ \E t \in Stored(rcv[n], block_template) :
             final[n].prev = t.block.prev /\ final[n].payload = t.block.payload
        /\ \A p \in best[n] :
             \E m \in Stored(rcv[n], random_value) :
               m.pos = p /\ final[n].rand[p] = m.value
    BY Zenon, <1>3 DEF NodeInv, BuiltInv
  <2>4. /\ \E t \in Stored(rcv'[n], block_template) :
             final'[n].prev = t.block.prev /\ final'[n].payload = t.block.payload
        /\ \A p \in best'[n] :
             \E m \in Stored(rcv'[n], random_value) :
               m.pos = p /\ final'[n].rand[p] = m.value
    BY <1>1, <2>1, <2>2, <2>3
  <2>. QED  BY Zenon, <2>4 DEF BuiltInv
<1>. QED  BY Zenon, <1>1, <1>2, <1>3

(* What holds of n's context holds of it after a step of n.                *)
LEMMA NodeStep ==
  ASSUME TypeOK, ChainInv, MessageInv, NEW n \in Node, NodeInv(n), Step(n)
  PROVE  NodeInv(n)'
<1>1. TypeOK'  BY Zenon, TypeStep
<1>2. ChainInv'  BY Zenon, ChainStep DEF NodeInv
<1>3. TemplateInv(n)'  BY Zenon, <1>1, TemplateStep
<1>. QED
  BY Zenon, <1>1, <1>2, <1>3, RoleStep, StoreStep, HandshakeStep, LockInStep,
     CommitStep, FinalStep, BuiltStep DEF NodeInv

(* What holds of a node's context survives what the others do.             *)
LEMMA NodeKept ==
  ASSUME TypeOK, NEW k \in Node, NodeInv(k), Same(k), net \subseteq net',
         blocks \in Seq(FinalBlock), blocks' \in Seq(FinalBlock),
         Len(blocks) <= Len(blocks')
  PROVE  NodeInv(k)'
<1>. USE DEF Same
<1>1. RoleInv(k)'
  BY Zenon DEF NodeInv, RoleInv, IsValidator, IsProducer
<1>2. StoreInv(k)'
  <2>1. \A m : msg_signature_check(k, m)' <=> msg_signature_check(k, m)
    BY Zenon DEF msg_signature_check
  <2>. QED  BY Zenon, <2>1 DEF NodeInv, StoreInv
<1>3. HandshakeInv(k)'
  BY Zenon DEF NodeInv, HandshakeInv, MyPosition
<1>4. LockInInv(k)'
  BY Zenon DEF NodeInv, LockInInv, Supporters
<1>5. TemplateInv(k)'
  BY Zenon DEF NodeInv, TemplateInv
<1>6. CommitInv(k)'
  BY Zenon DEF NodeInv, CommitInv
<1>7. FinalInv(k)'
  <2>. SUFFICES ASSUME state[k] = send_and_wait_for_signed_blocks
                PROVE  FinalInv(k)'
    BY Zenon DEF FinalInv
  <2>1. FinalInv(k)  BY Zenon DEF NodeInv
  <2>2. final[k].prev \in Nat
    BY <2>1, SizeAssumption DEF FinalInv, FinalBlock, Hash
  <2>3. Len(blocks) \in Nat /\ Len(blocks') \in Nat
    OBVIOUS
  <2>. QED  BY <2>1, <2>2, <2>3 DEF FinalInv
<1>8. BuiltInv(k)'
  <2>. BuiltInv(k)  BY Zenon DEF NodeInv
  <2>. QED  BY DEF BuiltInv, Stored
<1>. QED  BY Zenon, <1>1, <1>2, <1>3, <1>4, <1>5, <1>6, <1>7, <1>8 DEF NodeInv

(* A message is in existence, or was made by n.                            *)
LEMMA NewMessage ==
  ASSUME TypeOK, NEW n \in Node, NodeInv(n), Step(n)
  PROVE  /\ net \subseteq net'
         /\ \E M \in Created(n) :
              /\ \A x, y \in M : x = y
              /\ \A m \in AllMsgs' : m \in AllMsgs \/ (m \in M /\ OwnMessage(n, m))
<1>1. PICK M \in Created(n) : AllMsgs' \subseteq AllMsgs \cup M
  BY Zenon, Growth DEF NodeInv
<1>2. \A x, y \in M : x = y
  BY Zenon
     DEF Created, MyHandshake, MyRandomValueHash, MyRandomValue, MySignedBlock
<1>3. \A m \in M : OwnMessage(n, m)
  BY Zenon, OwnMessageFacts
<1>. QED  BY Zenon, <1>1, <1>2, <1>3, Growth DEF NodeInv

(* What is known of every message on the network stays true.               *)
LEMMA MessageStep ==
  ASSUME TypeOK, TypeOK', ChainInv, MessageInv, NEW n \in Node, NodeInv(n), Step(n)
  PROVE  MessageInv'
<1>0. /\ Len(blocks) \in Nat /\ Len(blocks') \in Nat /\ Len(blocks) <= Len(blocks')
      /\ tip[n] <= Len(blocks) /\ tip[n] \in Nat
      /\ net \in SUBSET Message /\ early \in [Node -> SUBSET Message]
  BY ChainStep, SizeAssumption DEF NodeInv, ChainInv, TypeOK, Hash
<1>. SUFFICES ASSUME NEW m \in AllMsgs'
              PROVE  /\ m.type # block_template => Validator(m.top, m.round, m.pos) = m.from
                     /\ m.type = block_template =>
                          m.block.round = m.round /\ m.block.prev <= Len(blocks')
                     /\ m.type = handshake_bitset => m.pos \in m.bitset
                     /\ m.type = signed_block => m.signed.round = m.round
  BY Zenon DEF MessageInv
<1>1. CASE m \in AllMsgs
  <2>1. m \in Message
    BY Zenon, <1>0, <1>1 DEF AllMsgs
  <2>2. m.type = block_template => m.block.prev \in Nat
    BY <2>1, SizeAssumption DEF Message, Template, Hash
  <2>. QED  BY <1>0, <1>1, <2>2 DEF MessageInv
<1>2. CASE OwnMessage(n, m)
  <2>1. m.type = signed_block => final[n].round = round[n]
    BY <1>2 DEF OwnMessage, StageOf, NodeInv, FinalInv
  <2>. QED  BY <1>0, <1>2, <2>1 DEF OwnMessage
<1>. QED  BY Zenon, <1>1, <1>2, NewMessage

-----------------------------------------------------------------------------
(* n is done with a round for good once it has left it.                    *)
LEMMA PastKept ==
  ASSUME TypeOK, TypeOK', NEW n \in Node, NodeInv(n), Step(n), n \notin restarted',
         NEW t \in Hash, NEW r \in Round, Past(n, t, r)
  PROVE  Past(n, t, r)'
<1>0. /\ state[n] \in 0 .. 11 /\ top[n] \in Int /\ tip[n] \in Int /\ t \in Int /\ r \in Int
      /\ round[n] \in Int /\ top[n] <= tip[n]
      /\ state[n] > 1 => top[n] \in Hash
      /\ n \in queued => state[n] = 2
  <2>1. /\ state[n] \in 0 .. 11 /\ top[n] \in Int /\ tip[n] \in Int
        /\ t \in Int /\ r \in Int /\ round[n] \in Int
    BY SizeAssumption DEF TypeOK, round_state, Hash, NoHash, Round
  <2>2. /\ top[n] <= tip[n]
        /\ state[n] >= 2 => top[n] \in Hash
        /\ n \in queued => state[n] = 2
    BY Zenon DEF NodeInv, RoleInv
  <2>. QED  BY <2>1, <2>2
<1>1. CASE Stays(n)  BY Zenon, <1>0, <1>1 DEF Stays, Past
<1>2. CASE Boots(n)  BY <1>0, <1>2 DEF Boots, Past
<1>3. CASE Enters(n)  BY <1>0, <1>3 DEF Enters, Past
<1>4. CASE Starts(n)
  <2>1. NextRound(n) \in Int /\ NextRound(n) >= round[n]
        /\ (n \in queued => NextRound(n) > round[n])
    BY <1>0, <1>4, NextRoundBounds, SizeAssumption DEF Starts, Round
  <2>. QED  BY <1>0, <1>4, <2>1 DEF Starts, Past
<1>5. CASE Leaves(n)  BY <1>0, <1>5 DEF Leaves, Past
<1>6. CASE Fails(n)  BY <1>0, <1>6 DEF Fails, Past
<1>7. CASE Advances(n)  BY <1>0, <1>7 DEF Advances, Past
<1>. QED
  BY Zenon, <1>1, <1>2, <1>3, <1>4, <1>5, <1>6, <1>7, Control DEF Moves, Resets

(* What n has sent it remembers until it leaves the round.                 *)
LEMMA DidKept ==
  ASSUME TypeOK, TypeOK', NEW n \in Node, NodeInv(n), Step(n), n \notin restarted',
         NEW type, state[n] > wait_for_round, Did(n, type),
         NEW t, NEW r, t = top[n], r = round[n]
  PROVE  \/ Past(n, t, r)'
         \/ /\ state'[n] > wait_for_round /\ Did(n, type)'
            /\ top'[n] = top[n] /\ round'[n] = round[n]
<1>0. state[n] \in 0 .. 11 /\ state'[n] \in 0 .. 11
  BY Zenon DEF TypeOK, round_state
<1>1. CASE Leaves(n)  BY <1>1 DEF Leaves, Past
<1>2. CASE Fails(n)  BY Zenon, <1>2 DEF Fails, Past
<1>3. CASE Stays(n) \/ Advances(n)
  <2>1. state'[n] >= state[n] /\ top'[n] = top[n] /\ round'[n] = round[n]
    BY <1>0, <1>3 DEF Stays, Advances
  <2>2. sent[n] \subseteq sent'[n]
    <3>1. (\E m \in net : HandleMessage(n, m)) => sent'[n] = sent[n]
      BY Zenon DEF HandleMessage
    <3>2. Collects(n) => sent[n] \subseteq sent'[n]
      BY Zenon DEF Collects
    <3>3. ~(state'[n] <= wait_for_round)  BY <1>0, <2>1
    <3>. QED  BY Zenon, <3>1, <3>2, <3>3, Holding DEF Holds
  <2>. QED  BY <1>0, <2>1, <2>2 DEF Did
<1>. QED
  BY <1>0, <1>1, <1>2, <1>3, Control DEF Moves, Boots, Enters, Starts, Resets

(* A step that is not a state function makes no message.                   *)
LEMMA AsideSilent ==
  ASSUME TypeOK, NEW n \in Node, NodeInv(n), Aside(n)
  PROVE  AllMsgs' \subseteq AllMsgs
<1>0. Step(n) /\ StoreInv(n) /\ {} \in Created(n)
  BY Zenon DEF Aside, Step, NodeInv, Created
<1>1. Adds(n, {})
  <2>1. CASE \E m \in net : HandleMessage(n, m)
    <3>1. PICK m \in net : HandleMessage(n, m)  BY Zenon, <2>1
    <3>2. net' = net
      BY Zenon, <3>1 DEF HandleMessage
    <3>3. early' = early \/ early' = [early EXCEPT ![n] = early[n] \cup {m}]
      BY Zenon, <3>1 DEF HandleMessage
    <3>4. n \in DOMAIN early  BY Zenon DEF TypeOK
    <3>5. early'[n] = early[n] \/ early'[n] = early[n] \cup {m}
      BY Zenon, <3>3, <3>4
    <3>6. early'[n] \subseteq early[n] \cup net  BY Zenon, <3>5
    <3>. QED  BY Zenon, <3>2, <3>6 DEF Adds
  <2>2. CASE ReceiveBlock(n)
    BY Zenon, <2>2 DEF ReceiveBlock, transientVars, Adds
  <2>3. CASE Restart(n)
    <3>1. net' = net /\ clear_transient(n)  BY Zenon, <2>3 DEF Restart
    <3>2. early'[n] = {}  BY Zenon, <3>1, Cleared
    <3>. QED  BY Zenon, <3>1, <3>2 DEF Adds
  <2>. QED  BY Zenon, <2>1, <2>2, <2>3 DEF Aside
<1>. QED  BY Zenon, <1>0, <1>1, Absorb

(* Having made a message, n has it noted or is done with the round.        *)
LEMMA Speaks ==
  ASSUME TypeOK, TypeOK', NEW n \in Node, NodeInv(n), Step(n),
         n \notin restarted', NEW m \in AllMsgs', m \notin AllMsgs,
         NEW t, NEW r, t = top[n], r = round[n]
  PROVE  /\ OwnMessage(n, m)
         /\ \/ Past(n, t, r)'
            \/ /\ m.type # block_template
               /\ state'[n] > wait_for_round /\ Did(n, m.type)'
               /\ top'[n] = top[n] /\ round'[n] = round[n]
<1>1. OwnMessage(n, m)
  BY Zenon, NewMessage
<1>2. ~Aside(n)
  BY Zenon, AsideSilent
<1>3. /\ state[n] \in 0 .. 11 /\ state'[n] \in 0 .. 11 /\ m \in Message
      /\ m.type \in 1 .. 6
  <2>1. m \in Message  BY Zenon, <1>1 DEF OwnMessage
  <2>2. m.type \in 1 .. 6  BY <2>1 DEF Message
  <2>. QED  BY Zenon, <2>1, <2>2 DEF TypeOK, round_state
<1>4. CASE Leaves(n)  BY <1>1, <1>4 DEF Leaves, Past
<1>5. CASE Fails(n)  BY Zenon, <1>1, <1>5 DEF Fails, Past
<1>6. CASE Stays(n) \/ Advances(n)
  <2>1. state'[n] >= state[n] /\ top'[n] = top[n] /\ round'[n] = round[n]
    BY <1>3, <1>6 DEF Stays, Advances
  <2>2. state[n] > wait_for_round  BY Zenon, <1>1 DEF OwnMessage
  <2>p. state'[n] > wait_for_round  BY <1>3, <2>1, <2>2
  <2>o. /\ 1 \notin {2, 3} /\ 4 \notin {2, 3} /\ 5 \notin {2, 3} /\ 6 \notin {2, 3}
        /\ 1 # 3 /\ 2 # 3 /\ 4 # 3 /\ 5 # 3 /\ 6 # 3
        /\ 1 # 2 /\ 4 # 2 /\ 5 # 2 /\ 6 # 2
    OBVIOUS
  <2>s. StageOf(1) = 4 /\ StageOf(4) = 9 /\ StageOf(5) = 10 /\ StageOf(6) = 11
    BY DEF StageOf
  <2>t. /\ m.type = 1 => state[n] = 4
        /\ m.type = 4 => state[n] = 9
        /\ m.type = 5 => state[n] = 10
        /\ m.type = 6 => state[n] = 11
    <3>1. m.type \notin {2, 3} => state[n] = StageOf(m.type)
      BY Zenon, <1>1 DEF OwnMessage
    <3>. QED  BY Zenon, <2>o, <2>s, <3>1
  <2>r. \/ m.type = 1 \/ m.type = 2 \/ m.type = 3 \/ m.type = 4 \/ m.type = 5
        \/ m.type = 6
    BY <1>3
  <2>3. ASSUME NEW own, NEW type, SendAndCollect(n, own, type), m.type = type,
               type \notin sent[n] => type \in {x.type : x \in own},
               type # handshake_bitset
        PROVE  Did(n, m.type)'
    BY <2>3, Collected DEF Did
  <2>4. CASE m.type = handshake
    <3>1. SendAndWaitForHandshakes(n)
      BY Zenon, <1>2, <2>t, <2>4, StateFunction
    <3>2. SendAndCollect(n, MyHandshake(n), handshake)
      BY <2>1, <2>2, <3>1, Queued DEF SendAndWaitForHandshakes
    <3>3. 1 \notin sent[n] => 1 \in {x.type : x \in MyHandshake(n)}
      BY Zenon DEF MyHandshake
    <3>. QED  BY Zenon, <1>1, <2>1, <2>p, <2>o, <2>3, <2>4, <3>2, <3>3
  <2>5. CASE m.type = handshake_bitset
    <3>1. SendHandshakeBitsets(n)
      BY Zenon, <1>1, <1>2, <2>5, StateFunction DEF OwnMessage
    <3>2. state'[n] = 6 \/ state'[n] = 2
      BY Zenon, <3>1, Queued DEF SendHandshakeBitsets, Goto, TypeOK
    <3>. QED  BY <1>1, <1>3, <2>1, <2>2, <2>5, <3>2 DEF Did
  <2>6. CASE m.type = block_template
    <3>1. SendBlockTemplate(n)
      BY Zenon, <1>1, <1>2, <2>6, StateFunction DEF OwnMessage
    <3>2. state'[n] = 2 \/ state'[n] = 1
      BY Zenon, <3>1, Queued, Abandoned DEF SendBlockTemplate
    <3>. QED  BY <1>3, <2>1, <2>2, <3>2
  <2>7. CASE m.type = random_value_hash
    <3>1. SendAndWaitForRandomValueHashes(n)
      BY Zenon, <1>2, <2>t, <2>7, StateFunction
    <3>2. SendAndCollect(n, MyRandomValueHash(n), random_value_hash)
      BY Zenon, <3>1 DEF SendAndWaitForRandomValueHashes
    <3>3. 4 \notin sent[n] => 4 \in {x.type : x \in MyRandomValueHash(n)}
      BY Zenon DEF MyRandomValueHash
    <3>. QED  BY Zenon, <1>1, <2>1, <2>p, <2>o, <2>3, <2>7, <3>2, <3>3
  <2>8. CASE m.type = random_value
    <3>1. SendAndWaitForRandomValue(n)
      BY Zenon, <1>2, <2>t, <2>8, StateFunction
    <3>2. SendAndCollect(n, MyRandomValue(n), random_value)
      BY Zenon, <3>1 DEF SendAndWaitForRandomValue
    <3>3. 5 \notin sent[n] => 5 \in {x.type : x \in MyRandomValue(n)}
      BY Zenon DEF MyRandomValue
    <3>. QED  BY Zenon, <1>1, <2>1, <2>p, <2>o, <2>3, <2>8, <3>2, <3>3
  <2>9. CASE m.type = signed_block
    <3>1. SendAndWaitForSignedBlocks(n)
      BY Zenon, <1>2, <2>t, <2>9, StateFunction
    <3>2. ~goto_wait_for_next_block_and_clear_round_data(n)
      BY <1>3, <2>1, <2>2, Abandoned
    <3>3. SendAndCollect(n, MySignedBlock(n), signed_block)
      BY Zenon, <3>1, <3>2 DEF SendAndWaitForSignedBlocks, handle_block_found
    <3>4. 6 \notin sent[n] => 6 \in {x.type : x \in MySignedBlock(n)}
      BY Zenon DEF MySignedBlock
    <3>. QED  BY Zenon, <1>1, <2>1, <2>p, <2>o, <2>3, <2>9, <3>3, <3>4
  <2>. QED  BY Zenon, <1>1, <2>r, <2>4, <2>5, <2>6, <2>7, <2>8, <2>9
<1>7. state[n] > wait_for_round  BY Zenon, <1>1 DEF OwnMessage
<1>. QED
  BY <1>3, <1>4, <1>5, <1>6, <1>7, Control
     DEF Moves, Boots, Enters, Starts, Resets

(* A message a node has sent is accounted for by its state.                *)
LEMMA SentStep ==
  ASSUME TypeOK, TypeOK', SentInv, NEW n \in Node, NodeInv(n), Step(n),
         restarted \subseteq restarted'
  PROVE  SentInv'
<1>. SUFFICES ASSUME NEW m \in AllMsgs', m.from \notin restarted'
              PROVE  \/ Past(m.from, TopOf(m), m.round)'
                     \/ /\ m.type # block_template
                        /\ m.top = top'[m.from] /\ m.round = round'[m.from]
                        /\ state'[m.from] > wait_for_round
                        /\ Did(m.from, m.type)'
  BY Zenon DEF SentInv
<1>0. /\ m \in Message /\ m.from \in Node /\ TopOf(m) \in Hash /\ m.round \in Round
      /\ (m.type # block_template => TopOf(m) = m.top)
  <2>1. m \in Message
    BY DEF AllMsgs, TypeOK
  <2>. QED  BY <2>1 DEF Message, Template, TopOf
<1>1. CASE m \in AllMsgs /\ m.from # n
  <2>1. Same(m.from)
    BY Zenon, <1>0, <1>1, Frame
  <2>. QED  BY Zenon, <1>1, <2>1 DEF SentInv, Past, Did, Same
<1>2. CASE m \in AllMsgs /\ m.from = n
  <2>1. CASE Past(n, TopOf(m), m.round)
    <3>. DEFINE t == TopOf(m)
                r == m.round
    <3>1. t \in Hash /\ r \in Round /\ Past(n, t, r)  BY Zenon, <1>0, <2>1
    <3>. HIDE DEF t, r
    <3>2. Past(n, t, r)'  BY Zenon, <1>2, <3>1, PastKept
    <3>. QED  BY Zenon, <1>2, <3>2 DEF t, r
  <2>2. CASE ~Past(n, TopOf(m), m.round)
    <3>1. /\ m.type # block_template
          /\ m.top = top[n] /\ m.round = round[n]
          /\ state[n] > wait_for_round /\ Did(n, m.type)
      BY Zenon, <1>2, <2>2 DEF SentInv
    <3>2. \/ Past(n, m.top, m.round)'
          \/ /\ state'[n] > wait_for_round /\ Did(n, m.type)'
             /\ top'[n] = top[n] /\ round'[n] = round[n]
      BY Zenon, <1>2, <3>1, DidKept
    <3>. QED  BY Zenon, <1>0, <1>2, <3>1, <3>2
  <2>. QED  BY Zenon, <2>1, <2>2
<1>3. CASE m \notin AllMsgs
  <2>1. OwnMessage(n, m)
    BY Zenon, <1>3, NewMessage
  <2>2. m.from = n /\ m.round = round[n] /\ TopOf(m) = top[n]
    BY Zenon, <2>1 DEF OwnMessage
  <2>3. \/ Past(n, TopOf(m), m.round)'
        \/ /\ m.type # block_template
           /\ state'[n] > wait_for_round /\ Did(n, m.type)'
           /\ top'[n] = top[n] /\ round'[n] = round[n]
    BY Zenon, <1>3, <2>2, Speaks
  <2>. QED  BY Zenon, <1>0, <2>2, <2>3
<1>. QED  BY Zenon, <1>1, <1>2, <1>3

(* A node that has not restarted adds no second message of a type.         *)
LEMMA VoiceStep ==
  ASSUME TypeOK, SentInv, VoiceInv, NEW n \in Node, NodeInv(n), Step(n),
         restarted \subseteq restarted'
  PROVE  VoiceInv'
<1>1. PICK M \in Created(n) :
        /\ \A x, y \in M : x = y
        /\ \A m \in AllMsgs' : m \in AllMsgs \/ (m \in M /\ OwnMessage(n, m))
  BY Zenon, NewMessage
<1>2. ASSUME NEW x, OwnMessage(n, x), NEW y \in AllMsgs,
             x.type = y.type, x.from = y.from, x.from \notin restarted,
             TopOf(x) = TopOf(y), x.round = y.round
      PROVE  FALSE
  <2>1. /\ n \notin restarted /\ y.from = n
        /\ TopOf(y) = top[n] /\ y.round = round[n]
        /\ state[n] > wait_for_round
        /\ y.type # block_template => ~Did(n, y.type)
    BY Zenon, <1>2 DEF OwnMessage
  <2>2. ~Past(n, TopOf(y), y.round)
    <3>1. /\ state[n] \in 0 .. 11 /\ top[n] \in Int /\ round[n] \in Int
      BY SizeAssumption DEF TypeOK, round_state, Hash, NoHash, Round
    <3>2. n \in queued => state[n] = prepare_for_round
      BY Zenon DEF NodeInv, RoleInv
    <3>. QED  BY <2>1, <3>1, <3>2 DEF Past
  <2>. QED  BY Zenon, <2>1, <2>2 DEF SentInv
<1>. SUFFICES ASSUME NEW x \in AllMsgs', NEW y \in AllMsgs',
                     x.type = y.type, x.from = y.from, x.from \notin restarted',
                     TopOf(x) = TopOf(y), x.round = y.round
              PROVE  x = y
  BY Zenon DEF VoiceInv
<1>3. CASE x \in AllMsgs /\ y \in AllMsgs
  BY Zenon, <1>3 DEF VoiceInv
<1>4. CASE x \in AllMsgs /\ y \notin AllMsgs
  BY Zenon, <1>1, <1>2, <1>4
<1>5. CASE x \notin AllMsgs /\ y \in AllMsgs
  BY Zenon, <1>1, <1>2, <1>5
<1>6. CASE x \notin AllMsgs /\ y \notin AllMsgs
  BY Zenon, <1>1, <1>6
<1>. QED  BY Zenon, <1>3, <1>4, <1>5, <1>6

-----------------------------------------------------------------------------
(* Only a completed block is recorded.                                     *)
LEMMA FoundKept ==
  ASSUME TypeOK, NEW n \in Node, Step(n)
  PROVE  \/ found' = found
         \/ /\ SendAndWaitForSignedBlocks(n) /\ AllSigned(n)
            /\ found' = found \cup {[top |-> top[n], round |-> round[n],
                                     block |-> final[n],
                                     signers |-> Signers(Signatures(n))]}
            /\ net' = net \cup Collect(n, MySignedBlock(n), signed_block)
<1>. USE DEF historyVars
<1>1. CASE NullState(n)  BY Zenon, <1>1 DEF NullState
<1>2. CASE WaitForNextBlock(n)  BY Zenon, <1>2 DEF WaitForNextBlock
<1>3. CASE PrepareForRound(n)  BY Zenon, <1>3 DEF PrepareForRound
<1>4. CASE WaitForRound(n)  BY Zenon, <1>4 DEF WaitForRound
<1>5. CASE SendAndWaitForHandshakes(n)
  BY Zenon, <1>5 DEF SendAndWaitForHandshakes
<1>6. CASE SendHandshakeBitsets(n)  BY Zenon, <1>6 DEF SendHandshakeBitsets
<1>7. CASE WaitForHandshakeBitsets(n)
  BY Zenon, <1>7 DEF WaitForHandshakeBitsets
<1>8. CASE SendBlockTemplate(n)  BY Zenon, <1>8 DEF SendBlockTemplate
<1>9. CASE WaitForBlockTemplate(n)  BY Zenon, <1>9 DEF WaitForBlockTemplate
<1>10. CASE SendAndWaitForRandomValueHashes(n)
  BY Zenon, <1>10 DEF SendAndWaitForRandomValueHashes
<1>11. CASE SendAndWaitForRandomValue(n)
  BY Zenon, <1>11 DEF SendAndWaitForRandomValue
<1>12. CASE SendAndWaitForSignedBlocks(n)
  BY Zenon, <1>12
     DEF SendAndWaitForSignedBlocks, handle_block_found, SendAndCollect
<1>13. CASE \E m \in net : HandleMessage(n, m)
  BY Zenon, <1>13 DEF HandleMessage
<1>14. CASE ReceiveBlock(n)  BY Zenon, <1>14 DEF ReceiveBlock
<1>15. CASE Restart(n)  BY Zenon, <1>15 DEF Restart
<1>. QED
  BY Zenon, <1>1, <1>2, <1>3, <1>4, <1>5, <1>6, <1>7, <1>8, <1>9, <1>10, <1>11,
     <1>12, <1>13, <1>14, <1>15 DEF Step, Main

(* Every supporter of a locked-in bitset is in it, so it is large.         *)
LEMMA LockedInIsLarge ==
  ASSUME TypeOK, MessageInv, NEW n \in Node, NodeInv(n),
         state[n] > wait_for_handshake_bitsets
  PROVE  Large(best[n])
<1>1. Supporters(n) \subseteq best[n]
  BY Zenon DEF Supporters, Stored, MessageInv, AllMsgs, NodeInv, StoreInv
<1>. QED  BY Zenon, <1>1 DEF NodeInv, LockInInv, Large

(* A completed block was signed by every one of its participants.          *)
LEMMA FoundStep ==
  ASSUME TypeOK, MessageInv, FoundInv, NEW n \in Node, NodeInv(n), Step(n)
  PROVE  FoundInv'
<1>1. net \subseteq net'
  BY Zenon, NewMessage
<1>2. ASSUME NEW x \in found
      PROVE  /\ Large(x.block.bitset)
             /\ x.signers = Signers(x.block.bitset)
             /\ DOMAIN x.block.rand = x.block.bitset
             /\ x.block.round = x.round
             /\ \A p \in x.block.bitset :
                  \E m \in Stored(net', signed_block) :
                    /\ m.from = Validator(x.top, x.round, p)
                    /\ m.top = x.top /\ m.pos = p /\ m.signed = x.block
  BY Zenon, <1>1 DEF FoundInv, Stored
<1>3. CASE found' = found
  BY Zenon, <1>2, <1>3 DEF FoundInv
<1>4. CASE /\ SendAndWaitForSignedBlocks(n) /\ AllSigned(n)
           /\ found' = found \cup {[top |-> top[n], round |-> round[n],
                                    block |-> final[n],
                                    signers |-> Signers(Signatures(n))]}
           /\ net' = net \cup Collect(n, MySignedBlock(n), signed_block)
  <2>. DEFINE msgs == Collect(n, MySignedBlock(n), signed_block)
  <2>0. state[n] = send_and_wait_for_signed_blocks
    BY Zenon, <1>4 DEF SendAndWaitForSignedBlocks
  <2>1. Signatures(n) = best[n]
    BY Zenon, <1>4
       DEF AllSigned, enforce_validator_participation_and_timeouts, BitsetGeq
  <2>2. /\ final[n].round = round[n] /\ final[n].bitset = best[n]
        /\ DOMAIN final[n].rand = best[n]
        /\ \A m \in Stored(rcv[n], signed_block) : m.signed = final[n]
        /\ final[n] \in FinalBlock
    BY Zenon, <2>0 DEF NodeInv, FinalInv
  <2>3. Large(best[n])
    BY <2>0, LockedInIsLarge
  <2>4. MySignedBlock(n) \in Created(n)
    BY Zenon, <2>0, <2>2, OwnMessages DEF NodeInv, Created
  <2>5. ASSUME NEW m \in msgs, m.type = signed_block
        PROVE  m.from = Validator(top[n], round[n], m.pos) /\ m.top = top[n]
               /\ m.signed = final[n]
    <3>0. 6 # 3  OBVIOUS
    <3>1. CASE m \in rcv[n]
      <4>1. m \in Stored(rcv[n], signed_block)
        BY Zenon, <2>5, <3>1 DEF Stored
      <4>2. msg_signature_check(n, m)
        BY Zenon, <3>1 DEF NodeInv, StoreInv
      <4>. QED  BY Zenon, <2>2, <2>5, <3>0, <4>1, <4>2 DEF msg_signature_check
    <3>2. CASE m \in MySignedBlock(n)
      <4>1. OwnMessage(n, m)  BY Zenon, <2>4, <3>2, OwnMessageFacts
      <4>. QED  BY Zenon, <2>5, <3>0, <4>1 DEF OwnMessage
    <3>3. CASE m \notin rcv[n] \cup MySignedBlock(n)
      <4>1. m \in early[n] /\ \E s : Accepts(n, s, m)
        BY Zenon, <3>3 DEF Collect, Stored
      <4>2. msg_signature_check(n, m)
        BY Zenon, <4>1 DEF NodeInv, StoreInv
      <4>3. m.signed = final[n]
        BY Zenon, <2>5, <4>1 DEF Accepts
      <4>. QED  BY Zenon, <2>5, <3>0, <4>2, <4>3 DEF msg_signature_check
    <3>. QED  BY Zenon, <3>1, <3>2, <3>3
  <2>6. \A p \in best[n] : \E m \in Stored(net', signed_block) :
          /\ m.from = Validator(top[n], round[n], p)
          /\ m.top = top[n] /\ m.pos = p /\ m.signed = final[n]
    <3>. SUFFICES ASSUME NEW p \in best[n]
                  PROVE  \E m \in Stored(net', signed_block) :
                           /\ m.from = Validator(top[n], round[n], p)
                           /\ m.top = top[n] /\ m.pos = p /\ m.signed = final[n]
      BY Zenon
    <3>1. PICK m \in msgs : m.type = signed_block /\ m.pos = p
      BY Zenon, <2>1 DEF Signatures, Bits, Stored
    <3>2. m \in Stored(net', signed_block)
      BY Zenon, <1>4, <3>1 DEF Stored
    <3>. QED  BY Zenon, <2>5, <3>1, <3>2
  <2>. DEFINE x == [top |-> top[n], round |-> round[n], block |-> final[n],
                    signers |-> Signers(Signatures(n))]
  <2>7. /\ x.top = top[n] /\ x.round = round[n] /\ x.block = final[n]
        /\ x.signers = Signers(best[n])
        /\ found' = found \cup {x}
    BY Zenon, <1>4, <2>1
  <2>. HIDE DEF x
  <2>b. /\ x.block.bitset = best[n] /\ x.block.rand = final[n].rand
        /\ x.block.round = round[n]
    BY Zenon, <2>2, <2>7
  <2>8. /\ Large(x.block.bitset)
        /\ x.signers = Signers(x.block.bitset)
        /\ DOMAIN x.block.rand = x.block.bitset
        /\ x.block.round = x.round
        /\ \A p \in x.block.bitset :
             \E m \in Stored(net', signed_block) :
               /\ m.from = Validator(x.top, x.round, p)
               /\ m.top = x.top /\ m.pos = p /\ m.signed = x.block
    <3>1. Large(x.block.bitset)  BY Zenon, <2>b, <2>3
    <3>2. x.signers = Signers(x.block.bitset)  BY Zenon, <2>b, <2>7
    <3>3. DOMAIN x.block.rand = x.block.bitset  BY Zenon, <2>b, <2>2
    <3>4. x.block.round = x.round  BY Zenon, <2>b, <2>7
    <3>5. ASSUME NEW p \in x.block.bitset
          PROVE  \E m \in Stored(net', signed_block) :
                   /\ m.from = Validator(x.top, x.round, p)
                   /\ m.top = x.top /\ m.pos = p /\ m.signed = x.block
      <4>1. p \in best[n]  BY Zenon, <2>b, <3>5
      <4>. QED  BY Zenon, <2>6, <2>7, <4>1
    <3>. QED  BY Zenon, <3>1, <3>2, <3>3, <3>4, <3>5
  <2>9. ASSUME NEW y \in found'
        PROVE  /\ Large(y.block.bitset)
               /\ y.signers = Signers(y.block.bitset)
               /\ DOMAIN y.block.rand = y.block.bitset
               /\ y.block.round = y.round
               /\ \A p \in y.block.bitset :
                    \E m \in Stored(net', signed_block) :
                      /\ m.from = Validator(y.top, y.round, p)
                      /\ m.top = y.top /\ m.pos = p /\ m.signed = y.block
    <3>1. CASE y \in found
      BY Zenon, <1>2, <3>1
    <3>2. CASE y = x
      BY Zenon, <2>8, <3>2
    <3>. QED  BY Zenon, <2>7, <3>1, <3>2
  <2>. QED  BY Zenon, <2>9 DEF FoundInv
<1>. QED  BY Zenon, <1>3, <1>4, FoundKept

(* Only a restart is recorded as one.                                      *)
LEMMA RestartKept ==
  ASSUME NEW n \in Node, Step(n)
  PROVE  restarted' = restarted \/ Restart(n)
BY Zenon
   DEF Step, Main, NullState, WaitForNextBlock, PrepareForRound, WaitForRound,
  SendAndWaitForHandshakes, SendHandshakeBitsets, WaitForHandshakeBitsets,
  SendBlockTemplate, WaitForBlockTemplate, SendAndWaitForRandomValueHashes,
  SendAndWaitForRandomValue, SendAndWaitForSignedBlocks, HandleMessage,
  ReceiveBlock, historyVars

-----------------------------------------------------------------------------
(* The invariant holds of the daemons' initial contexts.                   *)
LEMMA InvInit == Init => IInv
<1>. SUFFICES ASSUME Init PROVE IInv
  BY Zenon
<1>1. TypeOK
  <2>1. 0 \in Hash /\ 0 \in Round /\ {} \in Bitset /\ 0 \in round_state
    BY SizeAssumption DEF Hash, Round, Bitset, round_state
  <2>2. <<>> \in Seq(FinalBlock) /\ Len(<<>>) = 0
    OBVIOUS
  <2>. QED  BY <2>1, <2>2, SizeAssumption DEF Init, TypeOK
<1>2. ASSUME NEW n \in Node PROVE NodeInv(n)
  <2>1. /\ state[n] = 0 /\ n \notin queued /\ rcv[n] = {} /\ early[n] = {}
        /\ sent[n] = {} /\ top[n] = -1 /\ tip[n] = 0
    BY Zenon DEF Init, NoHash
  <2>. QED
    BY <2>1
       DEF NodeInv, RoleInv, StoreInv, HandshakeInv, LockInInv, TemplateInv,
         CommitInv, FinalInv, BuiltInv, Stored
<1>3. ChainInv
  BY DEF Init, ChainInv
<1>4. AllMsgs = {}
  BY Zenon DEF Init, AllMsgs
<1>5. MessageInv /\ SentInv /\ VoiceInv
  BY Zenon, <1>4 DEF MessageInv, SentInv, VoiceInv
<1>6. FoundInv
  BY Zenon DEF Init, FoundInv
<1>. QED  BY Zenon, <1>1, <1>2, <1>3, <1>5, <1>6 DEF IInv

(* Time passing, or nothing happening, changes nothing else.               *)
LEMMA InvTick == IInv /\ (Tick \/ UNCHANGED vars) => IInv'
<1>. SUFFICES ASSUME IInv, Tick \/ UNCHANGED vars PROVE IInv'
  BY Zenon
<1>1. /\ UNCHANGED <<tip, blocks, net, state, running, top, round, queued>>
      /\ UNCHANGED <<rcv, early, sent, best, value, final, found, restarted>>
      /\ now' \in Nat
  BY
     DEF IInv, TypeOK, Tick, vars, chainVars, roundVars, transientVars, historyVars
<1>2. TypeOK'
  BY Zenon, <1>1 DEF IInv, TypeOK
<1>3. ASSUME NEW n \in Node PROVE NodeInv(n)'
  <2>1. Same(n)  BY Zenon, <1>1 DEF Same
  <2>2. blocks \in Seq(FinalBlock) /\ Len(blocks) \in Nat  BY DEF IInv, TypeOK
  <2>. QED  BY <1>1, <2>1, <2>2, NodeKept DEF IInv
<1>4. ChainInv' /\ FoundInv'
  BY Zenon, <1>1 DEF IInv, ChainInv, FoundInv
<1>5. AllMsgs' = AllMsgs
  BY Zenon, <1>1 DEF AllMsgs
<1>6. MessageInv' /\ VoiceInv'
  BY Zenon, <1>1, <1>5 DEF IInv, MessageInv, VoiceInv
<1>7. SentInv'
  BY Zenon, <1>1, <1>5 DEF IInv, SentInv, Past, Did
<1>. QED  BY Zenon, <1>2, <1>3, <1>4, <1>6, <1>7 DEF IInv

(* Every step keeps the invariant.                                         *)
LEMMA InvStep ==
  ASSUME IInv, NEW n \in Node, Step(n)
  PROVE  IInv'
<1>0. /\ TypeOK /\ ChainInv /\ MessageInv /\ SentInv /\ VoiceInv /\ FoundInv
      /\ NodeInv(n) /\ FinalInv(n)
  BY Zenon DEF IInv, NodeInv
<1>1. TypeOK'  BY Zenon, <1>0, TypeStep
<1>2. ChainInv' /\ Len(blocks) <= Len(blocks')  BY Zenon, <1>0, ChainStep
<1>3. MessageInv'  BY Zenon, <1>0, <1>1, MessageStep
<1>4. restarted \subseteq restarted'  BY Zenon, RestartKept DEF Restart
<1>5. SentInv'  BY Zenon, <1>0, <1>1, <1>4, SentStep
<1>6. VoiceInv'  BY Zenon, <1>0, <1>4, VoiceStep
<1>7. FoundInv'  BY Zenon, <1>0, FoundStep
<1>8. ASSUME NEW k \in Node PROVE NodeInv(k)'
  <2>1. CASE k = n  BY Zenon, <1>0, <2>1, NodeStep
  <2>2. CASE k # n
    <3>1. Same(k)  BY Zenon, <1>0, <2>2, Frame
    <3>2. net \subseteq net'  BY Zenon, <1>0, NewMessage
    <3>3. blocks \in Seq(FinalBlock) /\ blocks' \in Seq(FinalBlock)
      BY Zenon, <1>0, <1>1 DEF TypeOK
    <3>4. NodeInv(k)  BY Zenon DEF IInv
    <3>. QED  BY Zenon, <1>0, <1>2, <3>1, <3>2, <3>3, <3>4, NodeKept
  <2>. QED  BY Zenon, <2>1, <2>2
<1>. QED  BY Zenon, <1>1, <1>2, <1>3, <1>5, <1>6, <1>7, <1>8 DEF IInv

-----------------------------------------------------------------------------
(* The theorems.                                                           *)

INSTANCE FiniteSetTheorems

(* The invariant is inductive: whatever the interleaving of the nodes, the *)
(* messages, the clocks and the restarts, it holds for ever.               *)
THEOREM Invariance == Spec => []IInv
<1>1. IInv /\ [Next]_vars => IInv'
  BY Zenon, InvStep, InvTick DEF Next, Step
<1>. QED  BY InvInit, <1>1, PTL DEF Spec

(* Every variable of every node keeps the range its type in the code gives *)
(* it; in particular prepare_for_round never numbers a round beyond the    *)
(* last one.                                                               *)
THEOREM TypeCorrect == Spec => []TypeOK
BY Invariance, PTL DEF IInv

(* A node that keeps its context never signs two different messages of a   *)
(* type in one round of a top block, for any number of rounds and heights  *)
(* (pulse_send_stage::one_time_only and prepare_for_round).                *)
THEOREM NodesSpeakOnce == Spec => []SingleVoice
<1>1. IInv => SingleVoice
  BY Zenon DEF IInv, VoiceInv, SingleVoice, AllMsgs, Stored
<1>. QED  BY <1>1, Invariance, PTL

(* A validator reveals its random value only when it holds the commitments *)
(* of all participants, and every value it holds opens its commitment      *)
(* (handle_message, send_and_wait_for_random_value).                       *)
THEOREM CommitmentsBind == Spec => []CommitBeforeReveal
<1>1. IInv => CommitBeforeReveal
  BY Zenon DEF IInv, NodeInv, CommitInv, CommitBeforeReveal
<1>. QED  BY <1>1, Invariance, PTL

-----------------------------------------------------------------------------
(* There are at most MaxRestarts restarted nodes.                          *)
RestartInv == IsFiniteSet(restarted) /\ Cardinality(restarted) <= MaxRestarts

(* No more nodes restart than the bound allows.                            *)
LEMMA FewRestarts == Spec => []RestartInv
<1>1. Init => RestartInv
  BY FS_EmptySet, SizeAssumption DEF Init, RestartInv
<1>2. RestartInv /\ [Next]_vars => RestartInv'
  <2>. SUFFICES ASSUME RestartInv, [Next]_vars PROVE RestartInv'
    BY Zenon
  <2>1. restarted' = restarted \/ \E n \in Node : Restart(n)
    BY Zenon, RestartKept DEF Next, Step, Tick, vars, historyVars
  <2>2. ASSUME NEW n \in Node, Restart(n) PROVE RestartInv'
    <3>1. IsFiniteSet(restarted \cup {n})
      BY Zenon, FS_AddElement DEF RestartInv
    <3>. QED  BY Zenon, <2>2, <3>1 DEF Restart, RestartInv
  <2>. QED  BY Zenon, <2>1, <2>2 DEF RestartInv
<1>. QED  BY <1>1, <1>2, PTL DEF Spec

(* The positions of a quorum are finitely many.                            *)
LEMMA PosFinite ==
  /\ IsFiniteSet(Pos)
  /\ Cardinality(Pos) = NumValidators
BY FS_Interval, SizeAssumption DEF Pos

(* A large set of positions has Required elements.                         *)
LEMMA LargeCardinality ==
  ASSUME NEW S \in SUBSET Pos, Large(S)
  PROVE  Cardinality(S) >= Required
<1>1. PICK T \in SUBSET S : Cardinality(T) >= Required
  BY Zenon DEF Large
<1>2. IsFiniteSet(S)
  BY Zenon, PosFinite, FS_Subset
<1>3. /\ Cardinality(T) <= Cardinality(S)
      /\ Cardinality(T) \in Nat /\ Cardinality(S) \in Nat
  BY Zenon, <1>2, FS_Subset, FS_CardinalityType
<1>. QED  BY <1>1, <1>3, SizeAssumption

(* Two sets of Required positions share one of a validator that has not    *)
(* restarted.                                                              *)
LEMMA HonestOverlap ==
  ASSUME RestartInv, NEW t \in Hash, NEW r \in Round,
         NEW S \in SUBSET Pos, NEW T \in SUBSET Pos,
         Large(S), Large(T)
  PROVE  \E p \in S \cap T : Validator(t, r, p) \notin restarted
<1>. SUFFICES ASSUME \A p \in S \cap T : Validator(t, r, p) \in restarted
              PROVE  FALSE
  BY Zenon
<1>0. Cardinality(S) >= Required /\ Cardinality(T) >= Required
  BY Zenon, LargeCardinality
<1>1. IsFiniteSet(S) /\ IsFiniteSet(T) /\ IsFiniteSet(S \cap T)
  BY Zenon, PosFinite, FS_Subset
<1>2. /\ IsFiniteSet(S \cup T)
      /\ Cardinality(S \cup T) = Cardinality(S) + Cardinality(T) - Cardinality(S \cap T)
  BY Zenon, <1>1, FS_Union
<1>3. Cardinality(S \cup T) <= NumValidators
  <2>. S \cup T \subseteq Pos  BY Zenon
  <2>. QED  BY Zenon, PosFinite, FS_Subset
<1>4. /\ Cardinality(S) \in Nat /\ Cardinality(T) \in Nat
      /\ Cardinality(S \cap T) \in Nat /\ Cardinality(restarted) \in Nat
  BY Zenon, <1>1, FS_CardinalityType DEF RestartInv
<1>5. Cardinality(S \cap T) > Cardinality(restarted)
  BY <1>0, <1>2, <1>3, <1>4, SizeAssumption, MajorityAssumption DEF RestartInv
<1>. DEFINE f == [p \in S \cap T |-> Validator(t, r, p)]
<1>6. f \in Injection(S \cap T, restarted)
  BY QuorumAssumption DEF Injection, IsInjective
<1>7. Cardinality(S \cap T) <= Cardinality(restarted)
  BY Zenon, <1>6, FS_Injection DEF RestartInv
<1>. QED  BY <1>4, <1>5, <1>7

(* Two blocks completed for the same top block and round are the same      *)
(* block: whatever is delayed, lost or repeated, however the clocks run    *)
(* and whenever up to MaxRestarts validators restart and take part again   *)
(* (send_and_wait_for_signed_blocks).                                      *)
THEOREM BlocksAgree == Spec => []Agreement
<1>1. IInv /\ RestartInv => Agreement
  <2>. SUFFICES ASSUME IInv, RestartInv, NEW x \in found, NEW y \in found,
                       x.top = y.top, x.round = y.round
                PROVE  x.block = y.block
    BY Zenon DEF Agreement
  <2>1. /\ x.top \in Hash /\ x.round \in Round
        /\ x.block.bitset \in SUBSET Pos /\ y.block.bitset \in SUBSET Pos
    BY Zenon DEF IInv, TypeOK, FinalBlock, Bitset
  <2>2. PICK p \in x.block.bitset \cap y.block.bitset :
          Validator(x.top, x.round, p) \notin restarted
    BY Zenon, <2>1, HonestOverlap DEF IInv, FoundInv
  <2>3. PICK m \in Stored(net, signed_block) :
          /\ m.from = Validator(x.top, x.round, p)
          /\ m.top = x.top /\ m.signed = x.block
    BY Zenon, <2>2 DEF IInv, FoundInv
  <2>4. PICK k \in Stored(net, signed_block) :
          /\ k.from = Validator(y.top, y.round, p)
          /\ k.top = y.top /\ k.signed = y.block
    BY Zenon, <2>2 DEF IInv, FoundInv
  <2>5. m.round = x.round /\ k.round = y.round
    BY <2>3, <2>4 DEF IInv, FoundInv, MessageInv, AllMsgs, Stored
  <2>6. m = k
    BY <2>2, <2>3, <2>4, <2>5 DEF IInv, VoiceInv, AllMsgs, Stored, TopOf
  <2>. QED  BY Zenon, <2>3, <2>4, <2>6
<1>. QED  BY <1>1, Invariance, FewRestarts, PTL

(* Two nodes that locked in a bitset in the same round, counting bitsets   *)
(* of that round, locked in the same participants                          *)
(* (wait_for_handshake_bitsets).                                           *)
THEOREM LockInsAgree == Spec => []LockInAgreement
<1>1. IInv /\ RestartInv => LockInAgreement
  <2>. SUFFICES ASSUME IInv, RestartInv, NEW n \in Node, NEW k \in Node,
                       HasLockedIn(n), HasLockedIn(k),
                       top[n] = top[k], round[n] = round[k]
                PROVE  best[n] = best[k]
    BY Zenon DEF LockInAgreement
  <2>1. /\ NodeInv(n) /\ NodeInv(k) /\ TypeOK
        /\ state[n] > wait_for_handshake_bitsets
        /\ state[k] > wait_for_handshake_bitsets
        /\ state[n] \in 0 .. 11
    BY Zenon DEF IInv, HasLockedIn, TypeOK, round_state
  <2>2. top[n] \in Hash /\ round[n] \in Round
    BY <2>1 DEF NodeInv, RoleInv, TypeOK
  <2>3. Supporters(n) \in SUBSET Pos /\ Supporters(k) \in SUBSET Pos
    <3>. SUFFICES ASSUME NEW m \in Message PROVE m.pos \in Pos
      BY <2>1 DEF Supporters, Stored, TypeOK
    <3>1. 0 \in Pos  BY SizeAssumption DEF Pos
    <3>. QED  BY Zenon, <3>1 DEF Message
  <2>4. Large(Supporters(n)) /\ Large(Supporters(k))
    BY Zenon, <2>1 DEF NodeInv, LockInInv
  <2>5. PICK p \in Supporters(n) \cap Supporters(k) :
          Validator(top[n], round[n], p) \notin restarted
    BY Zenon, <2>1, <2>2, <2>3, <2>4, HonestOverlap
  <2>6. PICK x \in rcv[n] : x.type = handshake_bitset /\ x.bitset = best[n] /\ x.pos = p
    BY Zenon, <2>5 DEF Supporters, Stored
  <2>7. PICK y \in rcv[k] : y.type = handshake_bitset /\ y.bitset = best[k] /\ y.pos = p
    BY Zenon, <2>5 DEF Supporters, Stored
  <2>8. /\ x.from = Validator(top[n], round[n], p) /\ x.top = top[n]
        /\ x.round = round[n] /\ x \in net
        /\ y.from = Validator(top[k], round[k], p) /\ y.top = top[k]
        /\ y.round = round[k] /\ y \in net
    BY <2>1, <2>6, <2>7
       DEF NodeInv, StoreInv, msg_signature_check, HasLockedIn, Stored
  <2>9. x = y
    BY <2>5, <2>6, <2>7, <2>8 DEF IInv, VoiceInv, AllMsgs, TopOf
  <2>. QED  BY Zenon, <2>6, <2>7, <2>9
<1>. QED  BY <1>1, Invariance, FewRestarts, PTL

(* Two nodes that reach the signatures of a round have built the same      *)
(* block, if they counted messages of their round and top block and        *)
(* neither the producer nor a participant restarted: nobody signs what the *)
(* others do not have (send_and_wait_for_random_value).                    *)
THEOREM BuildersAgree == Spec => []SignersAgree
<1>1. IInv /\ LockInAgreement => SignersAgree
  <2>. SUFFICES ASSUME IInv, LockInAgreement, NEW n \in Node, NEW k \in Node,
                       state[n] = send_and_wait_for_signed_blocks,
                       state[k] = state[n],
                       top[n] = top[k], round[n] = round[k],
                       HeardItsRound(n), HeardItsRound(k),
                       Speakers(n) \cap restarted = {}
                PROVE  final[n] = final[k]
    BY Zenon DEF SignersAgree
  <2>1. /\ NodeInv(n) /\ NodeInv(k)
        /\ final[n] \in FinalBlock /\ final[k] \in FinalBlock
        /\ final[n].round = round[n] /\ final[k].round = round[k]
        /\ final[n].bitset = best[n] /\ final[k].bitset = best[k]
        /\ DOMAIN final[n].rand = best[n] /\ DOMAIN final[k].rand = best[k]
    BY Zenon DEF IInv, NodeInv, FinalInv
  <2>2. best[n] = best[k]
    <3>1. 11 > 6  OBVIOUS
    <3>2. HasLockedIn(n) /\ HasLockedIn(k)
      BY Zenon, <3>1 DEF HasLockedIn, HeardItsRound, Stored
    <3>. QED  BY Zenon, <3>2 DEF LockInAgreement
  <2>3. ASSUME NEW x \in rcv[n], NEW y \in rcv[k], x.type = y.type,
               x.from = y.from, x.from \in Speakers(n)
        PROVE  x = y
    <3>1. x \in AllMsgs /\ y \in AllMsgs
      BY Zenon, <2>1 DEF NodeInv, StoreInv, AllMsgs
    <3>2. TopOf(x) = TopOf(y) /\ x.round = y.round
      BY Zenon DEF HeardItsRound
    <3>. QED  BY Zenon, <2>3, <3>1, <3>2 DEF IInv, VoiceInv
  <2>b. BuiltInv(n) /\ BuiltInv(k)
    BY Zenon, <2>1 DEF NodeInv
  <2>4. /\ \A m \in rcv[n] : msg_signature_check(n, m)
        /\ \A m \in rcv[k] : msg_signature_check(k, m)
    BY Zenon, <2>1 DEF NodeInv, StoreInv
  <2>5. final[n].prev = final[k].prev /\ final[n].payload = final[k].payload
    <3>1. PICK x \in rcv[n] :
            /\ x.type = block_template
            /\ final[n].prev = x.block.prev /\ final[n].payload = x.block.payload
      BY Zenon, <2>b DEF BuiltInv, Stored
    <3>2. PICK y \in rcv[k] :
            /\ y.type = block_template
            /\ final[k].prev = y.block.prev /\ final[k].payload = y.block.payload
      BY Zenon, <2>b DEF BuiltInv, Stored
    <3>3. x.from = y.from /\ x.from \in Speakers(n)
      BY Zenon, <2>4, <3>1, <3>2 DEF msg_signature_check, Speakers
    <3>. QED  BY Zenon, <2>3, <3>1, <3>2, <3>3
  <2>6. ASSUME NEW p \in best[n] PROVE final[n].rand[p] = final[k].rand[p]
    <3>1. PICK x \in rcv[n] :
            x.type = random_value /\ x.pos = p /\ final[n].rand[p] = x.value
      BY Zenon, <2>b DEF BuiltInv, Stored
    <3>2. PICK y \in rcv[k] :
            y.type = random_value /\ y.pos = p /\ final[k].rand[p] = y.value
      <4>1. p \in best[k] /\ state[k] = send_and_wait_for_signed_blocks
        BY Zenon, <2>2
      <4>. QED  BY Zenon, <2>b, <4>1 DEF BuiltInv, Stored
    <3>3. x.from = y.from /\ x.from \in Speakers(n)
      <4>1. x.type # block_template /\ y.type # block_template
        BY <3>1, <3>2
      <4>. QED
        BY Zenon, <2>4, <3>1, <3>2, <4>1 DEF msg_signature_check, Speakers
    <3>. QED  BY Zenon, <2>3, <3>1, <3>2, <3>3
  <2>7. final[n].rand = final[k].rand
    <3>1. final[n].rand \in Seed /\ final[k].rand \in Seed
      BY <2>1 DEF FinalBlock
    <3>. QED  BY <2>1, <2>2, <2>6, <3>1 DEF Seed
  <2>. QED  BY <2>1, <2>2, <2>5, <2>7 DEF FinalBlock
<1>. QED  BY <1>1, Invariance, LockInsAgree, PTL

-----------------------------------------------------------------------------
(* The first k of a finite set of positions.                               *)
LEMMA Initial ==
  ASSUME NEW k \in Nat
  PROVE  IsFiniteSet(0 .. k - 1) /\ Cardinality(0 .. k - 1) = k
<1>1. 0 \in Int /\ k - 1 \in Int  OBVIOUS
<1>2. IsFiniteSet(0 .. k - 1)  BY Zenon, <1>1, FS_Interval
<1>3. Cardinality(0 .. k - 1) = IF 0 > k - 1 THEN 0 ELSE (k - 1) - 0 + 1
  BY Zenon, <1>1, FS_Interval
<1>. QED  BY <1>2, <1>3

(* Taking the first ones of enough signatures gives the required number.   *)
LEMMA FirstSigners ==
  ASSUME NEW S \in SUBSET Pos, Cardinality(S) >= Required
  PROVE  Cardinality(Signers(S)) = Required /\ Signers(S) \subseteq S
<1>. DEFINE below(p) == {q \in S : q < p}
            rank == [p \in S |-> Cardinality(below(p))]
            first == [p \in Signers(S) |-> rank[p]]
            N == Cardinality(S)
<1>1. IsFiniteSet(S) /\ N \in Nat /\ S \subseteq Int /\ Required \in Nat
  <2>1. IsFiniteSet(S)  BY Zenon, PosFinite, FS_Subset
  <2>2. N \in Nat  BY Zenon, <2>1, FS_CardinalityType
  <2>3. S \subseteq Int /\ Required \in Nat  BY SizeAssumption DEF Pos
  <2>. QED  BY Zenon, <2>1, <2>2, <2>3
<1>2. \A p \in S : IsFiniteSet(below(p)) /\ Cardinality(below(p)) \in Nat
  BY Zenon, <1>1, FS_Subset, FS_CardinalityType
<1>3. ASSUME NEW p \in S PROVE rank[p] \in 0 .. N - 1
  <2>1. below(p) \subseteq S /\ below(p) # S
    BY <1>1
  <2>2. Cardinality(below(p)) < N
    <3>. HIDE DEF below
    <3>. QED  BY <1>1, <1>2, <2>1, FS_Subset
  <2>. QED  BY <1>1, <1>2, <2>2
<1>4. ASSUME NEW p \in S, NEW q \in S, p < q PROVE rank[p] < rank[q]
  <2>1. below(p) \subseteq below(q) /\ below(p) # below(q)
    <3>1. \A s \in S : s < p => s < q  BY <1>1, <1>4
    <3>2. p \in below(q) /\ p \notin below(p)  BY <1>1, <1>4
    <3>. QED  BY Zenon, <3>1, <3>2
  <2>2. Cardinality(below(p)) < Cardinality(below(q))
    <3>. HIDE DEF below
    <3>. QED  BY <1>2, <2>1, FS_Subset
  <2>. QED  BY Zenon, <2>2
<1>5. rank \in Injection(S, 0 .. N - 1)
  <2>1. rank \in [S -> 0 .. N - 1]  BY Zenon, <1>3
  <2>2. \A p, q \in S : rank[p] = rank[q] => p = q
    <3>. SUFFICES ASSUME NEW p \in S, NEW q \in S, rank[p] = rank[q], p # q
                  PROVE  FALSE
      BY Zenon
    <3>1. p < q \/ q < p  BY <1>1
    <3>2. rank[p] \in Int /\ rank[q] \in Int  BY <1>3
    <3>. HIDE DEF rank
    <3>. QED  BY <1>4, <3>1, <3>2
  <2>. HIDE DEF rank
  <2>. QED  BY Zenon, <2>1, <2>2 DEF Injection, IsInjective
<1>6. IsFiniteSet(0 .. N - 1) /\ Cardinality(0 .. N - 1) = N
  BY Zenon, <1>1, Initial
<1>7. rank \in Surjection(S, 0 .. N - 1)
  <2>. HIDE DEF rank, N
  <2>. QED  BY Zenon, <1>5, <1>6, FS_Injection DEF N
<1>8. Signers(S) = {p \in S : rank[p] < Required}
  BY Zenon DEF Signers
<1>9. \A t \in 0 .. N - 1 : \E p \in S : rank[p] = t
  <2>. HIDE DEF rank, N
  <2>. QED  BY Zenon, <1>7 DEF Surjection
<1>10. /\ \A p \in S : rank[p] \in 0 .. N - 1
       /\ \A p, q \in S : rank[p] = rank[q] => p = q
  <2>. HIDE DEF rank, N
  <2>. QED  BY Zenon, <1>5 DEF Injection, IsInjective
<1>. HIDE DEF rank
<1>r. ASSUME NEW p \in Signers(S)
      PROVE  p \in S /\ rank[p] \in 0 .. Required - 1
  <2>1. p \in S /\ rank[p] < Required  BY Zenon, <1>8
  <2>2. rank[p] \in 0 .. N - 1  BY Zenon, <1>10, <2>1
  <2>. HIDE DEF N
  <2>. QED  BY <1>1, <2>1, <2>2
<1>11. first \in Injection(Signers(S), 0 .. Required - 1)
  <2>1. first \in [Signers(S) -> 0 .. Required - 1]
    BY Zenon, <1>r
  <2>. QED  BY Zenon, <1>8, <1>10, <2>1 DEF Injection, IsInjective
<1>12. first \in Surjection(Signers(S), 0 .. Required - 1)
  <2>1. first \in [Signers(S) -> 0 .. Required - 1]
    BY Zenon, <1>r
  <2>2. ASSUME NEW t \in 0 .. Required - 1 PROVE \E p \in Signers(S) : first[p] = t
    <3>1. PICK p \in S : rank[p] = t
      BY <1>1, <1>9
    <3>2. p \in Signers(S)
      BY <1>1, <1>8, <3>1
    <3>. QED  BY Zenon, <3>1, <3>2
  <2>. HIDE DEF first
  <2>. QED  BY Zenon, <2>1, <2>2 DEF Surjection
<1>13. IsFiniteSet(0 .. Required - 1) /\ Cardinality(0 .. Required - 1) = Required
  BY Zenon, <1>1, Initial
<1>. HIDE DEF first
<1>14. Cardinality(Signers(S)) = Required
  BY Zenon, <1>11, <1>12, <1>13, FS_Injection
<1>. QED  BY Zenon, <1>14 DEF Signers

(* A completed block has exactly the required signatures, all of its own   *)
(* participants, and a random value of each of them: the selection in      *)
(* send_and_wait_for_signed_blocks never finds fewer than it takes.        *)
THEOREM BlocksComplete == Spec => []CompleteBlocks
<1>1. IInv => CompleteBlocks
  <2>. SUFFICES ASSUME IInv, NEW x \in found
                PROVE  /\ Cardinality(x.signers) = Required
                       /\ x.signers \subseteq x.block.bitset
    BY Zenon DEF CompleteBlocks, IInv, FoundInv
  <2>1. x.block.bitset \in SUBSET Pos
    BY Zenon DEF IInv, TypeOK, FinalBlock, Bitset
  <2>2. Cardinality(x.block.bitset) >= Required /\ x.signers = Signers(x.block.bitset)
    BY Zenon, <2>1, LargeCardinality DEF IInv, FoundInv
  <2>. QED  BY Zenon, <2>1, <2>2, FirstSigners
<1>. QED  BY <1>1, Invariance, PTL
=============================================================================
