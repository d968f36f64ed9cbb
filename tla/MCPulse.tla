------------------------------ MODULE MCPulse ------------------------------
EXTENDS Pulse, TLC

CONSTANTS
  a, b, c, d,
  u, v,           \* random values
  Down,           \* the nodes that are not running
  DeliveryTimes   \* when messages arrive

MCEnoughNodes(t) == TRUE
MCRound0Start(t) == 0

(* Two validators and a producer, the same in every round.                 *)
Node3 == {a, b, c}
Validator2(t, r, p) == IF p = 0 THEN a ELSE b
Producer2(t, r) == c
NoSkew3 == [n \in Node3 |-> 0]

(* In the odd rounds b and c change places.                                *)
SwapValidator(t, r, p) ==
  IF p = 0 THEN a ELSE IF r % 2 = 0 THEN b ELSE c
SwapProducer(t, r) == IF r % 2 = 0 THEN c ELSE b

(* Three validators and a producer.                                        *)
Node4 == {a, b, c, d}
Validator3(t, r, p) == <<a, b, c>>[p + 1]
Producer3(t, r) == d
NoSkew4 == [n \in Node4 |-> 0]

(* Random values are only compared with each other.                        *)
SameValues == Permutations(RandomValue)

(* Restrictions of the order of steps that leave out no outcome.           *)

(* n has what its stage waits for.                                         *)
Complete(n) ==
  LET got(type) == Bits(rcv[n], type)
  IN  CASE state[n] = null_state -> TRUE
        [] state[n] = wait_for_next_block -> top[n] # tip[n]
        [] state[n] = wait_for_round -> TimedOut(n, 0) \/ top[n] # tip[n]
        [] state[n] = send_and_wait_for_handshakes -> got(handshake) = Pos
        [] state[n] = wait_for_handshake_bitsets -> got(handshake_bitset) = Pos
        [] state[n] = wait_for_block_template -> got(block_template) # {}
        [] state[n] = send_and_wait_for_random_value_hashes ->
             got(random_value_hash) = best[n]
        [] state[n] = send_and_wait_for_random_value ->
             got(random_value) = best[n]
        [] state[n] = send_and_wait_for_signed_blocks ->
             got(signed_block) = best[n]
        [] OTHER -> FALSE

(* A node inside pulse::main's loop runs until it leaves it, and a node    *)
(* whose stage is complete enters it: these steps read nothing that the    *)
(* steps of other nodes change, so one order of them stands for all.       *)
Urgent ==
  LET R == running
      C == {n \in Node \ Down : Complete(n)}
      x == IF R # {} THEN CHOOSE n \in R : TRUE ELSE CHOOSE n \in C : TRUE
  IN  R \cup C # {} =>
        \/ state'[x] # state[x]
        \/ (x \in running') # (x \in running)
        \/ tip'[x] # tip[x]

(* The loop is entered twice a second, 20 times in a stage: the time does  *)
(* not pass while a node has a state to leave.  How far the nodes are      *)
(* apart is in their clocks' skew.                                         *)
Prompt ==
  now' # now => \A n \in Node \ Down : ~ENABLED (Main(n) /\ state' # state)

(* A message of a stage that is over, or that the producer does not take   *)
(* part in, is not stored: nothing reads it.                               *)
NoStragglers ==
  \A n \in Node :
    /\ \A m \in rcv'[n] \ rcv[n] : state[n] <= StageOf(m.type)
    /\ \A m \in early'[n] \ early[n] :
         IsProducer(n) => m.type = handshake_bitset

(* Restrictions of the environment.                                        *)

StayDown == \A n \in Down : state'[n] = state[n]

Deliveries ==
  state' = state /\ running' = running /\ <<rcv, early>>' # <<rcv, early>>
    => now \in DeliveryTimes

(* n gives up the round though nothing it waited for is missing: a relay   *)
(* that throws, a producer that cannot make a template, a template that is *)
(* rejected, a block that is refused.                                      *)
Fault(n) ==
  /\ n \in queued' \ queued
  /\ \/ state[n] \in {send_and_wait_for_handshakes, send_handshake_bitsets}
     \/ /\ state[n] = send_block_template
        /\ ~\E m \in Stored(net', block_template) :
              m.from = n /\ m.round = round[n] /\ m.block.prev = top[n]
     \/ /\ state[n] = wait_for_block_template
        /\ Bits(rcv'[n], block_template) # {}
     \/ /\ state[n] = send_and_wait_for_signed_blocks
        /\ Bits(rcv'[n], signed_block) = best[n]

NoFaults == \A n \in Node : ~Fault(n)

(* No message arrives before the stage that takes it.                      *)
NoneEarly == \A n \in Node : \A m \in early'[n] : m.from = n

(* A node restarts once, after it has drawn its random value.              *)
RestartOnce ==
  \A n \in Node :
    state'[n] = null_state /\ state[n] # null_state =>
      n \notin restarted /\ value[n] # NoValue

(* The rounds of nodes that fail in nothing but hearing each other late.   *)
LateNext ==
  Next /\ Urgent /\ Prompt /\ NoStragglers /\ Deliveries /\ NoFaults /\ NoneEarly

LateSpec == Init /\ [][LateNext]_vars

=============================================================================
