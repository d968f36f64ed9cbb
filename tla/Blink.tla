------------------------------- MODULE Blink -------------------------------
(***************************************************************************)
(* How a blink quorum decides on a transaction: handle_blink,              *)
(* handle_blink_signature and process_blink_signatures of quorumnet.cpp,   *)
(* the signatures of a blink_tx (tx_blink.cpp), and what they do to the    *)
(* mempool of a service node (tx_pool.cpp), which also takes transactions  *)
(* from the peer-to-peer network (handle_notify_new_transactions).         *)
(*                                                                         *)
(* The transactions all spend the same output, so that any two conflict,   *)
(* and pass the other checks of add_tx.  A blink is a transaction with the *)
(* height its quorum is taken from.                                        *)
(*                                                                         *)
(* A node handles messages in several threads.  A job is a thread of       *)
(* quorumnet in the middle of a handler, and "incoming" has the threads of *)
(* the peer-to-peer network; a step of a thread is what the code does      *)
(* under one lock: qnet.mutex, the lock of the blink_tx,                   *)
(* m_transactions_lock or the blink lock of the pool.  What a thread has   *)
(* read in one step may be out of date in the next.                        *)
(*                                                                         *)
(* A member signs with one key for its places in both subquorums, and the  *)
(* signatures are sent and recorded together: a signature here stands for  *)
(* all of them.  (A member that restarts may sign both ways.  The code may *)
(* then record one verdict for its place in one subquorum and the other in *)
(* the other, where the model records one of them for both.)  A message    *)
(* with several signatures is delivered as several messages.  What has     *)
(* been sent can arrive anywhere at any time, more than once or never.     *)
(*                                                                         *)
(* A restart loses qnet.blinks and m_blinks and keeps the pool.            *)
(*                                                                         *)
(* Left out: the replies to the submitter, and blocks: the chain does not  *)
(* grow while the quorum decides.                                          *)
(***************************************************************************)
EXTENDS Integers, Sequences, FiniteSets

CONSTANTS
    Node,          \* the members of the quorums whose state is modelled
    Peer,          \* the members of which only the signatures are seen
    Tx,
    Blinks,        \* the blinks that are submitted
    Spends,        \* the ones of Tx that are sent as ordinary transactions
    BlinkQuorum,   \* get_quorum(blink, height): the validators in their order
    LocalHeight,   \* get_current_blockchain_height
    BLINK_QUORUM_INTERVAL,
    BLINK_QUORUM_LAG,
    BLINK_SUBQUORUM_SIZE,
    BLINK_MIN_VOTES,
    Threads,       \* how many quorumnet threads a node has
    P2pThread,     \* the threads of a node for peer-to-peer messages
    MaxRestarts    \* how often a node restarts at most

Member == Node \cup Peer
Subquorum == 0..1           \* base and future

\* BLINK_MIN_VOTES > BLINK_SUBQUORUM_SIZE / 2 is a static_assert; get_quorum
\* lists a service node once.
ASSUME QuorumAssumption ==
    /\ BLINK_SUBQUORUM_SIZE \in Nat /\ BLINK_MIN_VOTES \in Nat
    /\ BLINK_SUBQUORUM_SIZE < 2 * BLINK_MIN_VOTES
    /\ \A h \in DOMAIN BlinkQuorum :
          /\ BlinkQuorum[h] \in Seq(Member)
          /\ \A i, j \in DOMAIN BlinkQuorum[h] :
                BlinkQuorum[h][i] = BlinkQuorum[h][j] => i = j

\* Two heights that are accepted at the same time are in the same interval or
\* in adjacent ones.
ASSUME IntervalAssumption ==
    /\ BLINK_QUORUM_INTERVAL \in Nat /\ BLINK_QUORUM_INTERVAL >= 4
    /\ BLINK_QUORUM_LAG \in Nat /\ LocalHeight \in Nat

ASSUME InstanceAssumption ==
    /\ Node \cap Peer = {}
    /\ Blinks \subseteq [height : Nat, tx : Tx] /\ Spends \subseteq Tx
    /\ Threads \in [Node -> Nat \ {0}] /\ MaxRestarts \in [Node -> Nat]

VARIABLES
    known,     \* the blinks of qnet.blinks that have a btxptr
    pending,   \* pending_sigs
    votes,     \* the signatures recorded in the blink_tx's
    jobs,      \* the quorumnet threads that are in a handler
    incoming,  \* the ones in handle_notify_new_transactions
    pool,      \* the transactions in the mempool
    relay,     \* the ones of them without do_not_relay
    blinked,   \* m_blinks: the transactions known as approved blinks
    sent,      \* the signatures sent on in quorum.blink_sign messages
    restarts

vars == <<known, pending, votes, jobs, incoming, pool, relay, blinked, sent,
          restarts>>

Sig == [blink : Blinks, member : Member, ok : BOOLEAN]
Job == [pc : {"verify", "add", "enter", "sign", "delay", "record", "relay"},
        blink : Blinks, sigs : SUBSET Sig, ok : BOOLEAN]
Incoming == [thread : P2pThread, pc : {"parse", "add", "blinks"}, tx : Tx,
             approved : BOOLEAN]

-----------------------------------------------------------------------------
(* tx_blink: quorums and verdicts.                                         *)

\* quorum_height, which is 0 when the chain is too short.
QuorumHeight(h, q) ==
    LET bh == h - (h % BLINK_QUORUM_INTERVAL) - BLINK_QUORUM_LAG
                + q * BLINK_QUORUM_INTERVAL
    IN IF bh < 0 THEN 0 ELSE bh

\* get_blink_quorums
Validators(b, q) == BlinkQuorum[QuorumHeight(b.height, q)]
HasQuorums(b) ==
    \A q \in Subquorum :
        /\ QuorumHeight(b.height, q) \in DOMAIN BlinkQuorum \ {0}
        /\ Len(Validators(b, q)) \in BLINK_MIN_VOTES..BLINK_SUBQUORUM_SIZE

\* The heights that handle_blink accepts a blink for.
InWindow(b) == b.height \in LocalHeight - 2..LocalHeight + 2

InQuorum(m, b) ==
    \E q \in Subquorum : \E i \in DOMAIN Validators(b, q) :
        Validators(b, q)[i] = m

\* sig_count: the places of subquorum q whose member voted ok in the votes V.
SigCount(V, b, q, ok) ==
    Cardinality({i \in DOMAIN Validators(b, q) :
                   [blink |-> b, member |-> Validators(b, q)[i], ok |-> ok] \in V})

\* limit_signatures: the places that no validator has count as rejected.
Unfilled(b, q) == BLINK_SUBQUORUM_SIZE - Len(Validators(b, q))

Approved(V, b) ==
    \A q \in Subquorum : SigCount(V, b, q, TRUE) >= BLINK_MIN_VOTES

RejectedEarly(V, b) ==      \* mutant: >= for >
    \E q \in Subquorum :
        SigCount(V, b, q, FALSE) + Unfilled(b, q)
            >= BLINK_SUBQUORUM_SIZE - BLINK_MIN_VOTES
RejectedLate(V, b) ==       \* mutant: one rejection too many
    \E q \in Subquorum :
        SigCount(V, b, q, FALSE) + Unfilled(b, q)
            > BLINK_SUBQUORUM_SIZE - BLINK_MIN_VOTES + 1
Rejected(V, b) ==
    \E q \in Subquorum :
        SigCount(V, b, q, FALSE) + Unfilled(b, q)
            > BLINK_SUBQUORUM_SIZE - BLINK_MIN_VOTES

-----------------------------------------------------------------------------
(* The mempool.                                                            *)

\* m_transactions_lock is held from the first to the last step of
\* add_new_blink.
PoolLocked(n) == \E j \in jobs[n] : j.pc \in {"add", "enter"}

\* Whether the next step of a job can be taken: add_new_blink and set_relayable
\* wait for m_transactions_lock.
Ready(n, j) == j.pc \in {"verify", "relay"} => ~PoolLocked(n)

\* add_tx and remove_blink_conflicts: whether the double spend check stops a
\* transaction.  The pool's key images include those of the transaction
\* itself; an approved blink evicts what it conflicts with unless that is
\* an approved blink.
DoubleSpendIfBlinked(n, approved) ==    \* mutant: only blinks conflict
    pool[n] \cap blinked[n] # {}
DoubleSpend(n, approved) ==
    /\ pool[n] # {}
    /\ ~approved \/ pool[n] \cap blinked[n] # {}

\* add_tx of a transaction that passes the double spend check.
AddTx(n, t, doRelay) ==
    /\ pool' = [pool EXCEPT ![n] = {t}]
    /\ relay' = [relay EXCEPT ![n] = IF doRelay THEN {t} ELSE {}]

-----------------------------------------------------------------------------
(* process_blink_signatures.                                               *)

\* The sets of signatures that may be added out of those in S, which are
\* in no order: one for every member that has no signature yet.
Unchecked(V, S) == {S}      \* mutant: does not look whether there is one
Additions(V, S) ==
    LET free == {s \in S : \A v \in V : v.blink = s.blink => v.member # s.member}
    IN {N \in SUBSET free :
          /\ \A s \in free : \E r \in N : r.member = s.member
          /\ \A r, s \in N : r.member = s.member => r = s}

\* Adds signatures of S to the blink b, sends them on, and goes on to record
\* the blink when they made it approved; J are the other jobs of the node.
\* (The code sends them on last, which nothing on the node waits for.)
Process(n, b, S, J) ==
    \E N \in Additions(votes[n], S) :
        LET before == votes[n]
            after == votes[n] \cup N
            became_approved == /\ N # {}
                               /\ ~Approved(before, b) /\ ~Rejected(before, b)
                               /\ Approved(after, b)
        IN /\ votes' = [votes EXCEPT ![n] = after]
           /\ sent' = sent \cup N
           /\ jobs' = [jobs EXCEPT ![n] =
                         J \cup IF became_approved
                                THEN {[pc |-> "record", blink |-> b,
                                       sigs |-> {}, ok |-> TRUE]}
                                ELSE {}]

\* add_existing_blink
Record(n, j) ==
    /\ j.pc = "record"
    /\ blinked' = [blinked EXCEPT ![n] = @ \cup {j.blink.tx}]
    /\ jobs' = [jobs EXCEPT ![n] = (@ \ {j}) \cup {[j EXCEPT !.pc = "relay"]}]
    /\ UNCHANGED <<known, pending, votes, incoming, pool, relay, sent, restarts>>

\* set_relayable: clears do_not_relay if the transaction is in the pool.
NotRelayable(n, t) == relay[n]          \* mutant
SetRelayable(n, t) == relay[n] \cup (pool[n] \cap {t})

RelayApproved(n, j) ==
    /\ j.pc = "relay"
    /\ Ready(n, j)
    /\ relay' = [relay EXCEPT ![n] = SetRelayable(n, j.blink.tx)]
    /\ jobs' = [jobs EXCEPT ![n] = @ \ {j}]
    /\ UNCHANGED <<known, pending, votes, incoming, pool, blinked, sent,
                   restarts>>

-----------------------------------------------------------------------------
(* handle_blink.                                                           *)

ThreadFree(n) == Cardinality(jobs[n]) < Threads[n]

\* The checks on a blink that arrives.  (A known one is ignored.)
Takes(n, b) ==
    /\ InWindow(b) /\ HasQuorums(b) /\ InQuorum(n, b)
    /\ b \notin known[n]
    /\ ThreadFree(n)

\* A blink that the node does not know: it is stored with the signatures
\* that came before it, and sent on.
HandleBlink(n, b) ==
    /\ Takes(n, b)
    /\ known' = [known EXCEPT ![n] = @ \cup {b}]
    /\ LET mine == {s \in pending[n] : s.blink = b}
       IN /\ pending' = [pending EXCEPT ![n] = @ \ mine]
          /\ jobs' = [jobs EXCEPT ![n] =
                        @ \cup {[pc |-> "verify", blink |-> b,
                                 sigs |-> mine, ok |-> FALSE]}]
    /\ UNCHANGED <<votes, incoming, pool, relay, blinked, sent, restarts>>

\* add_new_blink up to the call of add_tx: fails if the blink is known, or
\* reads whether it is approved.
Verify(n, j) ==
    /\ j.pc = "verify"
    /\ Ready(n, j)
    /\ jobs' = [jobs EXCEPT ![n] = (@ \ {j}) \cup
                  {IF j.blink.tx \in blinked[n]
                   THEN [j EXCEPT !.pc = "sign", !.ok = FALSE]
                   ELSE [j EXCEPT !.pc = "add",
                                  !.ok = Approved(votes[n], j.blink)]}]
    /\ UNCHANGED <<known, pending, votes, incoming, pool, relay, blinked, sent,
                   restarts>>

\* add_new_blink, the call of add_tx.
Add(n, j) ==
    /\ j.pc = "add"
    /\ \/ /\ DoubleSpend(n, j.ok)
          /\ jobs' = [jobs EXCEPT ![n] = (@ \ {j}) \cup
                        {[j EXCEPT !.pc = "sign", !.ok = FALSE]}]
          /\ UNCHANGED <<pool, relay>>
       \/ /\ ~DoubleSpend(n, j.ok)
          /\ AddTx(n, j.blink.tx, j.ok)
          /\ jobs' = [jobs EXCEPT ![n] = (@ \ {j}) \cup
                        {[j EXCEPT !.pc = IF j.ok THEN "enter" ELSE "sign",
                                   !.ok = TRUE]}]
    /\ UNCHANGED <<known, pending, votes, incoming, blinked, sent, restarts>>

\* add_new_blink enters an approved blink in m_blinks, under the blink lock.
Enter(n, j) ==
    /\ j.pc = "enter"
    /\ blinked' = [blinked EXCEPT ![n] = @ \cup {j.blink.tx}]
    /\ jobs' = [jobs EXCEPT ![n] = (@ \ {j}) \cup {[j EXCEPT !.pc = "sign"]}]
    /\ UNCHANGED <<known, pending, votes, incoming, pool, relay, sent, restarts>>

\* The node's own signature comes after the ones that were pending.
Sign(n, j) ==
    /\ j.pc = "sign"
    /\ LET own == [blink |-> j.blink, member |-> n, ok |-> j.ok]
           S == IF \E s \in j.sigs : s.member = n THEN j.sigs
                ELSE j.sigs \cup {own}
       IN Process(n, j.blink, S, jobs[n] \ {j})
    /\ UNCHANGED <<known, pending, incoming, pool, relay, blinked, restarts>>

-----------------------------------------------------------------------------
(* handle_blink_signature.                                                 *)

\* A signature that is neither recorded nor pending.  (Nothing happens for one
\* whose member has a signature recorded.)
Wanted(n, s) ==
    /\ HasQuorums(s.blink)
    /\ ThreadFree(n)
    /\ IF s.blink \in known[n]
       THEN \A v \in votes[n] : v.blink = s.blink => v.member # s.member
       ELSE s \notin pending[n]

\* The look-up under the shared lock: a signature for a known blink is
\* processed; otherwise the thread waits for the exclusive lock.
HandleBlinkSignature(n, s) ==
    /\ s \in sent
    /\ Wanted(n, s)
    /\ \/ /\ s.blink \in known[n]
          /\ Process(n, s.blink, {s}, jobs[n])
       \/ /\ s.blink \notin known[n]
          /\ jobs' = [jobs EXCEPT ![n] =
                        @ \cup {[pc |-> "delay", blink |-> s.blink,
                                 sigs |-> {s}, ok |-> FALSE]}]
          /\ UNCHANGED <<votes, sent>>
    /\ UNCHANGED <<known, pending, incoming, pool, relay, blinked, restarts>>

\* The look-up under the exclusive lock, which finds the blink if another
\* thread has stored it in the meantime.
StillUnknown(n, b) == TRUE          \* mutant: does not look again
Unknown(n, b) == b \notin known[n]

Delay(n, j) ==
    /\ j.pc = "delay"
    /\ IF Unknown(n, j.blink)
       THEN /\ pending' = [pending EXCEPT ![n] = @ \cup j.sigs]
            /\ jobs' = [jobs EXCEPT ![n] = @ \ {j}]
            /\ UNCHANGED <<votes, sent>>
       ELSE /\ Process(n, j.blink, j.sigs, jobs[n] \ {j})
            /\ UNCHANGED pending
    /\ UNCHANGED <<known, incoming, pool, relay, blinked, restarts>>

-----------------------------------------------------------------------------
(* The rest of the network.                                                *)

\* What the peers sign: every blink that they accept and of whose quorum they
\* are, once, and they approve at most one.  (add_new_blink accepts a second
\* one only if that is approved already, and it is no less so without.)  They
\* do not depend on the nodes, so their signatures may as well be there from
\* the start: when one of them arrives is open.
PeerSigs(approves) ==
    {s \in Sig : /\ InWindow(s.blink) /\ HasQuorums(s.blink)
                 /\ s.member \in Peer /\ InQuorum(s.member, s.blink)
                 /\ s.ok <=> s.blink \in approves[s.member]}
OneApproval ==
    {f \in [Peer -> SUBSET Blinks] : \A p \in Peer : \A b, c \in f[p] : b = c}

-----------------------------------------------------------------------------
(* handle_notify_new_transactions.                                         *)

\* A transaction comes from the network, an ordinary one or one whose blink is
\* approved, and then perhaps with the signatures.  parse_incoming_blinks takes
\* these for an approved blink if m_blinks has none for the transaction.
NotifyNewTransactions(n, p, t, signed) ==
    /\ \A m \in incoming[n] : m.thread # p
    /\ \/ t \in Spends /\ ~signed
       \/ \E b \in Blinks : b.tx = t /\ Approved(sent, b)
    /\ incoming' = [incoming EXCEPT ![n] = @ \cup
                      {[thread |-> p, pc |-> "parse", tx |-> t,
                        approved |-> signed /\ t \notin blinked[n]]}]
    /\ UNCHANGED <<known, pending, votes, jobs, pool, relay, blinked, sent,
                   restarts>>

\* m_incoming_tx_lock is held from parse_incoming_txs to add_blinks.
IncomingLocked(n) == \E m \in incoming[n] : m.pc # "parse"

\* parse_incoming_txs: have_tx looks whether the pool has the transaction.
ParseIncomingTxs(n, m) ==
    /\ m.pc = "parse"
    /\ ~IncomingLocked(n) /\ ~PoolLocked(n)
    /\ incoming' = [incoming EXCEPT ![n] = (@ \ {m}) \cup
                      {[m EXCEPT !.pc = IF m.tx \in pool[n] THEN "blinks"
                                        ELSE "add"]}]
    /\ UNCHANGED <<known, pending, votes, jobs, pool, relay, blinked, sent,
                   restarts>>

\* handle_parsed_txs: add_tx, also when the transaction has come meanwhile.
HandleParsedTxs(n, m) ==
    /\ m.pc = "add"
    /\ ~PoolLocked(n)
    /\ IF DoubleSpend(n, m.approved) THEN UNCHANGED <<pool, relay>>
       ELSE AddTx(n, m.tx, TRUE)
    /\ incoming' = [incoming EXCEPT ![n] =
                      (@ \ {m}) \cup {[m EXCEPT !.pc = "blinks"]}]
    /\ UNCHANGED <<known, pending, votes, jobs, blinked, sent, restarts>>

\* add_blinks keeps the signatures, even if the transaction was not added:
\* parse_incoming_blinks never fills the set of unknown transactions.
AddBlinks(n, m) ==
    /\ m.pc = "blinks"
    /\ blinked' = IF m.approved THEN [blinked EXCEPT ![n] = @ \cup {m.tx}]
                  ELSE blinked
    /\ incoming' = [incoming EXCEPT ![n] = @ \ {m}]
    /\ UNCHANGED <<known, pending, votes, jobs, pool, relay, sent, restarts>>

-----------------------------------------------------------------------------
\* The pool is in the database (tx_memory_pool::init); the rest is lost.
Restart(n) ==
    /\ restarts[n] < MaxRestarts[n]
    /\ restarts' = [restarts EXCEPT ![n] = @ + 1]
    /\ known' = [known EXCEPT ![n] = {}]
    /\ pending' = [pending EXCEPT ![n] = {}]
    /\ votes' = [votes EXCEPT ![n] = {}]
    /\ jobs' = [jobs EXCEPT ![n] = {}]
    /\ incoming' = [incoming EXCEPT ![n] = {}]
    /\ blinked' = [blinked EXCEPT ![n] = {}]
    /\ UNCHANGED <<pool, relay, sent>>

-----------------------------------------------------------------------------
Init ==
    /\ known = [n \in Node |-> {}]
    /\ pending = [n \in Node |-> {}]
    /\ votes = [n \in Node |-> {}]
    /\ jobs = [n \in Node |-> {}]
    /\ incoming = [n \in Node |-> {}]
    /\ pool = [n \in Node |-> {}]
    /\ relay = [n \in Node |-> {}]
    /\ blinked = [n \in Node |-> {}]
    /\ sent \in {PeerSigs(f) : f \in OneApproval}
    /\ restarts = [n \in Node |-> 0]

\* The steps of a node that follow from quorumnet's messages, and whether there
\* is one.
Works(n) ==
    \/ \E b \in Blinks : HandleBlink(n, b)
    \/ \E s \in sent : HandleBlinkSignature(n, s)
    \/ \E j \in jobs[n] :
          \/ Verify(n, j)
          \/ Add(n, j)
          \/ Enter(n, j)
          \/ Sign(n, j)
          \/ Delay(n, j)
          \/ Record(n, j)
          \/ RelayApproved(n, j)

HasWork(n) ==
    \/ \E b \in Blinks : Takes(n, b)
    \/ \E s \in sent : Wanted(n, s)
    \/ \E j \in jobs[n] : Ready(n, j)

\* The steps of its threads for peer-to-peer messages.
Hears(n) ==
    \/ \E p \in P2pThread, t \in Tx, signed \in BOOLEAN :
          NotifyNewTransactions(n, p, t, signed)
    \/ \E m \in incoming[n] :
          \/ ParseIncomingTxs(n, m)
          \/ HandleParsedTxs(n, m)
          \/ AddBlinks(n, m)

Next ==
    \/ \E n \in Node : Works(n)
    \/ \E n \in Node : Hears(n)
    \/ \E n \in Node : Restart(n)

Spec == Init /\ [][Next]_vars

-----------------------------------------------------------------------------
(* Properties.                                                             *)

\* The variables have values of their types; a node has at most one signature
\* of a member for a blink (add_prechecked_signature), and its pool holds no
\* two transactions, as they would spend the same output.
TypeOK ==
    /\ known \in [Node -> SUBSET Blinks]
    /\ pending \in [Node -> SUBSET Sig]
    /\ votes \in [Node -> SUBSET Sig]
    /\ jobs \in [Node -> SUBSET Job]
    /\ incoming \in [Node -> SUBSET Incoming]
    /\ pool \in [Node -> SUBSET Tx] /\ relay \in [Node -> SUBSET Tx]
    /\ blinked \in [Node -> SUBSET Tx]
    /\ sent \subseteq Sig
    /\ \A n \in Node :
          /\ \A v, w \in votes[n] :
                v.blink = w.blink /\ v.member = w.member => v = w
          /\ relay[n] \subseteq pool[n] /\ Cardinality(pool[n]) <= 1
          /\ Cardinality(jobs[n]) <= Threads[n]
          /\ restarts[n] \in 0..MaxRestarts[n]

\* "Blink approvals must require a majority of quorum members to prevent
\* conflicting, signed blinks" (service_node_rules.h): there are never enough
\* signed approvals for two transactions that conflict, also when their
\* blinks have different heights and so share only one of their subquorums,
\* when nodes restart, and when ordinary transactions arrive meanwhile.
NoConflictingBlinks ==
    \A b, c \in Blinks : Approved(sent, b) /\ Approved(sent, c) => b.tx = c.tx

\* Unless a node has restarted, no node finds a blink approved that others can
\* find rejected by the signatures there are, or the other way round: the
\* verdicts that bl.good and bl.bad report agree, in whatever order the
\* signatures came.
VerdictsAgree ==
    (\A n \in Node : restarts[n] = 0) =>
        \A n \in Node : \A b \in known[n] :
            /\ ~(Approved(votes[n], b) /\ Rejected(sent, b))
            /\ ~(Rejected(votes[n], b) /\ Approved(sent, b))

\* No signature is left behind in pending_sigs once the node knows the blink:
\* nobody would look at it again.  (A signature and its blink may be handled
\* at the same time; handle_blink_signature looks the blink up twice.)
NoForgottenSignature ==
    \A n \in Node : \A s \in pending[n] : s.blink \notin known[n]

\* When a blink is approved and its transaction is in the pool, the node
\* relays the transaction, unless the thread that saw the approval is still
\* to do so: do_not_relay is not left set by a verification that began before
\* the approval and ended after it.
ApprovedIsRelayed ==
    \A n \in Node : \A b \in known[n] :
        /\ Approved(votes[n], b)
        /\ b.tx \in pool[n]
        /\ \A j \in jobs[n] : j.pc \in {"record", "relay"} => j.blink.tx # b.tx
        => b.tx \in relay[n]

\* If every member signs and the messages arrive, the quorum comes to a
\* verdict: when no node has anything left to do, every node has every blink
\* of whose quorum it is and finds it approved or rejected, however the votes
\* are split, although nodes have restarted, and no thread is stuck in a
\* handler, waiting for a lock of another one.
Decided ==
    (\A n \in Node : ~HasWork(n)) =>
        \A n \in Node :
            /\ jobs[n] = {}
            /\ \A b \in Blinks :
                  InWindow(b) /\ HasQuorums(b) /\ InQuorum(n, b) =>
                      /\ b \in known[n]
                      /\ Approved(votes[n], b) \/ Rejected(votes[n], b)
=============================================================================
