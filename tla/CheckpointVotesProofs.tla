------------------------ MODULE CheckpointVotesProofs ------------------------
(***************************************************************************)
(* Proofs about CheckpointVotes, for any number of nodes and threads, and  *)
(* that it implements CheckpointConsensus.                                 *)
(***************************************************************************)
EXTENDS CheckpointRefinement, FiniteSetTheorems, TLAPS

-----------------------------------------------------------------------------
(* Operators.                                                              *)

LEMMA RoundUpFacts ==
  ASSUME NEW h \in Nat
  PROVE  RoundUp(h) \in Nat /\ h <= RoundUp(h)
<1>1. CHECKPOINT_INTERVAL \in Nat /\ CHECKPOINT_INTERVAL > 0
  BY NumberAssumption
<1>2. h % CHECKPOINT_INTERVAL \in 0..(CHECKPOINT_INTERVAL - 1)
  BY <1>1
<1>. QED  BY <1>1, <1>2 DEF RoundUp

OnePerHeight(C) == \A c, d \in C : c.height = d.height => c = d

LEMMA UpdateOne ==
  ASSUME NEW C, NEW D, OnePerHeight(C), OnePerHeight(D)
  PROVE  OnePerHeight(Update(C, D))
BY Zenon DEF OnePerHeight, Update

LEMMA MadeOne ==
  ASSUME NEW C, NEW V, NEW P, NEW h, OnePerHeight(V)
  PROVE  OnePerHeight(Made(C, V, P, h))
<1>1. \A d \in Made(C, V, P, h) : \E v \in V :
        d = [height |-> v.height, block |-> v.block,
             signers |-> Signers(P, v) \cup StoredSigners(C, v)]
  BY Zenon DEF Made, Enough
<1>2. \A d \in Made(C, V, P, h) : \E v \in V :
        /\ d = [height |-> v.height, block |-> v.block,
                signers |-> Signers(P, v) \cup StoredSigners(C, v)]
        /\ d.height = v.height
  BY <1>1
<1>. QED  BY ZenonT(60), <1>2 DEF OnePerHeight

\* Signers, in terms of the votes there are.
LEMMA SignersFacts ==
  ASSUME NEW P \in SUBSET Vote, NEW f \in [height : 0..MaxHeight, block : Block]
                                            \cup Vote \cup Checkpoint
  PROVE  /\ Signers(P, f) \subseteq Node /\ IsFiniteSet(Signers(P, f))
         /\ \A m : m \in Signers(P, f) <=>
               /\ m \in Node
               /\ [height |-> f.height, block |-> f.block, voter |-> m] \in P
<1>1. \A m : m \in Signers(P, f) =>
         m \in Node /\ [height |-> f.height, block |-> f.block, voter |-> m] \in P
  <2>1. ASSUME NEW m, NEW u \in P, u.height = f.height, u.block = f.block,
               m = u.voter
        PROVE  m \in Node /\ [height |-> f.height, block |-> f.block, voter |-> m] \in P
    <3>1. u = [height |-> u.height, block |-> u.block, voter |-> u.voter]
            /\ u.voter \in Node
      BY DEF Vote
    <3>. QED  BY Zenon, <2>1, <3>1
  <2>. QED  BY Zenon, <2>1 DEF Signers
<1>2. ASSUME NEW m, [height |-> f.height, block |-> f.block, voter |-> m] \in P
      PROVE  m \in Signers(P, f)
  <2>. DEFINE u == [height |-> f.height, block |-> f.block, voter |-> m]
  <2>1. u.height = f.height /\ u.block = f.block /\ u.voter = m
    OBVIOUS
  <2>. HIDE DEF u
  <2>2. u \in P  BY <1>2 DEF u
  <2>. QED  BY Zenon, <2>1, <2>2 DEF Signers
<1>3. Signers(P, f) \subseteq Node
  BY Zenon, <1>1
<1>4. IsFiniteSet(Signers(P, f))
  BY Zenon, <1>3, QuorumAssumption, FS_Subset
<1>. QED  BY Zenon, <1>1, <1>2, <1>3, <1>4

\* Every signer of checkpoint c has signed, and there are enough.
Backed(c, K) ==
  /\ Cardinality(c.signers) >= CHECKPOINT_MIN_VOTES
  /\ \A m \in c.signers :
        /\ m \in Validator(c.height)
        /\ [height |-> c.height, block |-> c.block, voter |-> m] \in K

\* Enough validators have signed the block of f.
Signed(f, K) == Cardinality(Signers(K, f)) >= CHECKPOINT_MIN_VOTES

LEMMA Larger2 ==
  ASSUME NEW S, NEW T, S \subseteq T, IsFiniteSet(T),
         Cardinality(S) >= CHECKPOINT_MIN_VOTES
  PROVE  Cardinality(T) >= CHECKPOINT_MIN_VOTES
<1>1. IsFiniteSet(S) /\ Cardinality(S) <= Cardinality(T)
  BY Zenon, FS_Subset
<1>2. Cardinality(S) \in Nat /\ Cardinality(T) \in Nat
  BY Zenon, <1>1, FS_CardinalityType
<1>. QED  BY <1>1, <1>2, NumberAssumption

LEMMA SignedGrows ==
  ASSUME NEW K \in SUBSET Vote, NEW L \in SUBSET Vote, K \subseteq L,
         NEW f \in HeightAndBlock, Signed(f, K)
  PROVE  Signed(f, L)
<1>1. f \in [height : 0..MaxHeight, block : Block] \cup Vote \cup Checkpoint
  BY Zenon DEF HeightAndBlock
<1>2. Signers(K, f) \subseteq Signers(L, f) /\ IsFiniteSet(Signers(L, f))
  BY Zenon, <1>1, SignersFacts
<1>. QED  BY Zenon, <1>2, Larger2 DEF Signed

LEMMA MadeFacts ==
  ASSUME NEW K \in SUBSET Vote, \A u \in K : u.voter \in Validator(u.height),
         NEW C \in SUBSET Checkpoint, \A c \in C : Backed(c, K),
         NEW V \in SUBSET K, NEW P \in SUBSET K, NEW h,
         NEW d \in Made(C, V, P, h)
  PROVE  /\ d \in Checkpoint /\ Backed(d, K)
         /\ [height |-> d.height, block |-> d.block] \in HeightAndBlock
         /\ Signed([height |-> d.height, block |-> d.block], K)
<1>1. PICK v \in V :
        /\ d = [height |-> v.height, block |-> v.block,
                signers |-> Signers(P, v) \cup StoredSigners(C, v)]
        /\ Cardinality(Signers(P, v)) >= CHECKPOINT_MIN_VOTES
  BY Zenon DEF Made, Enough
<1>2. /\ d.height = v.height /\ d.block = v.block
      /\ d.signers = Signers(P, v) \cup StoredSigners(C, v)
  BY <1>1
<1>3. v \in Vote /\ v.height \in 0..MaxHeight /\ v.block \in Block
  <2>1. v \in Vote  BY Zenon
  <2>. QED  BY <2>1 DEF Vote
<1>4. P \in SUBSET Vote
  BY Zenon
<1>5. /\ Signers(P, v) \subseteq Node /\ IsFiniteSet(Signers(P, v))
      /\ \A m \in Signers(P, v) :
            [height |-> v.height, block |-> v.block, voter |-> m] \in P
  BY Zenon, <1>3, <1>4, SignersFacts
<1>6. ASSUME NEW m \in StoredSigners(C, v)
      PROVE  m \in Node /\ m \in Validator(v.height)
             /\ [height |-> v.height, block |-> v.block, voter |-> m] \in K
  <2>1. PICK c \in C : m \in c.signers /\ c.height = v.height /\ c.block = v.block
    BY Zenon DEF StoredSigners, Stored
  <2>2. c.signers \subseteq Node
    BY DEF Checkpoint
  <2>. QED  BY Zenon, <2>1, <2>2 DEF Backed
<1>7. ASSUME NEW m \in Signers(P, v)
      PROVE  m \in Node /\ m \in Validator(v.height)
             /\ [height |-> v.height, block |-> v.block, voter |-> m] \in K
  <2>. DEFINE u == [height |-> v.height, block |-> v.block, voter |-> m]
  <2>1. u.height = v.height /\ u.voter = m
    OBVIOUS
  <2>2. u \in K /\ m \in Node  BY Zenon, <1>5
  <2>. HIDE DEF u
  <2>3. m \in Validator(v.height)  BY Zenon, <2>1, <2>2
  <2>. QED  BY Zenon, <2>2, <2>3 DEF u
<1>8. d.signers \subseteq Node
  BY Zenon, <1>2, <1>6, <1>7
<1>9. d \in Checkpoint
  <2>1. d = [height |-> v.height, block |-> v.block, signers |-> d.signers]
    BY <1>1, <1>2
  <2>. QED  BY <1>3, <1>8, <2>1 DEF Checkpoint
<1>10. Backed(d, K)
  <2>1. Signers(P, v) \subseteq d.signers /\ IsFiniteSet(d.signers)
    BY Zenon, <1>2, <1>8, QuorumAssumption, FS_Subset
  <2>2. Cardinality(d.signers) >= CHECKPOINT_MIN_VOTES
    BY Zenon, <1>1, <2>1, Larger2
  <2>. QED  BY Zenon, <1>2, <1>6, <1>7, <2>2 DEF Backed
<1>. DEFINE f == [height |-> d.height, block |-> d.block]
<1>11. f \in HeightAndBlock /\ f.height = v.height /\ f.block = v.block
  BY <1>2, <1>3 DEF HeightAndBlock
<1>. HIDE DEF f
<1>12. Signed(f, K)
  <2>1. f \in [height : 0..MaxHeight, block : Block] \cup Vote \cup Checkpoint
    BY Zenon, <1>11 DEF HeightAndBlock
  <2>2. Signers(P, v) \subseteq Signers(K, f) /\ IsFiniteSet(Signers(K, f))
    BY Zenon, <1>7, <1>11, <2>1, SignersFacts
  <2>. QED  BY Zenon, <1>1, <2>2, Larger2 DEF Signed
<1>. QED  BY Zenon, <1>9, <1>10, <1>11, <1>12 DEF f

-----------------------------------------------------------------------------
(* The inductive invariant.                                                *)

\* A node that has not repeated itself has voted below last only.
VoterInv ==
  \A v \in cast : /\ v.voter \in Validator(v.height)
                  /\ v.voter \notin repeats => v.height < last[v.voter]

\* Nothing but signed votes is around.
KnownInv ==
  /\ net \subseteq cast
  /\ \A n \in Node : pool[n] \subseteq cast
  /\ \A n \in Node, t \in Thread :
        /\ thread[n][t].pc # "idle" => thread[n][t].vote \in cast
        /\ thread[n][t].pc = "pooled" => thread[n][t].votes \subseteq cast

CpInv ==
  \A n \in Node : \A c \in cps[n] : Backed(c, cast) /\ c.height < Height(n)

FormedInv == \A f \in formed : Signed(f, cast)

RepeatsInv == Cardinality(repeats) <= MaxRepeats

VInv == /\ TypeOK /\ VoterInv /\ NoDoubleVote /\ KnownInv
        /\ CpInv /\ FormedInv /\ RepeatsInv

LEMMA VInit ==
  ASSUME Init
  PROVE  VInv
<1>1. /\ chain = [n \in Node |-> <<Genesis>>] /\ last = [n \in Node |-> 0]
      /\ pool = [n \in Node |-> {}] /\ cps = [n \in Node |-> {}]
      /\ thread = [n \in Node |-> [t \in Thread |-> Idle]]
      /\ net = {} /\ cast = {} /\ formed = {} /\ repeats = {}
  BY Zenon DEF Init
<1>2. /\ \A n \in Node : pool[n] = {} /\ cps[n] = {} /\ chain[n] = <<Genesis>>
      /\ \A n \in Node, t \in Thread : thread[n][t] = Idle
  BY Zenon, <1>1
<1>3. TypeOK
  <2>1. chain \in [Node -> Seq(Block)] /\ <<Genesis>> # <<>>
    BY <1>1, TreeAssumption
  <2>2. last \in [Node -> Nat]
    BY <1>1
  <2>3. pool \in [Node -> SUBSET Vote] /\ cps \in [Node -> SUBSET Checkpoint]
    BY Zenon, <1>1
  <2>4. [t \in Thread |-> Idle] \in [Thread -> {Idle}
                            \cup [pc : {"verified"}, vote : Vote]
                            \cup [pc : {"pooled"}, vote : Vote,
                                  votes : SUBSET Vote]]
    BY Zenon
  <2>. QED  BY Zenon, <1>1, <1>2, <2>1, <2>2, <2>3, <2>4 DEF TypeOK
<1>4. KnownInv
  <2>1. Idle.pc = "idle" /\ "idle" # "pooled"  BY DEF Idle
  <2>. QED  BY Zenon, <1>1, <1>2, <2>1 DEF KnownInv
<1>5. RepeatsInv
  BY <1>1, FS_EmptySet, NumberAssumption DEF RepeatsInv
<1>. QED
  BY Zenon, <1>1, <1>2, <1>3, <1>4, <1>5
     DEF VInv, VoterInv, NoDoubleVote, CpInv, FormedInv

\* When nothing but the network, the pools and the threads change.
LEMMA SameVotes ==
  ASSUME VInv, TypeOK', KnownInv',
         UNCHANGED <<chain, last, cps, cast, formed, repeats>>
  PROVE  VInv'
<1>1. /\ chain' = chain /\ last' = last /\ cps' = cps /\ cast' = cast
      /\ formed' = formed /\ repeats' = repeats
  BY Zenon
<1>2. VoterInv' /\ NoDoubleVote' /\ FormedInv' /\ RepeatsInv'
  BY Zenon, <1>1 DEF VInv, VoterInv, NoDoubleVote, FormedInv, RepeatsInv
<1>3. CpInv'
  BY Zenon, <1>1 DEF VInv, CpInv, Height
<1>. QED  BY Zenon, <1>2, <1>3 DEF VInv

LEMMA RelayStep ==
  ASSUME VInv, NEW n \in Node, Relay(n)
  PROVE  VInv'
<1>1. /\ UNCHANGED <<chain, last, cps, cast, formed, repeats>>
      /\ UNCHANGED <<pool, thread>>
      /\ net' = net \cup {v \in pool[n] : v.height + VOTE_LIFETIME >= Height(n)}
  BY Zenon DEF Relay
<1>2. KnownInv'
  BY Zenon, <1>1 DEF VInv, KnownInv
<1>3. TypeOK'
  <2>1. net' \subseteq Vote
    BY Zenon, <1>1, <1>2 DEF VInv, TypeOK, KnownInv
  <2>. QED  BY Zenon, <1>1, <2>1 DEF VInv, TypeOK
<1>. QED  BY Zenon, <1>1, <1>2, <1>3, SameVotes

ThreadState == {Idle} \cup [pc : {"verified"}, vote : Vote]
                      \cup [pc : {"pooled"}, vote : Vote, votes : SUBSET Vote]

\* One thread takes a step.
OnlyThread(n, t, s) ==
  \A m \in Node, u \in Thread :
     thread'[m][u] = IF m = n /\ u = t THEN s ELSE thread[m][u]

LEMMA ThreadTypes ==
  ASSUME TypeOK, NEW n \in Node, NEW t \in Thread, NEW s \in ThreadState,
         thread' = [thread EXCEPT ![n][t] = s]
  PROVE  /\ thread' \in [Node -> [Thread -> ThreadState]]
         /\ OnlyThread(n, t, s)
<1>1. thread \in [Node -> [Thread -> ThreadState]]
  BY Zenon DEF TypeOK, ThreadState
<1>. HIDE DEF ThreadState
<1>. QED  BY <1>1 DEF OnlyThread

LEMMA ThreadKnown ==
  ASSUME KnownInv, NEW n \in Node, NEW t \in Thread, NEW s, cast' = cast,
         s.pc # "idle" => s.vote \in cast,
         s.pc = "pooled" => s.votes \subseteq cast,
         OnlyThread(n, t, s),
         net' \subseteq cast, \A m \in Node : pool'[m] \subseteq cast
  PROVE  KnownInv'
<1>1. ASSUME NEW m \in Node, NEW u \in Thread
      PROVE  /\ thread'[m][u].pc # "idle" => thread'[m][u].vote \in cast
             /\ thread'[m][u].pc = "pooled" => thread'[m][u].votes \subseteq cast
  <2>1. CASE m = n /\ u = t
    <3>1. thread'[m][u] = s  BY Zenon, <2>1 DEF OnlyThread
    <3>. QED  BY Zenon, <3>1
  <2>2. CASE ~(m = n /\ u = t)
    <3>1. thread'[m][u] = thread[m][u]  BY Zenon, <2>2 DEF OnlyThread
    <3>. QED  BY Zenon, <3>1 DEF KnownInv
  <2>. QED  BY Zenon, <2>1, <2>2
<1>. QED  BY Zenon, <1>1 DEF KnownInv

LEMMA VerifyVoteStep ==
  ASSUME VInv, NEW n \in Node, NEW t \in Thread, NEW v \in net,
         VerifyVote(n, t, v)
  PROVE  VInv'
<1>. DEFINE s == [pc |-> "verified", vote |-> v]
<1>1. /\ UNCHANGED <<chain, last, cps, cast, formed, repeats>>
      /\ UNCHANGED <<pool, net>>
      /\ thread' = [thread EXCEPT ![n][t] = s]
  BY Zenon DEF VerifyVote
<1>2. TypeOK /\ KnownInv /\ v \in cast /\ v \in Vote
  BY Zenon DEF VInv, TypeOK, KnownInv
<1>3. s \in ThreadState /\ s.pc = "verified" /\ "verified" # "pooled" /\ s.vote = v
  BY <1>2 DEF ThreadState
<1>. HIDE DEF s
<1>4. /\ thread' \in [Node -> [Thread -> ThreadState]]
      /\ OnlyThread(n, t, s)
  BY Zenon, <1>1, <1>2, <1>3, ThreadTypes
<1>5. KnownInv'
  <2>1. net' \subseteq cast /\ \A m \in Node : pool'[m] \subseteq cast
    BY Zenon, <1>1, <1>2 DEF KnownInv
  <2>. QED  BY Zenon, <1>1, <1>2, <1>3, <1>4, <2>1, ThreadKnown
<1>6. TypeOK'
  BY Zenon, <1>1, <1>2, <1>4 DEF TypeOK, ThreadState
<1>. QED  BY Zenon, <1>1, <1>5, <1>6, SameVotes

LEMMA AddToPoolStep ==
  ASSUME VInv, NEW n \in Node, NEW t \in Thread, AddToPool(n, t)
  PROVE  VInv'
<1>. DEFINE v == thread[n][t].vote
            s == [pc |-> "pooled", vote |-> v,
                  votes |-> {w \in pool'[n] :
                                w.height = v.height /\ w.block = v.block}]
<1>1. /\ UNCHANGED <<chain, last, cps, cast, formed, repeats>>
      /\ UNCHANGED net /\ thread[n][t].pc = "verified"
      /\ \/ UNCHANGED pool /\ thread' = [thread EXCEPT ![n][t] = Idle]
         \/ /\ pool' = [pool EXCEPT ![n] = @ \cup {v}]
            /\ thread' = [thread EXCEPT ![n][t] = s]
  BY Zenon DEF AddToPool
<1>2. TypeOK /\ KnownInv /\ cast \subseteq Vote
  BY Zenon DEF VInv, TypeOK
<1>3. v \in cast
  <2>1. "verified" # "idle"  OBVIOUS
  <2>. QED  BY Zenon, <1>1, <1>2, <2>1 DEF KnownInv
<1>. HIDE DEF v
<1>4. CASE UNCHANGED pool /\ thread' = [thread EXCEPT ![n][t] = Idle]
  <2>1. Idle \in ThreadState /\ Idle.pc = "idle" /\ "idle" # "pooled"
    BY DEF ThreadState, Idle
  <2>2. /\ thread' \in [Node -> [Thread -> ThreadState]]
        /\ OnlyThread(n, t, Idle)
    BY Zenon, <1>2, <1>4, <2>1, ThreadTypes
  <2>3. KnownInv'
    <3>1. net' \subseteq cast /\ \A m \in Node : pool'[m] \subseteq cast
      BY Zenon, <1>1, <1>2, <1>4 DEF KnownInv
    <3>2. cast' = cast  BY Zenon, <1>1
    <3>. QED  BY Zenon, <1>2, <2>1, <2>2, <3>1, <3>2, ThreadKnown
  <2>4. TypeOK'
    BY Zenon, <1>1, <1>2, <1>4, <2>2 DEF TypeOK, ThreadState
  <2>. QED  BY Zenon, <1>1, <2>3, <2>4, SameVotes
<1>5. CASE /\ pool' = [pool EXCEPT ![n] = @ \cup {v}]
           /\ thread' = [thread EXCEPT ![n][t] = s]
  <2>1. /\ pool' \in [Node -> SUBSET Vote]
        /\ \A m \in Node : pool'[m] \subseteq cast
    <3>1. pool \in [Node -> SUBSET Vote]  BY Zenon, <1>2 DEF TypeOK
    <3>2. pool' \in [Node -> SUBSET Vote]
            /\ \A m \in Node : pool'[m] = IF m = n THEN pool[n] \cup {v} ELSE pool[m]
      BY <1>2, <1>3, <1>5, <3>1
    <3>. QED  BY Zenon, <1>2, <1>3, <3>2 DEF KnownInv
  <2>2. /\ s.pc = "pooled" /\ s.vote = v /\ s.votes \subseteq pool'[n]
    OBVIOUS
  <2>3. s \in ThreadState
    <3>1. {w \in pool'[n] : w.height = v.height /\ w.block = v.block} \in SUBSET Vote
      BY Zenon, <2>1
    <3>2. v \in Vote  BY Zenon, <1>2, <1>3
    <3>. QED  BY <3>1, <3>2 DEF ThreadState
  <2>. HIDE DEF s
  <2>4. /\ thread' \in [Node -> [Thread -> ThreadState]]
        /\ OnlyThread(n, t, s)
    BY Zenon, <1>2, <1>5, <2>3, ThreadTypes
  <2>5. KnownInv'
    <3>1. net' \subseteq cast /\ s.votes \subseteq cast
      BY Zenon, <1>1, <1>2, <2>1, <2>2 DEF KnownInv
    <3>2. cast' = cast  BY Zenon, <1>1
    <3>. QED  BY Zenon, <1>2, <1>3, <2>1, <2>2, <2>4, <3>1, <3>2, ThreadKnown
  <2>6. TypeOK'
    BY Zenon, <1>1, <1>2, <2>1, <2>4 DEF TypeOK, ThreadState
  <2>. QED  BY Zenon, <1>1, <2>5, <2>6, SameVotes
<1>. QED  BY Zenon, <1>1, <1>4, <1>5

\* Node n, and no other, has new checkpoints, chain or votes.
LEMMA CpStep ==
  ASSUME TypeOK, CpInv, NEW n \in Node, NEW C \in SUBSET Checkpoint,
         cps' = [cps EXCEPT ![n] = C], OnePerHeight(C),
         \A c \in C : Backed(c, cast') /\ c.height < Height(n)',
         \A m \in Node \ {n} : chain'[m] = chain[m], cast \subseteq cast'
  PROVE  /\ cps' \in [Node -> SUBSET Checkpoint]
         /\ \A m \in Node : \A c, d \in cps'[m] : c.height = d.height => c = d
         /\ CpInv'
<1>1. /\ cps' \in [Node -> SUBSET Checkpoint]
      /\ cps'[n] = C /\ \A m \in Node \ {n} : cps'[m] = cps[m]
  <2>1. cps \in [Node -> SUBSET Checkpoint]  BY Zenon DEF TypeOK
  <2>. QED  BY <2>1
<1>2. ASSUME NEW m \in Node
      PROVE  /\ \A c, d \in cps'[m] : c.height = d.height => c = d
             /\ \A c \in cps'[m] : Backed(c, cast') /\ c.height < Height(m)'
  <2>1. CASE m = n
    BY Zenon, <1>1, <2>1 DEF OnePerHeight
  <2>2. CASE m # n
    <3>1. cps'[m] = cps[m] /\ Height(m)' = Height(m)
      BY Zenon, <1>1, <2>2 DEF Height
    <3>2. \A c \in cps[m] : Backed(c, cast) => Backed(c, cast')
      BY Zenon DEF Backed
    <3>3. \A c, d \in cps[m] : c.height = d.height => c = d
      BY Zenon DEF TypeOK
    <3>4. \A c \in cps[m] : Backed(c, cast) /\ c.height < Height(m)
      BY Zenon DEF CpInv
    <3>5. \A c \in cps[m] : Backed(c, cast') /\ c.height < Height(m)'
      BY Zenon, <3>1, <3>2, <3>4
    <3>. QED  BY Zenon, <3>1, <3>3, <3>5
  <2>. QED  BY Zenon, <2>1, <2>2
<1>. QED  BY Zenon, <1>1, <1>2 DEF CpInv

LEMMA MadeBelow ==
  ASSUME NEW C, NEW V, NEW P, NEW h, \A c \in C : c.height < h,
         NEW d \in Made(C, V, P, h)
  PROVE  d.height < h
<1>1. PICK v \in V :
        /\ d = [height |-> v.height, block |-> v.block,
                signers |-> Signers(P, v) \cup StoredSigners(C, v)]
        /\ Stored(C, v) # {} \/ v.height < h
  BY Zenon DEF Made, Enough
<1>2. d.height = v.height
  BY <1>1
<1>. QED  BY Zenon, <1>1, <1>2 DEF Stored

LEMMA FormedStep ==
  ASSUME TypeOK, FormedInv, NEW D, formed' = formed \cup Blocks(D),
         cast \subseteq cast', cast' \subseteq Vote,
         \A d \in D : /\ [height |-> d.height, block |-> d.block] \in HeightAndBlock
                      /\ Signed([height |-> d.height, block |-> d.block], cast')
  PROVE  formed' \subseteq HeightAndBlock /\ FormedInv'
<1>1. \A f \in formed : f \in HeightAndBlock /\ Signed(f, cast')
  <2>1. cast \in SUBSET Vote /\ cast' \in SUBSET Vote /\ formed \subseteq HeightAndBlock
    BY Zenon DEF TypeOK
  <2>. QED  BY Zenon, <2>1, SignedGrows DEF FormedInv
<1>2. \A f \in Blocks(D) : f \in HeightAndBlock /\ Signed(f, cast')
  BY Zenon DEF Blocks
<1>. QED  BY Zenon, <1>1, <1>2 DEF FormedInv

LEMMA HandleCheckpointVoteStep ==
  ASSUME VInv, NEW n \in Node, NEW t \in Thread, HandleCheckpointVote(n, t)
  PROVE  VInv'
<1>. DEFINE v == thread[n][t].vote
            P == thread[n][t].votes
            D == Made(cps[n], {v}, P, Height(n))
<1>0. /\ TypeOK /\ VoterInv /\ NoDoubleVote /\ KnownInv /\ CpInv /\ FormedInv
      /\ RepeatsInv
  BY Zenon DEF VInv
<1>1. /\ chain' = chain /\ last' = last /\ pool' = pool /\ cast' = cast
      /\ repeats' = repeats /\ thread[n][t].pc = "pooled"
      /\ cps' = [cps EXCEPT ![n] = Update(cps[n], D)]
      /\ formed' = formed \cup Blocks(D) /\ net' = net \cup {v}
      /\ thread' = [thread EXCEPT ![n][t] = Idle]
  BY Zenon DEF HandleCheckpointVote
<1>2. v \in cast /\ P \subseteq cast
  <2>1. "pooled" # "idle"  OBVIOUS
  <2>. QED  BY Zenon, <1>0, <1>1, <2>1 DEF KnownInv
<1>3. /\ cast \in SUBSET Vote /\ cps[n] \in SUBSET Checkpoint
      /\ OnePerHeight(cps[n])
      /\ \A c \in cps[n] : Backed(c, cast) /\ c.height < Height(n)
      /\ \A u \in cast : u.voter \in Validator(u.height)
  <2>1. cps \in [Node -> SUBSET Checkpoint]  BY Zenon, <1>0 DEF TypeOK
  <2>2. cps[n] \in SUBSET Checkpoint  BY <2>1
  <2>. QED  BY Zenon, <1>0, <2>2 DEF TypeOK, OnePerHeight, CpInv, VoterInv
<1>. HIDE DEF v, P
<1>4. /\ OnePerHeight(D)
      /\ \A d \in D : d.height < Height(n)
      /\ \A d \in D : /\ d \in Checkpoint /\ Backed(d, cast)
                      /\ [height |-> d.height, block |-> d.block] \in HeightAndBlock
                      /\ Signed([height |-> d.height, block |-> d.block], cast)
  <2>1. OnePerHeight({v})  BY Zenon DEF OnePerHeight
  <2>2. {v} \in SUBSET cast /\ P \in SUBSET cast  BY Zenon, <1>2
  <2>3. OnePerHeight(D)  BY Zenon, <2>1, MadeOne
  <2>4. \A d \in D : d.height < Height(n)  BY Zenon, <1>3, MadeBelow
  <2>. QED  BY Zenon, <1>3, <2>2, <2>3, <2>4, MadeFacts
<1>. HIDE DEF D
<1>5. /\ cps' \in [Node -> SUBSET Checkpoint]
      /\ \A m \in Node : \A c, d \in cps'[m] : c.height = d.height => c = d
      /\ CpInv'
  <2>1. /\ Update(cps[n], D) \in SUBSET Checkpoint
        /\ \A c \in Update(cps[n], D) : Backed(c, cast') /\ c.height < Height(n)
    BY Zenon, <1>1, <1>3, <1>4 DEF Update
  <2>2. OnePerHeight(Update(cps[n], D))
    BY Zenon, <1>3, <1>4, UpdateOne
  <2>3. Height(n)' = Height(n)
    BY Zenon, <1>1 DEF Height
  <2>. QED  BY Zenon, <1>0, <1>1, <2>1, <2>2, <2>3, CpStep
<1>6. formed' \subseteq HeightAndBlock /\ FormedInv'
  BY Zenon, <1>0, <1>1, <1>3, <1>4, FormedStep
<1>7. thread' \in [Node -> [Thread -> ThreadState]] /\ OnlyThread(n, t, Idle)
  <2>1. Idle \in ThreadState  BY DEF ThreadState
  <2>. QED  BY Zenon, <1>0, <1>1, <2>1, ThreadTypes
<1>8. KnownInv'
  <2>1. Idle.pc = "idle" /\ "idle" # "pooled"  BY DEF Idle
  <2>2. net' \subseteq cast /\ \A m \in Node : pool'[m] \subseteq cast
    BY Zenon, <1>0, <1>1, <1>2 DEF KnownInv
  <2>3. cast' = cast  BY Zenon, <1>1
  <2>. QED  BY Zenon, <1>0, <1>7, <2>1, <2>2, <2>3, ThreadKnown
<1>9. TypeOK'
  <2>1. net' \subseteq Vote
    BY Zenon, <1>1, <1>3, <1>8 DEF KnownInv
  <2>. QED  BY Zenon, <1>0, <1>1, <1>5, <1>6, <1>7, <2>1 DEF TypeOK, ThreadState
<1>10. VoterInv' /\ NoDoubleVote' /\ RepeatsInv'
  BY Zenon, <1>0, <1>1 DEF VoterInv, NoDoubleVote, RepeatsInv
<1>. QED  BY Zenon, <1>5, <1>6, <1>8, <1>9, <1>10 DEF VInv

LEMMA DetachStep ==
  ASSUME VInv, NEW n \in Node, NEW h \in 1..(Height(n) - 1), Detach(n, h)
  PROVE  VInv'
<1>. DEFINE reset == last[n] >= h + REORG_SAFETY_BUFFER_BLOCKS
            C == {c \in cps[n] : c.height < h}
<1>0. /\ TypeOK /\ VoterInv /\ NoDoubleVote /\ KnownInv /\ CpInv /\ FormedInv
  BY Zenon DEF VInv
<1>1. /\ repeats' = IF reset THEN repeats \cup {n} ELSE repeats
      /\ Cardinality(repeats') <= MaxRepeats
      /\ chain' = [chain EXCEPT ![n] = SubSeq(@, 1, h)]
      /\ last' = [last EXCEPT ![n] = LastAfterDetach(n, h)]
      /\ pool' = [pool EXCEPT ![n] = Unexpired(@, h)]
      /\ cps' = [cps EXCEPT ![n] = C]
      /\ thread' = thread /\ net' = net /\ cast' = cast /\ formed' = formed
  BY Zenon DEF Detach
<1>2. /\ chain' \in [Node -> Seq(Block)] /\ \A m \in Node : chain'[m] # <<>>
      /\ Height(n)' = h /\ \A m \in Node \ {n} : chain'[m] = chain[m]
  <2>1. chain \in [Node -> Seq(Block)] /\ \A m \in Node : chain[m] # <<>>
    BY Zenon, <1>0 DEF TypeOK
  <2>2. chain[n] \in Seq(Block) /\ h \in 1..(Len(chain[n]) - 1)
    BY <2>1 DEF Height
  <2>3. /\ SubSeq(chain[n], 1, h) \in Seq(Block) /\ Len(SubSeq(chain[n], 1, h)) = h
        /\ SubSeq(chain[n], 1, h) # <<>>
    BY <2>2
  <2>4. /\ chain' \in [Node -> Seq(Block)] /\ chain'[n] = SubSeq(chain[n], 1, h)
        /\ \A m \in Node \ {n} : chain'[m] = chain[m]
    BY <1>1, <2>1, <2>3
  <2>5. \A m \in Node : chain'[m] # <<>>
    BY Zenon, <2>1, <2>3, <2>4
  <2>. QED  BY Zenon, <2>3, <2>4, <2>5 DEF Height
<1>3. /\ last' \in [Node -> Nat] /\ repeats' \subseteq Node /\ repeats \subseteq repeats'
      /\ \A m \in Node : m \notin repeats' => last'[m] = last[m]
  <2>1. last \in [Node -> Nat] /\ repeats \subseteq Node
    BY Zenon, <1>0 DEF TypeOK
  <2>2. /\ LastAfterDetach(n, h) \in Nat
        /\ ~reset => LastAfterDetach(n, h) = last[n]
    <3>1. CHECKPOINT_INTERVAL \in Nat /\ CHECKPOINT_INTERVAL > 0
            /\ REORG_SAFETY_BUFFER_BLOCKS \in Nat /\ h \in Nat
      BY NumberAssumption
    <3>2. h % CHECKPOINT_INTERVAL \in Nat /\ h % CHECKPOINT_INTERVAL <= h
      BY <3>1
    <3>. QED  BY <2>1, <3>1, <3>2 DEF LastAfterDetach
  <2>3. last' \in [Node -> Nat] /\ last'[n] = LastAfterDetach(n, h)
          /\ \A m \in Node \ {n} : last'[m] = last[m]
    <3>1. last' = [last EXCEPT ![n] = LastAfterDetach(n, h)]  BY Zenon, <1>1
    <3>. QED  BY <2>1, <2>2, <3>1
  <2>. HIDE DEF reset
  <2>4. repeats' \subseteq Node /\ repeats \subseteq repeats' /\ (reset => n \in repeats')
    BY Zenon, <1>1, <2>1
  <2>. QED  BY Zenon, <2>2, <2>3, <2>4
<1>4. /\ pool' \in [Node -> SUBSET Vote] /\ \A m \in Node : pool'[m] \subseteq pool[m]
  <2>1. pool \in [Node -> SUBSET Vote]  BY Zenon, <1>0 DEF TypeOK
  <2>2. Unexpired(pool[n], h) \subseteq pool[n]  BY Zenon DEF Unexpired
  <2>3. Unexpired(pool[n], h) \in SUBSET Vote
    <3>1. pool[n] \in SUBSET Vote  BY <2>1
    <3>. QED  BY Zenon, <2>2, <3>1
  <2>4. /\ pool' \in [Node -> SUBSET Vote] /\ pool'[n] = Unexpired(pool[n], h)
        /\ \A m \in Node \ {n} : pool'[m] = pool[m]
    BY <1>1, <2>1, <2>3
  <2>. QED  BY Zenon, <2>2, <2>4
<1>5. /\ cps' \in [Node -> SUBSET Checkpoint]
      /\ \A m \in Node : \A c, d \in cps'[m] : c.height = d.height => c = d
      /\ CpInv'
  <2>1. cps \in [Node -> SUBSET Checkpoint]  BY Zenon, <1>0 DEF TypeOK
  <2>2. cps[n] \in SUBSET Checkpoint  BY <2>1
  <2>3. /\ C \in SUBSET Checkpoint /\ OnePerHeight(C)
        /\ \A c \in C : Backed(c, cast') /\ c.height < Height(n)'
    BY Zenon, <1>0, <1>1, <1>2, <2>2 DEF TypeOK, OnePerHeight, CpInv
  <2>4. cast \subseteq cast'  BY Zenon, <1>1
  <2>. HIDE DEF C
  <2>. QED  BY Zenon, <1>0, <1>1, <1>2, <2>3, <2>4, CpStep
<1>6. KnownInv'
  BY Zenon, <1>0, <1>1, <1>4 DEF KnownInv
<1>7. TypeOK'
  BY Zenon, <1>0, <1>1, <1>2, <1>3, <1>4, <1>5 DEF TypeOK
<1>8. VoterInv'
  <2>1. \A v \in cast : v.voter \in Node  
    <3>1. cast \subseteq Vote  BY Zenon, <1>0 DEF TypeOK
    <3>. QED  BY <3>1 DEF Vote
  <2>. QED  BY Zenon, <1>0, <1>1, <1>3, <2>1 DEF VoterInv
<1>9. NoDoubleVote' /\ FormedInv' /\ RepeatsInv'
  <2>1. cast' = cast /\ formed' = formed /\ Cardinality(repeats') <= MaxRepeats
    BY Zenon, <1>1
  <2>. QED  BY Zenon, <1>0, <1>3, <2>1 DEF NoDoubleVote, FormedInv, RepeatsInv
<1>. QED  BY Zenon, <1>5, <1>6, <1>7, <1>8, <1>9 DEF VInv

LEMMA RestartStep ==
  ASSUME VInv, NEW n \in Node, Restart(n)
  PROVE  VInv'
<1>. DEFINE none == [t \in Thread |-> Idle]
<1>0. /\ TypeOK /\ VoterInv /\ NoDoubleVote /\ KnownInv /\ CpInv /\ FormedInv
  BY Zenon DEF VInv
<1>1. /\ repeats' = repeats \cup {n} /\ Cardinality(repeats') <= MaxRepeats
      /\ last' = [last EXCEPT ![n] = 0] /\ pool' = [pool EXCEPT ![n] = {}]
      /\ thread' = [thread EXCEPT ![n] = none]
      /\ chain' = chain /\ cps' = cps /\ net' = net /\ cast' = cast
      /\ formed' = formed
  BY Zenon DEF Restart
<1>2. /\ last' \in [Node -> Nat] /\ \A m \in Node \ {n} : last'[m] = last[m]
  <2>1. last \in [Node -> Nat]  BY Zenon, <1>0 DEF TypeOK
  <2>2. last' = [last EXCEPT ![n] = 0]  BY Zenon, <1>1
  <2>. QED  BY <2>1, <2>2
<1>3. /\ pool' \in [Node -> SUBSET Vote] /\ \A m \in Node : pool'[m] \subseteq pool[m]
  <2>1. pool \in [Node -> SUBSET Vote]  BY Zenon, <1>0 DEF TypeOK
  <2>2. pool' = [pool EXCEPT ![n] = {}]  BY Zenon, <1>1
  <2>. QED  BY <2>1, <2>2
<1>4. /\ thread' \in [Node -> [Thread -> ThreadState]]
      /\ \A m \in Node, t \in Thread :
            thread'[m][t] = thread[m][t] \/ thread'[m][t] = Idle
  <2>1. thread \in [Node -> [Thread -> ThreadState]]
    BY Zenon, <1>0 DEF TypeOK, ThreadState
  <2>2. thread' = [thread EXCEPT ![n] = none]  BY Zenon, <1>1
  <2>3. none \in [Thread -> ThreadState] /\ \A t \in Thread : none[t] = Idle
    BY Zenon DEF ThreadState
  <2>. HIDE DEF none, ThreadState
  <2>. QED  BY <2>1, <2>2, <2>3
<1>5. TypeOK'
  BY Zenon, <1>0, <1>1, <1>2, <1>3, <1>4 DEF TypeOK, ThreadState
<1>6. VoterInv'
  <2>1. \A v \in cast : v.voter \in Node
    <3>1. cast \subseteq Vote  BY Zenon, <1>0 DEF TypeOK
    <3>. QED  BY <3>1 DEF Vote
  <2>2. \A m \in Node : m \notin repeats' => m \notin repeats /\ last'[m] = last[m]
    BY Zenon, <1>1, <1>2
  <2>3. cast' = cast  BY Zenon, <1>1
  <2>. QED  BY Zenon, <1>0, <2>1, <2>2, <2>3 DEF VoterInv
<1>7. NoDoubleVote' /\ FormedInv' /\ RepeatsInv'
  BY Zenon, <1>0, <1>1 DEF NoDoubleVote, FormedInv, RepeatsInv
<1>8. CpInv'
  BY Zenon, <1>0, <1>1 DEF CpInv, Height
<1>9. KnownInv'
  <2>1. Idle.pc = "idle" /\ "idle" # "pooled"  BY DEF Idle
  <2>2. cast' = cast /\ net' = net  BY Zenon, <1>1
  <2>3. net' \subseteq cast' /\ \A m \in Node : pool'[m] \subseteq cast'
    BY Zenon, <1>0, <1>3, <2>2 DEF KnownInv
  <2>4. ASSUME NEW m \in Node, NEW t \in Thread
        PROVE  /\ thread'[m][t].pc # "idle" => thread'[m][t].vote \in cast'
               /\ thread'[m][t].pc = "pooled" => thread'[m][t].votes \subseteq cast'
    <3>1. CASE thread'[m][t] = thread[m][t]
      BY Zenon, <1>0, <2>2, <3>1 DEF KnownInv
    <3>2. CASE thread'[m][t] = Idle
      BY Zenon, <2>1, <3>2
    <3>. QED  BY Zenon, <1>4, <3>1, <3>2
  <2>. QED  BY Zenon, <2>3, <2>4 DEF KnownInv
<1>. QED  BY Zenon, <1>5, <1>6, <1>7, <1>8, <1>9 DEF VInv

-----------------------------------------------------------------------------
(* Adding a block.                                                         *)

\* The checkpoint that comes with a block is one that a peer has stored.
LEMMA OfferedFacts ==
  ASSUME TypeOK, CpInv, NEW b, NEW h, NEW offered \in Offered(b, h)
  PROVE  /\ offered \in SUBSET Checkpoint /\ OnePerHeight(offered)
         /\ \A c \in offered : Backed(c, cast) /\ c.height = h
<1>1. \A m \in Node : cps[m] \in SUBSET Checkpoint
  <2>1. cps \in [Node -> SUBSET Checkpoint]  BY Zenon DEF TypeOK
  <2>. QED  BY <2>1
<1>2. CASE offered = {}
  BY Zenon, <1>2 DEF OnePerHeight
<1>3. CASE offered # {}
  <2>1. PICK m \in Node : \E c \in cps[m] : c.height = h /\ offered = {c}
    BY Zenon, <1>3 DEF Offered
  <2>2. PICK c \in cps[m] : c.height = h /\ offered = {c}
    BY Zenon, <2>1
  <2>3. c \in Checkpoint /\ Backed(c, cast)
    BY Zenon, <1>1 DEF CpInv
  <2>. QED  BY Zenon, <2>2, <2>3 DEF OnePerHeight
<1>. QED  BY Zenon, <1>2, <1>3

\* The new votes of node n are for heights it has not voted for, and below top.
VotesAbove(n, mine, top) ==
  /\ top \in Nat /\ last[n] <= top
  /\ OnePerHeight(mine)
  /\ \A v \in mine :
        /\ v \in Vote /\ v.voter = n /\ n \in Validator(v.height)
        /\ ~(v.height < last[n]) /\ v.height < Height(n) /\ v.height < top

LEMMA OwnVotesFacts ==
  ASSUME TypeOK, NEW n \in Node, Height(n) <= MaxHeight,
         NEW latest \in Nat, latest >= VOTE_LIFETIME
  PROVE  VotesAbove(n, OwnVotes(n, latest),
                    Larger(VoteFrom(n, latest), RoundUp(Height(n))))
<1>1. /\ VOTE_LIFETIME \in Nat /\ MaxHeight \in Nat
  BY NumberAssumption
<1>2. last[n] \in Nat /\ chain[n] \in Seq(Block) /\ Height(n) \in Nat
  <2>1. last \in [Node -> Nat] /\ chain \in [Node -> Seq(Block)]
    BY Zenon DEF TypeOK
  <2>. QED  BY <2>1 DEF Height
<1>3. VoteFrom(n, latest) \in Nat /\ last[n] <= VoteFrom(n, latest)
  <2>1. latest - VOTE_LIFETIME \in Nat  BY <1>1
  <2>2. RoundUp(latest - VOTE_LIFETIME) \in Nat  BY Zenon, <2>1, RoundUpFacts
  <2>. QED  BY <1>2, <2>2 DEF VoteFrom, Larger
<1>4. RoundUp(Height(n)) \in Nat /\ Height(n) <= RoundUp(Height(n))
  BY Zenon, <1>2, RoundUpFacts
<1>. DEFINE top == Larger(VoteFrom(n, latest), RoundUp(Height(n)))
<1>5. top \in Nat /\ last[n] <= top /\ Height(n) <= top
  BY <1>2, <1>3, <1>4 DEF Larger
<1>. HIDE DEF top
<1>. DEFINE vote(k) == [height |-> k, block |-> chain[n][k + 1], voter |-> n]
<1>6. ASSUME NEW k \in VoteFor(n, latest)
      PROVE  /\ vote(k) \in Vote /\ vote(k).voter = n /\ vote(k).height = k
             /\ n \in Validator(k)
             /\ ~(k < last[n]) /\ k < Height(n) /\ k < top
  <2>1. k \in VoteFrom(n, latest)..(Height(n) - 1) /\ n \in Validator(k)
    BY Zenon DEF VoteFor
  <2>2. /\ ~(k < last[n]) /\ k < Height(n) /\ k < top /\ k \in 0..MaxHeight
        /\ k + 1 \in 1..Height(n)
    BY <1>1, <1>2, <1>3, <1>5, <2>1
  <2>3. chain[n][k + 1] \in Block
    BY <1>2, <2>2 DEF Height
  <2>4. vote(k) \in Vote /\ vote(k).voter = n /\ vote(k).height = k
    BY <2>2, <2>3 DEF Vote
  <2>. QED  BY Zenon, <2>1, <2>2, <2>4
<1>7. OwnVotes(n, latest) = {vote(k) : k \in VoteFor(n, latest)}
  BY Zenon DEF OwnVotes
<1>. HIDE DEF vote
<1>8. OnePerHeight(OwnVotes(n, latest))
  <2>1. \A v \in OwnVotes(n, latest) : v = vote(v.height)
    BY Zenon, <1>6, <1>7
  <2>. QED  BY Zenon, <2>1 DEF OnePerHeight
<1>9. \A v \in OwnVotes(n, latest) :
         /\ v \in Vote /\ v.voter = n /\ n \in Validator(v.height)
         /\ ~(v.height < last[n]) /\ v.height < Height(n) /\ v.height < top
  <2>. SUFFICES ASSUME NEW v \in OwnVotes(n, latest)
                PROVE  /\ v \in Vote /\ v.voter = n /\ n \in Validator(v.height)
                       /\ ~(v.height < last[n]) /\ v.height < Height(n)
                       /\ v.height < top
    OBVIOUS
  <2>1. PICK k \in VoteFor(n, latest) : v = vote(k)
    BY Zenon, <1>7
  <2>. QED  BY Zenon, <1>6, <2>1
<1>. QED  BY Zenon, <1>5, <1>8, <1>9 DEF top, VotesAbove

\* The votes that node n makes with its next block, the height it will vote from
\* after them, and the checkpoints that are made.
Latest(n, target) == Larger(Height(n) + 1, target)

Mine(n, target, enabled) ==
  IF Voting(Height(n), Latest(n, target), enabled)
  THEN OwnVotes(n, Latest(n, target)) ELSE {}

NextLast(n, target, enabled) ==
  IF Voting(Height(n), Latest(n, target), enabled)
  THEN Larger(VoteFrom(n, Latest(n, target)), RoundUp(Height(n)))
  ELSE last[n]

MadeOfMine(n, mine) ==
  Made(cps[n], mine \ pool[n], pool[n] \cup mine, Height(n) + 1)

LEMMA MineFacts ==
  ASSUME TypeOK, NEW n \in Node, Height(n) <= MaxHeight,
         NEW target \in Target, NEW enabled \in BOOLEAN
  PROVE  VotesAbove(n, Mine(n, target, enabled), NextLast(n, target, enabled))
<1>1. last[n] \in Nat /\ Height(n) \in Nat
  <2>1. last \in [Node -> Nat] /\ chain \in [Node -> Seq(Block)]
    BY Zenon DEF TypeOK
  <2>. QED  BY <2>1 DEF Height
<1>2. Latest(n, target) \in Nat
  BY <1>1, NumberAssumption DEF Latest, Larger
<1>3. CASE Voting(Height(n), Latest(n, target), enabled)
  <2>1. Latest(n, target) >= VOTE_LIFETIME
    BY Zenon, <1>3 DEF Voting
  <2>2. Mine(n, target, enabled) = OwnVotes(n, Latest(n, target))
    BY Zenon, <1>3 DEF Mine
  <2>3. NextLast(n, target, enabled)
          = Larger(VoteFrom(n, Latest(n, target)), RoundUp(Height(n)))
    BY Zenon, <1>3 DEF NextLast
  <2>4. VotesAbove(n, OwnVotes(n, Latest(n, target)),
                   Larger(VoteFrom(n, Latest(n, target)), RoundUp(Height(n))))
    BY Zenon, <1>2, <2>1, OwnVotesFacts
  <2>. QED  BY Zenon, <2>2, <2>3, <2>4
<1>4. CASE ~Voting(Height(n), Latest(n, target), enabled)
  <2>1. Mine(n, target, enabled) = {} /\ NextLast(n, target, enabled) = last[n]
    BY Zenon, <1>4 DEF Mine, NextLast
  <2>2. last[n] <= last[n]
    BY <1>1
  <2>3. VotesAbove(n, {}, last[n])
    BY Zenon, <1>1, <2>2 DEF VotesAbove, OnePerHeight
  <2>. QED  BY Zenon, <2>1, <2>3
<1>. QED  BY Zenon, <1>3, <1>4

\* What AddBlock does, without its local definitions.
Adds(n, b, offered, mine, top, D) ==
  /\ Height(n) <= MaxHeight
  /\ chain' = [chain EXCEPT ![n] = Append(@, b)]
  /\ last' = [last EXCEPT ![n] = top]
  /\ pool' = [pool EXCEPT ![n] = Unexpired(@ \cup mine, Height(n) + 1)]
  /\ cps' = [cps EXCEPT ![n] = Update(Update(@, offered), D)]
  /\ cast' = cast \cup mine
  /\ formed' = formed \cup Blocks(D)
  /\ thread' = thread /\ net' = net /\ repeats' = repeats

LEMMA AddBlockFacts ==
  ASSUME NEW n \in Node, NEW b, NEW offered, NEW target, NEW enabled,
         AddBlock(n, b, offered, target, enabled)
  PROVE  Adds(n, b, offered, Mine(n, target, enabled),
              NextLast(n, target, enabled),
              MadeOfMine(n, Mine(n, target, enabled)))
BY Zenon DEF Adds, AddBlock, Mine, NextLast, Latest, MadeOfMine

\* No validator signs twice: its new votes are above all it has signed.
LEMMA NewVotes ==
  ASSUME TypeOK, VoterInv, NoDoubleVote, NEW n \in Node, NEW mine, NEW top,
         VotesAbove(n, mine, top),
         cast' = cast \cup mine, repeats' = repeats,
         last' = [last EXCEPT ![n] = top]
  PROVE  last' \in [Node -> Nat] /\ VoterInv' /\ NoDoubleVote'
<1>0. /\ top \in Nat /\ last[n] <= top /\ OnePerHeight(mine)
      /\ \A v \in mine : /\ v.voter = n /\ n \in Validator(v.height)
                         /\ ~(v.height < last[n]) /\ v.height < top
  BY Zenon DEF VotesAbove
<1>1. /\ last' \in [Node -> Nat] /\ last'[n] = top
      /\ \A m \in Node \ {n} : last'[m] = last[m]
  <2>1. last \in [Node -> Nat]  BY Zenon DEF TypeOK
  <2>. QED  BY <1>0, <2>1
<1>2. \A v \in cast : v.voter \in Node /\ v.height \in Nat
  <2>1. cast \subseteq Vote /\ MaxHeight \in Nat
    BY Zenon, NumberAssumption DEF TypeOK
  <2>. QED  BY <2>1 DEF Vote
<1>3. last[n] \in Nat
  <2>1. last \in [Node -> Nat]  BY Zenon DEF TypeOK
  <2>. QED  BY <2>1
<1>4. VoterInv'
  <2>1. \A v \in cast : v.height < last[n] => v.height < top
    BY <1>0, <1>2, <1>3
  <2>2. ASSUME NEW v \in cast
        PROVE  /\ v.voter \in Validator(v.height)
               /\ v.voter \notin repeats' => v.height < last'[v.voter]
    BY Zenon, <1>1, <1>2, <2>1 DEF VoterInv
  <2>3. ASSUME NEW v \in mine
        PROVE  /\ v.voter \in Validator(v.height)
               /\ v.voter \notin repeats' => v.height < last'[v.voter]
    BY Zenon, <1>0, <1>1
  <2>. QED  BY Zenon, <2>2, <2>3 DEF VoterInv
<1>5. NoDoubleVote'
  <2>1. \A v \in cast : v.voter = n /\ n \notin repeats => v.height < last[n]
    BY Zenon DEF VoterInv
  <2>2. ASSUME NEW v \in cast \cup mine, NEW w \in cast \cup mine,
               v.voter = w.voter, v.height = w.height, v.voter \notin repeats
        PROVE  v.block = w.block
    <3>1. CASE v \in cast /\ w \in cast
      BY Zenon, <2>2, <3>1 DEF NoDoubleVote
    <3>2. CASE v \in mine /\ w \in mine
      BY Zenon, <1>0, <2>2, <3>2 DEF OnePerHeight
    <3>3. CASE v \in cast /\ w \in mine
      BY Zenon, <1>0, <2>1, <2>2, <3>3
    <3>4. CASE v \in mine /\ w \in cast
      BY Zenon, <1>0, <2>1, <2>2, <3>4
    <3>. QED  BY Zenon, <3>1, <3>2, <3>3, <3>4
  <2>. QED  BY Zenon, <2>2 DEF NoDoubleVote
<1>. QED  BY Zenon, <1>1, <1>4, <1>5

\* The chain is one block longer.
LEMMA ChainGrows ==
  ASSUME TypeOK, NEW n \in Node, NEW b \in Block,
         chain' = [chain EXCEPT ![n] = Append(@, b)]
  PROVE  /\ chain' \in [Node -> Seq(Block)] /\ \A m \in Node : chain'[m] # <<>>
         /\ Height(n) \in Nat /\ Height(n)' = Height(n) + 1
         /\ \A m \in Node \ {n} : chain'[m] = chain[m]
<1>1. chain \in [Node -> Seq(Block)] /\ \A m \in Node : chain[m] # <<>>
  BY Zenon DEF TypeOK
<1>2. /\ Append(chain[n], b) \in Seq(Block) /\ Append(chain[n], b) # <<>>
      /\ Len(chain[n]) \in Nat /\ Len(Append(chain[n], b)) = Len(chain[n]) + 1
  BY <1>1
<1>3. /\ chain' \in [Node -> Seq(Block)] /\ chain'[n] = Append(chain[n], b)
      /\ \A m \in Node \ {n} : chain'[m] = chain[m]
  BY <1>1, <1>2
<1>. QED  BY Zenon, <1>1, <1>2, <1>3 DEF Height

LEMMA AddBlockStep ==
  ASSUME VInv, NEW n \in Node, NEW b \in Block, NEW target \in Target,
         NEW enabled \in BOOLEAN, NEW offered \in Offered(b, Height(n)),
         AddBlock(n, b, offered, target, enabled)
  PROVE  VInv'
<1>0. /\ TypeOK /\ VoterInv /\ NoDoubleVote /\ KnownInv /\ CpInv /\ FormedInv
      /\ RepeatsInv
  BY Zenon DEF VInv
<1>. DEFINE mine == Mine(n, target, enabled)
            top == NextLast(n, target, enabled)
            D == MadeOfMine(n, mine)
<1>00. Adds(n, b, offered, mine, top, D)
  BY Zenon, AddBlockFacts
<1>1. /\ Height(n) <= MaxHeight
      /\ chain' = [chain EXCEPT ![n] = Append(@, b)]
      /\ last' = [last EXCEPT ![n] = top]
      /\ pool' = [pool EXCEPT ![n] = Unexpired(@ \cup mine, Height(n) + 1)]
      /\ cps' = [cps EXCEPT ![n] = Update(Update(@, offered), D)]
      /\ cast' = cast \cup mine
      /\ formed' = formed \cup Blocks(D)
      /\ thread' = thread /\ net' = net /\ repeats' = repeats
  <2>. HIDE DEF mine, top, D
  <2>. QED  BY Zenon, <1>00 DEF Adds
<1>2. VotesAbove(n, mine, top)
  BY Zenon, <1>0, <1>1, MineFacts
<1>. HIDE DEF mine, top, D
<1>3. last' \in [Node -> Nat] /\ VoterInv' /\ NoDoubleVote'
  BY Zenon, <1>0, <1>1, <1>2, NewVotes
<1>4. /\ chain' \in [Node -> Seq(Block)] /\ \A m \in Node : chain'[m] # <<>>
      /\ Height(n) \in Nat /\ Height(n)' = Height(n) + 1
      /\ \A m \in Node \ {n} : chain'[m] = chain[m]
  BY Zenon, <1>0, <1>1, ChainGrows
<1>5. /\ cast' \in SUBSET Vote /\ cast \subseteq cast' /\ mine \subseteq cast'
      /\ \A u \in cast' : u.voter \in Validator(u.height)
  <2>1. cast \subseteq Vote  BY Zenon, <1>0 DEF TypeOK
  <2>. QED  BY Zenon, <1>1, <1>2, <1>3, <2>1 DEF VotesAbove, VoterInv
<1>6. /\ pool' \in [Node -> SUBSET Vote] /\ pool[n] \subseteq cast'
      /\ \A m \in Node : pool'[m] \subseteq cast'
  <2>1. pool \in [Node -> SUBSET Vote]  BY Zenon, <1>0 DEF TypeOK
  <2>2. \A m \in Node : pool[m] \subseteq cast'
    BY Zenon, <1>0, <1>5 DEF KnownInv
  <2>3. Unexpired(pool[n] \cup mine, Height(n) + 1) \subseteq cast'
    BY Zenon, <1>5, <2>2 DEF Unexpired
  <2>4. Unexpired(pool[n] \cup mine, Height(n) + 1) \in SUBSET Vote
    BY Zenon, <1>5, <2>3
  <2>5. pool' = [pool EXCEPT ![n] = Unexpired(@ \cup mine, Height(n) + 1)]
    BY Zenon, <1>1
  <2>6. /\ pool' \in [Node -> SUBSET Vote]
        /\ pool'[n] = Unexpired(pool[n] \cup mine, Height(n) + 1)
        /\ \A m \in Node \ {n} : pool'[m] = pool[m]
    BY <2>1, <2>4, <2>5
  <2>. QED  BY Zenon, <2>2, <2>3, <2>6
<1>7. /\ cps[n] \in SUBSET Checkpoint /\ OnePerHeight(cps[n])
      /\ \A c \in cps[n] : Backed(c, cast') /\ c.height < Height(n) + 1
  <2>1. cps \in [Node -> SUBSET Checkpoint]  BY Zenon, <1>0 DEF TypeOK
  <2>2. cps[n] \in SUBSET Checkpoint  BY <2>1
  <2>3. OnePerHeight(cps[n])  BY Zenon, <1>0 DEF TypeOK, OnePerHeight
  <2>4. \A c \in cps[n] : Backed(c, cast) /\ c.height < Height(n)
    BY Zenon, <1>0 DEF CpInv
  <2>5. \A c \in cps[n] : Backed(c, cast')
    BY Zenon, <1>5, <2>4 DEF Backed
  <2>6. \A c \in cps[n] : c.height \in Nat
    BY <2>2, NumberAssumption DEF Checkpoint
  <2>7. \A c \in cps[n] : c.height < Height(n) + 1
    BY <1>4, <2>4, <2>6
  <2>. QED  BY Zenon, <2>2, <2>3, <2>5, <2>7
<1>8. /\ OnePerHeight(D)
      /\ \A d \in D : d.height < Height(n) + 1
      /\ \A d \in D : /\ d \in Checkpoint /\ Backed(d, cast')
                      /\ [height |-> d.height, block |-> d.block] \in HeightAndBlock
                      /\ Signed([height |-> d.height, block |-> d.block], cast')
  <2>. DEFINE V == mine \ pool[n]
              P == pool[n] \cup mine
  <2>1. V \in SUBSET cast' /\ P \in SUBSET cast' /\ OnePerHeight(V)
    BY Zenon, <1>2, <1>5, <1>6 DEF VotesAbove, OnePerHeight
  <2>2. D = Made(cps[n], V, P, Height(n) + 1)
    BY Zenon DEF D, MadeOfMine
  <2>. HIDE DEF V, P
  <2>3. OnePerHeight(D)  BY Zenon, <2>1, <2>2, MadeOne
  <2>4. \A d \in D : d.height < Height(n) + 1
    BY Zenon, <1>7, <2>2, MadeBelow
  <2>. QED  BY Zenon, <1>5, <1>7, <2>1, <2>2, <2>3, <2>4, MadeFacts
<1>9. /\ offered \in SUBSET Checkpoint /\ OnePerHeight(offered)
      /\ \A c \in offered : Backed(c, cast') /\ c.height < Height(n) + 1
  <2>1. /\ offered \in SUBSET Checkpoint /\ OnePerHeight(offered)
        /\ \A c \in offered : Backed(c, cast) /\ c.height = Height(n)
    BY Zenon, <1>0, OfferedFacts
  <2>2. \A c \in offered : Backed(c, cast')
    BY Zenon, <1>5, <2>1 DEF Backed
  <2>3. Height(n) < Height(n) + 1
    BY <1>4
  <2>. QED  BY Zenon, <2>1, <2>2, <2>3
<1>. DEFINE U == Update(cps[n], offered)
            C == Update(U, D)
<1>10. /\ U \in SUBSET Checkpoint /\ OnePerHeight(U)
       /\ \A c \in U : Backed(c, cast') /\ c.height < Height(n) + 1
  <2>1. OnePerHeight(U)  BY Zenon, <1>7, <1>9, UpdateOne
  <2>. QED  BY Zenon, <1>7, <1>9, <2>1 DEF Update
<1>. HIDE DEF U
<1>11. /\ C \in SUBSET Checkpoint /\ OnePerHeight(C)
       /\ \A c \in C : Backed(c, cast') /\ c.height < Height(n)'
  <2>1. OnePerHeight(C)  BY Zenon, <1>8, <1>10, UpdateOne
  <2>2. \A c \in C : c \in Checkpoint /\ Backed(c, cast') /\ c.height < Height(n) + 1
    BY Zenon, <1>8, <1>10 DEF Update
  <2>. QED  BY Zenon, <1>4, <2>1, <2>2
<1>12. cps' = [cps EXCEPT ![n] = C]
  BY Zenon, <1>1 DEF U
<1>. HIDE DEF C
<1>13. /\ cps' \in [Node -> SUBSET Checkpoint]
       /\ \A m \in Node : \A c, d \in cps'[m] : c.height = d.height => c = d
       /\ CpInv'
  BY Zenon, <1>0, <1>4, <1>5, <1>11, <1>12, CpStep
<1>14. formed' \subseteq HeightAndBlock /\ FormedInv'
  <2>1. formed' = formed \cup Blocks(D)  BY Zenon, <1>1
  <2>. QED  BY Zenon, <1>0, <1>5, <1>8, <2>1, FormedStep
<1>15. TypeOK'
  <2>1. thread' = thread /\ net' = net /\ repeats' = repeats  BY Zenon, <1>1
  <2>2. cast' \subseteq Vote  BY Zenon, <1>5
  <2>. QED
    BY Zenon, <1>0, <1>3, <1>4, <1>6, <1>13, <1>14, <2>1, <2>2 DEF TypeOK
<1>16. KnownInv'
  <2>1. thread' = thread /\ net' = net  BY Zenon, <1>1
  <2>. QED  BY Zenon, <1>0, <1>5, <1>6, <2>1 DEF KnownInv
<1>17. RepeatsInv'
  <2>1. repeats' = repeats  BY Zenon, <1>1
  <2>. QED  BY Zenon, <1>0, <2>1 DEF RepeatsInv
<1>. QED  BY Zenon, <1>3, <1>13, <1>14, <1>15, <1>16, <1>17 DEF VInv

-----------------------------------------------------------------------------
(* All steps.                                                              *)

LEMMA VStutter ==
  ASSUME VInv, UNCHANGED vars
  PROVE  VInv'
<1>1. /\ UNCHANGED <<chain, last, cps, cast, formed, repeats>>
      /\ pool' = pool /\ thread' = thread /\ net' = net
  BY Zenon DEF vars
<1>2. TypeOK'
  BY Zenon, <1>1 DEF VInv, TypeOK
<1>3. KnownInv'
  BY Zenon, <1>1 DEF VInv, KnownInv
<1>. QED  BY Zenon, <1>1, <1>2, <1>3, SameVotes

LEMMA VNext ==
  ASSUME VInv, [Next]_vars
  PROVE  VInv'
<1>1. CASE UNCHANGED vars
  BY Zenon, <1>1, VStutter
<1>2. ASSUME NEW n \in Node, NEW b \in Block \ {Genesis}, NEW target \in Target,
             NEW enabled \in BOOLEAN, NEW offered \in Offered(b, Height(n)),
             AddBlock(n, b, offered, target, enabled)
      PROVE  VInv'
  BY Zenon, <1>2, AddBlockStep
<1>3. ASSUME NEW n \in Node, NEW h \in 1..(Height(n) - 1), Detach(n, h)
      PROVE  VInv'
  BY Zenon, <1>3, DetachStep
<1>4. ASSUME NEW n \in Node, Relay(n) \/ Restart(n)
      PROVE  VInv'
  BY Zenon, <1>4, RelayStep, RestartStep
<1>5. ASSUME NEW n \in Node, NEW t \in Thread,
             \/ \E v \in net : VerifyVote(n, t, v)
             \/ AddToPool(n, t)
             \/ HandleCheckpointVote(n, t)
      PROVE  VInv'
  BY Zenon, <1>5, VerifyVoteStep, AddToPoolStep, HandleCheckpointVoteStep
<1>. QED  BY Zenon, <1>1, <1>2, <1>3, <1>4, <1>5 DEF Next

LEMMA VotesInvariant == Spec => []VInv
BY VInit, VNext, PTL DEF Spec

-----------------------------------------------------------------------------
(* Two quorums of a height share a validator that votes once.              *)

LEMMA QuorumsOverlap ==
  ASSUME VInv, NEW h \in 0..MaxHeight,
         NEW S \in SUBSET Validator(h), NEW T \in SUBSET Validator(h),
         Cardinality(S) >= CHECKPOINT_MIN_VOTES,
         Cardinality(T) >= CHECKPOINT_MIN_VOTES
  PROVE  \E m \in S \cap T : m \notin repeats
<1>. SUFFICES ASSUME S \cap T \subseteq repeats
              PROVE  FALSE
  BY Zenon
<1>1. Validator(h) \subseteq Node /\ Cardinality(Validator(h)) <= CHECKPOINT_QUORUM_SIZE
      /\ IsFiniteSet(Node)
  BY Zenon, QuorumAssumption
<1>2. IsFiniteSet(Validator(h)) /\ IsFiniteSet(repeats)
  BY Zenon, <1>1, FS_Subset DEF VInv, TypeOK
<1>3. IsFiniteSet(S) /\ IsFiniteSet(T) /\ IsFiniteSet(S \cap T)
  <2>1. IsFiniteSet(S) /\ IsFiniteSet(T)  BY Zenon, <1>2, FS_Subset
  <2>2. S \cap T \subseteq S  BY Zenon
  <2>. QED  BY Zenon, <2>1, <2>2, FS_Subset
<1>4. /\ IsFiniteSet(S \cup T)
      /\ Cardinality(S \cup T) = Cardinality(S) + Cardinality(T) - Cardinality(S \cap T)
  BY Zenon, <1>3, FS_Union
<1>5. Cardinality(S \cup T) <= Cardinality(Validator(h))
  <2>. S \cup T \subseteq Validator(h)  BY Zenon
  <2>. QED  BY Zenon, <1>2, FS_Subset
<1>6. Cardinality(S \cap T) <= Cardinality(repeats)
  BY Zenon, <1>2, FS_Subset
<1>7. /\ Cardinality(S) \in Nat /\ Cardinality(T) \in Nat
      /\ Cardinality(S \cap T) \in Nat /\ Cardinality(S \cup T) \in Nat
      /\ Cardinality(Validator(h)) \in Nat /\ Cardinality(repeats) \in Nat
  BY Zenon, <1>2, <1>3, <1>4, FS_CardinalityType
<1>8. Cardinality(repeats) <= MaxRepeats
  BY Zenon DEF VInv, RepeatsInv
<1>. QED
  BY <1>1, <1>4, <1>5, <1>6, <1>7, <1>8, NumberAssumption, QuorumAssumption

\* The signers of a block that is agreed on are a quorum's.
LEMMA AgreedSigners ==
  ASSUME VInv, NEW f \in AgreedOn
  PROVE  /\ f.height \in 0..MaxHeight
         /\ Signers(cast, f) \in SUBSET Validator(f.height)
         /\ Cardinality(Signers(cast, f)) >= CHECKPOINT_MIN_VOTES
         /\ \A m \in Signers(cast, f) :
               [height |-> f.height, block |-> f.block, voter |-> m] \in cast
<1>1. f \in HeightAndBlock /\ cast \in SUBSET Vote /\ Signed(f, cast)
  BY Zenon DEF VInv, TypeOK, AgreedOn, Signed
<1>2. f.height \in 0..MaxHeight
  BY <1>1 DEF HeightAndBlock
<1>3. f \in [height : 0..MaxHeight, block : Block] \cup Vote \cup Checkpoint
  BY Zenon, <1>1 DEF HeightAndBlock
<1>4. \A m \in Signers(cast, f) :
         [height |-> f.height, block |-> f.block, voter |-> m] \in cast
  BY Zenon, <1>1, <1>3, SignersFacts
<1>5. ASSUME NEW m \in Signers(cast, f)
      PROVE  m \in Validator(f.height)
  <2>. DEFINE u == [height |-> f.height, block |-> f.block, voter |-> m]
  <2>1. u.height = f.height /\ u.voter = m  OBVIOUS
  <2>2. u \in cast  BY Zenon, <1>4
  <2>. HIDE DEF u
  <2>. QED  BY Zenon, <2>1, <2>2 DEF VInv, VoterInv
<1>. QED  BY Zenon, <1>1, <1>2, <1>4, <1>5 DEF Signed

\* The validators agree on one block of a height.
LEMMA AgreeOnce ==
  ASSUME VInv
  PROVE  Consensus!OneBlock(AgreedOn)
<1>. SUFFICES ASSUME NEW c \in AgreedOn, NEW d \in AgreedOn, c.height = d.height
              PROVE  c.block = d.block
  BY Zenon DEF Consensus!OneBlock
<1>1. /\ c.height \in 0..MaxHeight
      /\ Signers(cast, c) \in SUBSET Validator(c.height)
      /\ Signers(cast, d) \in SUBSET Validator(c.height)
      /\ Cardinality(Signers(cast, c)) >= CHECKPOINT_MIN_VOTES
      /\ Cardinality(Signers(cast, d)) >= CHECKPOINT_MIN_VOTES
  BY Zenon, AgreedSigners
<1>2. PICK m \in Signers(cast, c) \cap Signers(cast, d) : m \notin repeats
  BY Zenon, <1>1, QuorumsOverlap
<1>. DEFINE v == [height |-> c.height, block |-> c.block, voter |-> m]
            w == [height |-> d.height, block |-> d.block, voter |-> m]
<1>3. v \in cast /\ w \in cast
  BY Zenon, <1>2, AgreedSigners
<1>4. /\ v.height = c.height /\ v.block = c.block /\ v.voter = m
      /\ w.height = d.height /\ w.block = d.block /\ w.voter = m
  OBVIOUS
<1>. HIDE DEF v, w
<1>. QED  BY Zenon, <1>2, <1>3, <1>4 DEF VInv, NoDoubleVote

-----------------------------------------------------------------------------
(* No step takes a signature off a checkpoint.                             *)

\* What is in C is in D with at least the same signatures.
Keeps(C, D) ==
  \A c \in C : \A d \in D :
     c.height = d.height /\ c.block = d.block => c.signers \subseteq d.signers

LEMMA SameKeeps ==
  ASSUME NEW C, NEW D, OnePerHeight(C), D \subseteq C
  PROVE  Keeps(C, D)
BY Zenon DEF Keeps, OnePerHeight

LEMMA UpdateKeeps ==
  ASSUME NEW C, NEW D, OnePerHeight(C), Keeps(C, D)
  PROVE  Keeps(C, Update(C, D))
BY Zenon DEF Keeps, Update, OnePerHeight

LEMMA MadeKeeps ==
  ASSUME NEW C, NEW V, NEW P, NEW h
  PROVE  Keeps(C, Made(C, V, P, h))
<1>. SUFFICES ASSUME NEW c \in C, NEW d \in Made(C, V, P, h),
                     c.height = d.height, c.block = d.block
              PROVE  c.signers \subseteq d.signers
  BY Zenon DEF Keeps
<1>1. PICK v \in V :
        d = [height |-> v.height, block |-> v.block,
             signers |-> Signers(P, v) \cup StoredSigners(C, v)]
  BY Zenon DEF Made, Enough
<1>2. /\ d.height = v.height /\ d.block = v.block
      /\ d.signers = Signers(P, v) \cup StoredSigners(C, v)
  BY <1>1
<1>3. c \in Stored(C, v)
  BY Zenon, <1>2 DEF Stored
<1>. QED  BY Zenon, <1>2, <1>3 DEF StoredSigners

\* Only node n's checkpoints change.
LEMMA OneKeeps ==
  ASSUME VInv, NEW n \in Node, NEW D, cps' = [cps EXCEPT ![n] = D],
         Keeps(cps[n], D)
  PROVE  SignaturesStay
<1>1. \A m \in Node : OnePerHeight(cps[m])
  BY Zenon DEF VInv, TypeOK, OnePerHeight
<1>2. \A m \in Node : cps'[m] = IF m = n THEN D ELSE cps[m]
  <2>1. cps \in [Node -> SUBSET Checkpoint]  BY Zenon DEF VInv, TypeOK
  <2>. QED  BY <2>1
<1>3. ASSUME NEW m \in Node
      PROVE  Keeps(cps[m], cps'[m])
  <2>1. CASE m = n
    BY Zenon, <1>2, <2>1
  <2>2. CASE m # n
    BY Zenon, <1>1, <1>2, <2>2, SameKeeps
  <2>. QED  BY Zenon, <2>1, <2>2
<1>. QED  BY Zenon, <1>3 DEF Keeps, SignaturesStay

LEMMA NoneKeeps ==
  ASSUME VInv, cps' = cps
  PROVE  SignaturesStay
BY Zenon DEF VInv, TypeOK, SignaturesStay

LEMMA AddBlockKeeps ==
  ASSUME VInv, NEW n \in Node, NEW b, NEW target, NEW enabled,
         NEW offered \in Offered(b, Height(n)),
         AddBlock(n, b, offered, target, enabled)
  PROVE  SignaturesStay
<1>. DEFINE D == MadeOfMine(n, Mine(n, target, enabled))
            U == Update(cps[n], offered)
<1>1. cps' = [cps EXCEPT ![n] = Update(U, D)]
  BY Zenon, AddBlockFacts DEF Adds
<1>2. Keeps(cps[n], D)
  BY Zenon, MadeKeeps DEF MadeOfMine
<1>3. OnePerHeight(cps[n])
  BY Zenon DEF VInv, TypeOK, OnePerHeight
<1>4. Keeps(cps[n], offered)
  <2>1. \A c \in offered : c.height = Height(n)
    BY Zenon, OfferedFacts DEF VInv
  <2>2. \A c \in cps[n] : c.height < Height(n)
    BY Zenon DEF VInv, CpInv
  <2>3. ~(Height(n) < Height(n))
    <3>1. chain \in [Node -> Seq(Block)]  BY Zenon DEF VInv, TypeOK
    <3>2. Height(n) \in Nat  BY <3>1 DEF Height
    <3>. QED  BY <3>2
  <2>. QED  BY Zenon, <2>1, <2>2, <2>3 DEF Keeps
<1>5. Keeps(cps[n], U)
  BY Zenon, <1>3, <1>4, UpdateKeeps
<1>. HIDE DEF D, U
<1>6. Keeps(cps[n], Update(U, D))
  BY Zenon, <1>2, <1>5 DEF Keeps, Update
<1>. QED  BY Zenon, <1>1, <1>6, OneKeeps

LEMMA StepKeeps ==
  ASSUME VInv, [Next]_vars
  PROVE  SignaturesStay
<1>0. \A n \in Node : OnePerHeight(cps[n])
  BY Zenon DEF VInv, TypeOK, OnePerHeight
<1>1. CASE UNCHANGED vars
  BY Zenon, <1>1, NoneKeeps DEF vars
<1>2. ASSUME NEW n \in Node, NEW b \in Block \ {Genesis}, NEW target \in Target,
             NEW enabled \in BOOLEAN, NEW offered \in Offered(b, Height(n)),
             AddBlock(n, b, offered, target, enabled)
      PROVE  SignaturesStay
  BY Zenon, <1>2, AddBlockKeeps
<1>3. ASSUME NEW n \in Node, NEW h \in 1..(Height(n) - 1), Detach(n, h)
      PROVE  SignaturesStay
  <2>1. cps' = [cps EXCEPT ![n] = {c \in cps[n] : c.height < h}]
    BY Zenon, <1>3 DEF Detach
  <2>2. Keeps(cps[n], {c \in cps[n] : c.height < h})
    <3>1. {c \in cps[n] : c.height < h} \subseteq cps[n]  BY Zenon
    <3>. QED  BY Zenon, <1>0, <3>1, SameKeeps
  <2>. QED  BY Zenon, <2>1, <2>2, OneKeeps
<1>4. ASSUME NEW n \in Node, NEW t \in Thread, HandleCheckpointVote(n, t)
      PROVE  SignaturesStay
  <2>. DEFINE D == Made(cps[n], {thread[n][t].vote}, thread[n][t].votes, Height(n))
  <2>1. cps' = [cps EXCEPT ![n] = Update(cps[n], D)]
    BY Zenon, <1>4 DEF HandleCheckpointVote
  <2>2. Keeps(cps[n], D)
    BY Zenon, MadeKeeps
  <2>. HIDE DEF D
  <2>3. Keeps(cps[n], Update(cps[n], D))
    BY Zenon, <1>0, <2>2, UpdateKeeps
  <2>. QED  BY Zenon, <2>1, <2>3, OneKeeps
<1>5. ASSUME NEW n \in Node,
             \/ Relay(n) \/ Restart(n)
             \/ \E t \in Thread : \/ \E v \in net : VerifyVote(n, t, v)
                                  \/ AddToPool(n, t)
      PROVE  SignaturesStay
  <2>1. cps' = cps
    BY Zenon, <1>5 DEF Relay, Restart, VerifyVote, AddToPool
  <2>. QED  BY Zenon, <2>1, NoneKeeps
<1>. QED  BY Zenon, <1>1, <1>2, <1>3, <1>4, <1>5 DEF Next

-----------------------------------------------------------------------------
(* Every step is one of CheckpointConsensus.                               *)

\* What every state has of CheckpointConsensus.
Agreed ==
  /\ cast \subseteq Vote
  /\ Consensus!OneBlock(AgreedOn)
  /\ \A n \in Node : Blocks(cps[n]) \subseteq AgreedOn

LEMMA StoredAgreed ==
  ASSUME VInv, NEW n \in Node, NEW c \in cps[n]
  PROVE  [height |-> c.height, block |-> c.block] \in AgreedOn
<1>1. c \in Checkpoint /\ cast \in SUBSET Vote /\ Backed(c, cast)
  <2>1. cps \in [Node -> SUBSET Checkpoint]  BY Zenon DEF VInv, TypeOK
  <2>2. c \in Checkpoint  BY <2>1
  <2>. QED  BY Zenon, <2>2 DEF VInv, TypeOK, CpInv
<1>. DEFINE f == [height |-> c.height, block |-> c.block]
<1>2. /\ f \in HeightAndBlock /\ f.height = c.height /\ f.block = c.block
      /\ c.signers \subseteq Node
  BY <1>1 DEF Checkpoint, HeightAndBlock
<1>. HIDE DEF f
<1>3. c.signers \subseteq Signers(cast, f) /\ IsFiniteSet(Signers(cast, f))
  <2>1. f \in [height : 0..MaxHeight, block : Block] \cup Vote \cup Checkpoint
    BY Zenon, <1>2 DEF HeightAndBlock
  <2>. QED  BY Zenon, <1>1, <1>2, <2>1, SignersFacts DEF Backed
<1>4. Cardinality(Signers(cast, f)) >= CHECKPOINT_MIN_VOTES
  BY Zenon, <1>1, <1>3, Larger2 DEF Backed
<1>. QED  BY Zenon, <1>2, <1>4 DEF AgreedOn, f

LEMMA AgreedInvariant == Spec => []Agreed
<1>1. ASSUME VInv PROVE Agreed
  <2>1. Consensus!OneBlock(AgreedOn)  BY Zenon, <1>1, AgreeOnce
  <2>2. \A n \in Node : Blocks(cps[n]) \subseteq AgreedOn
    BY Zenon, <1>1, StoredAgreed DEF Blocks
  <2>. QED  BY Zenon, <1>1, <2>1, <2>2 DEF Agreed, VInv, TypeOK
<1>2. VInv => Agreed  BY <1>1
<1>. QED  BY <1>2, VotesInvariant, PTL

\* A signature more takes no agreement back.
LEMMA AgreedGrows ==
  ASSUME Agreed, Agreed', cast \subseteq cast'
  PROVE  AgreedOn \subseteq AgreedOn'
<1>1. cast \in SUBSET Vote /\ cast' \in SUBSET Vote  BY Zenon DEF Agreed
<1>2. \A f \in AgreedOn : f \in HeightAndBlock /\ Signed(f, cast)
  BY Zenon DEF AgreedOn, Signed
<1>3. \A f \in AgreedOn : f \in HeightAndBlock /\ Signed(f, cast')
  BY Zenon, <1>1, <1>2, SignedGrows
<1>. QED  BY Zenon, <1>3 DEF AgreedOn, Signed, Signers

\* The blocks of the checkpoints in C and D are in S, which has one of a height:
\* putting the ones of D into the database replaces none of C by another block.
LEMMA UpdateGrows ==
  ASSUME NEW C, NEW D, NEW S, Consensus!OneBlock(S),
         Blocks(C) \subseteq S, Blocks(D) \subseteq S
  PROVE  /\ Blocks(C) \subseteq Blocks(Update(C, D))
         /\ Blocks(D) \subseteq Blocks(Update(C, D))
<1>. DEFINE At(c) == [height |-> c.height, block |-> c.block]
<1>1. \A c : At(c).height = c.height /\ At(c).block = c.block  OBVIOUS
<1>2. \A T : Blocks(T) = {At(c) : c \in T}  BY Zenon DEF Blocks
<1>3. D \subseteq Update(C, D)  BY Zenon DEF Update
<1>4. ASSUME NEW c \in C PROVE At(c) \in Blocks(Update(C, D))
  <2>1. CASE \A d \in D : d.height # c.height
    BY Zenon, <1>2, <2>1 DEF Update
  <2>2. ASSUME NEW d \in D, d.height = c.height
        PROVE  At(c) \in Blocks(Update(C, D))
    <3>1. At(c) \in S /\ At(d) \in S  BY Zenon, <1>2
    <3>2. At(c).block = At(d).block
      BY Zenon, <1>1, <2>2, <3>1 DEF Consensus!OneBlock
    <3>3. At(c) = At(d)  BY Zenon, <1>1, <2>2, <3>2
    <3>. QED  BY Zenon, <1>2, <1>3, <3>3
  <2>. QED  BY Zenon, <2>1, <2>2
<1>. QED  BY Zenon, <1>2, <1>3, <1>4

LEMMA OneStores ==
  ASSUME NEW n \in Node, \A m \in Node \ {n} : cps'[m] = cps[m]
  PROVE  /\ StoredBlocks' = [StoredBlocks EXCEPT ![n] = StoredBlocks'[n]]
         /\ StoredBlocks[n] = Blocks(cps[n]) /\ StoredBlocks'[n] = Blocks(cps'[n])
<1>1. \A m \in Node : /\ StoredBlocks[m] = Blocks(cps[m])
                       /\ StoredBlocks'[m] = Blocks(cps'[m])
  BY Zenon DEF StoredBlocks, Blocks
<1>2. \A m \in Node \ {n} : StoredBlocks'[m] = StoredBlocks[m]
  BY Zenon, <1>1
<1>3. PICK f, g : f = StoredBlocks /\ g = StoredBlocks'  BY Zenon
<1>4. /\ f = [m \in Node |-> f[m]] /\ g = [m \in Node |-> g[m]]
      /\ \A m \in Node \ {n} : g[m] = f[m]
  <2>1. f = [m \in Node |-> f[m]]  BY Zenon, <1>3 DEF StoredBlocks
  <2>2. g = [m \in Node |-> g[m]]  BY Zenon, <1>3 DEF StoredBlocks, Blocks
  <2>. QED  BY Zenon, <1>2, <1>3, <2>1, <2>2
<1>5. g = [f EXCEPT ![n] = g[n]]  BY <1>4
<1>. QED  BY Zenon, <1>1, <1>3, <1>5

\* Node n stores checkpoints, and perhaps signs.
LEMMA Learns ==
  ASSUME Agreed, Agreed', NEW n \in Node, NEW C,
         cps \in [Node -> SUBSET Checkpoint], cps' = [cps EXCEPT ![n] = C],
         Blocks(cps[n]) \subseteq Blocks(C), cast \subseteq cast'
  PROVE  Consensus!Next
<1>1. cps'[n] = C /\ \A m \in Node \ {n} : cps'[m] = cps[m]  OBVIOUS
<1>2. /\ StoredBlocks' = [StoredBlocks EXCEPT ![n] = StoredBlocks'[n]]
      /\ StoredBlocks[n] = Blocks(cps[n]) /\ StoredBlocks'[n] = Blocks(cps'[n])
  BY Zenon, <1>1, OneStores
<1>3. AgreedOn \subseteq AgreedOn'  BY Zenon, AgreedGrows
<1>4. Consensus!OneBlock(AgreedOn')  BY Zenon DEF Agreed, Consensus!OneBlock
<1>5. Blocks(cps'[n]) \subseteq AgreedOn'  BY Zenon DEF Agreed, Blocks
<1>6. Consensus!Learn(n)
  BY Zenon, <1>1, <1>2, <1>3, <1>4, <1>5 DEF Consensus!Learn
<1>. QED  BY Zenon, <1>6 DEF Consensus!Next

LEMMA AddBlockLearns ==
  ASSUME VInv, Agreed, Agreed', NEW n \in Node, NEW b, NEW target, NEW enabled,
         NEW offered \in Offered(b, Height(n)),
         AddBlock(n, b, offered, target, enabled)
  PROVE  Consensus!Next
<1>. DEFINE D == MadeOfMine(n, Mine(n, target, enabled))
            U == Update(cps[n], offered)
<1>1. /\ cps' = [cps EXCEPT ![n] = Update(U, D)] /\ cast \subseteq cast'
  <2>. DEFINE mine == Mine(n, target, enabled)
              top == NextLast(n, target, enabled)
  <2>1. Adds(n, b, offered, mine, top, D)  BY Zenon, AddBlockFacts
  <2>. HIDE DEF mine, top, D
  <2>. QED  BY Zenon, <2>1 DEF Adds
<1>2. cps \in [Node -> SUBSET Checkpoint]  BY Zenon DEF VInv, TypeOK
<1>3. Blocks(offered) \subseteq AgreedOn
  <2>1. \A c \in offered : \E m \in Node : c \in cps[m]  BY Zenon DEF Offered
  <2>. QED  BY Zenon, <2>1 DEF Agreed, Blocks
<1>4. /\ Consensus!OneBlock(AgreedOn) /\ Blocks(cps[n]) \subseteq AgreedOn
  BY Zenon DEF Agreed
<1>5. /\ Blocks(cps[n]) \subseteq Blocks(U) /\ Blocks(U) \subseteq AgreedOn
  <2>1. Blocks(cps[n]) \subseteq Blocks(U)  BY Zenon, <1>3, <1>4, UpdateGrows
  <2>2. \A c \in U : c \in cps[n] \/ c \in offered  BY Zenon DEF Update
  <2>. QED  BY Zenon, <1>3, <1>4, <2>1, <2>2 DEF Blocks
<1>. HIDE DEF D, U
<1>6. Blocks(D) \subseteq AgreedOn'
  <2>1. cps'[n] = Update(U, D)  BY <1>1, <1>2
  <2>2. D \subseteq cps'[n]  BY Zenon, <2>1 DEF Update
  <2>. QED  BY Zenon, <2>2 DEF Agreed, Blocks
<1>7. Blocks(U) \subseteq AgreedOn' /\ Consensus!OneBlock(AgreedOn')
  BY Zenon, <1>1, <1>5, AgreedGrows DEF Agreed, Consensus!OneBlock
<1>8. Blocks(U) \subseteq Blocks(Update(U, D))  BY Zenon, <1>6, <1>7, UpdateGrows
<1>. QED  BY Zenon, <1>1, <1>2, <1>5, <1>8, Learns

LEMMA HandleCheckpointVoteLearns ==
  ASSUME VInv, Agreed, Agreed', NEW n \in Node, NEW t \in Thread,
         HandleCheckpointVote(n, t)
  PROVE  Consensus!Next
<1>. DEFINE D == Made(cps[n], {thread[n][t].vote}, thread[n][t].votes, Height(n))
<1>1. cps' = [cps EXCEPT ![n] = Update(cps[n], D)] /\ cast' = cast
  BY Zenon DEF HandleCheckpointVote
<1>2. cps \in [Node -> SUBSET Checkpoint]  BY Zenon DEF VInv, TypeOK
<1>. HIDE DEF D
<1>3. cast \subseteq cast'  BY Zenon, <1>1
<1>4. Blocks(D) \subseteq AgreedOn'
  <2>1. cps'[n] = Update(cps[n], D)  BY <1>1, <1>2
  <2>2. D \subseteq cps'[n]  BY Zenon, <2>1 DEF Update
  <2>. QED  BY Zenon, <2>2 DEF Agreed, Blocks
<1>5. Blocks(cps[n]) \subseteq AgreedOn' /\ Consensus!OneBlock(AgreedOn')
  BY Zenon, <1>3, AgreedGrows DEF Agreed, Consensus!OneBlock
<1>6. Blocks(cps[n]) \subseteq Blocks(Update(cps[n], D))
  BY Zenon, <1>4, <1>5, UpdateGrows
<1>. QED  BY Zenon, <1>1, <1>2, <1>3, <1>6, Learns

LEMMA DetachDrops ==
  ASSUME VInv, NEW n \in Node, NEW h \in 1..(Height(n) - 1), Detach(n, h)
  PROVE  Consensus!Next
<1>. DEFINE C == {c \in cps[n] : c.height < h}
<1>1. cps' = [cps EXCEPT ![n] = C] /\ cast' = cast  BY Zenon DEF Detach
<1>2. cps \in [Node -> SUBSET Checkpoint]  BY Zenon DEF VInv, TypeOK
<1>3. \A c \in cps[n] : c.height \in Nat
  <2>1. MaxHeight \in Nat  BY NumberAssumption
  <2>. QED  BY <1>2, <2>1 DEF Checkpoint
<1>4. h \in Nat
  <2>1. chain \in [Node -> Seq(Block)]  BY Zenon DEF VInv, TypeOK
  <2>2. Height(n) \in Nat  BY <2>1 DEF Height
  <2>. QED  BY <2>2
<1>5. C \subseteq cps[n] /\ \A c \in C, d \in cps[n] \ C : c.height < d.height
  <2>1. \A c \in C, d \in cps[n] \ C :
          /\ c.height < h /\ ~(d.height < h) /\ c.height \in Nat /\ d.height \in Nat
    BY Zenon, <1>3
  <2>2. C \subseteq cps[n]  BY Zenon
  <2>. HIDE DEF C
  <2>3. \A c \in C, d \in cps[n] \ C : c.height < d.height  BY <1>4, <2>1
  <2>. QED  BY Zenon, <2>2, <2>3
<1>. HIDE DEF C
<1>6. cps'[n] = C /\ \A m \in Node \ {n} : cps'[m] = cps[m]  BY <1>1, <1>2
<1>7. /\ StoredBlocks' = [StoredBlocks EXCEPT ![n] = StoredBlocks'[n]]
      /\ StoredBlocks[n] = Blocks(cps[n]) /\ StoredBlocks'[n] = Blocks(C)
  BY Zenon, <1>6, OneStores
<1>8. /\ Blocks(C) \subseteq Blocks(cps[n])
      /\ \A c \in Blocks(C), d \in Blocks(cps[n]) \ Blocks(C) : c.height < d.height
  <2>. DEFINE At(c) == [height |-> c.height, block |-> c.block]
  <2>1. \A c : At(c).height = c.height  OBVIOUS
  <2>2. \A T : Blocks(T) = {At(c) : c \in T}  BY Zenon DEF Blocks
  <2>. HIDE DEF At
  <2>3. Blocks(C) \subseteq Blocks(cps[n])  BY Zenon, <1>5, <2>2
  <2>4. ASSUME NEW c \in Blocks(C), NEW d \in Blocks(cps[n]) \ Blocks(C)
        PROVE  c.height < d.height
    <3>1. PICK x \in C : c = At(x)  BY Zenon, <2>2
    <3>2. PICK y \in cps[n] : d = At(y)  BY Zenon, <2>2
    <3>3. y \notin C  BY Zenon, <2>2, <3>2
    <3>4. x.height < y.height  BY Zenon, <1>5, <3>3
    <3>5. c.height = x.height /\ d.height = y.height  BY <2>1, <3>1, <3>2
    <3>. QED  BY <3>4, <3>5
  <2>. QED  BY Zenon, <2>3, <2>4
<1>9. AgreedOn' = AgreedOn  BY Zenon, <1>1 DEF AgreedOn, Signers
<1>10. Consensus!Drop(n)  BY Zenon, <1>7, <1>8, <1>9 DEF Consensus!Drop
<1>. QED  BY Zenon, <1>10 DEF Consensus!Next

LEMMA ConsensusStep ==
  ASSUME VInv, Agreed, Agreed', [Next]_vars
  PROVE  [Consensus!Next]_(Consensus!vars)
<1>1. ASSUME cps' = cps, cast' = cast PROVE UNCHANGED Consensus!vars
  <2>1. AgreedOn' = AgreedOn  BY Zenon, <1>1 DEF AgreedOn, Signers
  <2>2. StoredBlocks' = StoredBlocks  BY Zenon, <1>1 DEF StoredBlocks, Blocks
  <2>. QED  BY Zenon, <2>1, <2>2 DEF Consensus!vars
<1>2. ASSUME NEW n \in Node, NEW b \in Block \ {Genesis}, NEW target \in Target,
             NEW enabled \in BOOLEAN, NEW offered \in Offered(b, Height(n)),
             AddBlock(n, b, offered, target, enabled)
      PROVE  Consensus!Next
  BY Zenon, <1>2, AddBlockLearns
<1>3. ASSUME NEW n \in Node, NEW h \in 1..(Height(n) - 1), Detach(n, h)
      PROVE  Consensus!Next
  BY Zenon, <1>3, DetachDrops
<1>4. ASSUME NEW n \in Node, NEW t \in Thread, HandleCheckpointVote(n, t)
      PROVE  Consensus!Next
  BY Zenon, <1>4, HandleCheckpointVoteLearns
<1>5. ASSUME NEW n \in Node,
             \/ Relay(n) \/ Restart(n)
             \/ \E t \in Thread : \/ \E v \in net : VerifyVote(n, t, v)
                                  \/ AddToPool(n, t)
      PROVE  UNCHANGED Consensus!vars
  <2>1. cps' = cps /\ cast' = cast
    BY Zenon, <1>5 DEF Relay, Restart, VerifyVote, AddToPool
  <2>. QED  BY Zenon, <1>1, <2>1
<1>6. CASE UNCHANGED vars
  <2>1. cps' = cps /\ cast' = cast  BY Zenon, <1>6 DEF vars
  <2>. QED  BY Zenon, <1>1, <2>1
<1>. QED  BY Zenon, <1>2, <1>3, <1>4, <1>5, <1>6 DEF Next

-----------------------------------------------------------------------------
(* The theorems.                                                           *)

\* For any number of nodes and message threads, whatever order blocks and votes
\* come in, everything keeps its type and update_checkpoint never leaves two
\* checkpoints at a height.
THEOREM VotesTyped == Spec => []TypeOK
<1>1. VInv => TypeOK  BY Zenon DEF VInv
<1>. QED  BY <1>1, VotesInvariant, PTL

\* m_last_checkpointed_height keeps a validator from signing two blocks of a
\* height through any reorganisation within the safety buffer.
THEOREM ValidatorsVoteOnce == Spec => []NoDoubleVote
<1>1. VInv => NoDoubleVote  BY Zenon DEF VInv
<1>. QED  BY <1>1, VotesInvariant, PTL

\* No race between the threads that handle votes, nor a checkpoint taken from a
\* peer, puts one into the database that lacks signatures of its quorum.
THEOREM CheckpointsBacked == Spec => []QuorumBacked
<1>1. VInv => QuorumBacked  BY Zenon DEF VInv, CpInv, Backed, QuorumBacked
<1>. QED  BY <1>1, VotesInvariant, PTL

\* Whatever quorums there are and whatever is lost, delayed or reordered, no two
\* blocks of a height become checkpoints of handle_checkpoint_vote while at most
\* MaxRepeats validators vote again.
THEOREM CheckpointsAgree == Spec => []CheckpointAgreement
<1>1. ASSUME VInv PROVE CheckpointAgreement
  <2>1. formed \subseteq AgreedOn
    BY Zenon, <1>1 DEF VInv, TypeOK, FormedInv, AgreedOn, Signed
  <2>. QED  BY Zenon, <1>1, <2>1, AgreeOnce DEF Consensus!OneBlock, CheckpointAgreement
<1>2. VInv => CheckpointAgreement  BY <1>1
<1>. QED  BY <1>2, VotesInvariant, PTL

\* A checkpoint gains signatures and loses none, in whatever order the threads
\* that handle_checkpoint_vote runs on, and the block hooks, update it.
THEOREM SignaturesNeverLost == Spec => SignaturesKept
<1>1. VInv /\ [Next]_vars => [SignaturesStay]_vars
  BY Zenon, StepKeeps
<1>. QED  BY <1>1, VotesInvariant, PTL DEF Spec, SignaturesKept

\* Whatever votes nodes have collected, in whichever of their threads: the
\* signatures of the validators decide on one block of a height, every checkpoint
\* that handle_checkpoint_vote or a peer brings is for that block, and only
\* blockchain_detached takes one away again.
THEOREM CheckpointsStayAgreed == Spec => CheckpointsAreFinal
<1>1. Init => Consensus!Init
  <2>. SUFFICES ASSUME Init PROVE Consensus!Init  OBVIOUS
  <2>1. cast = {} /\ cps = [n \in Node |-> {}]  BY Zenon DEF Init
  <2>2. AgreedOn = {}
    <3>1. \A f : Signers({}, f) = {}  BY Zenon DEF Signers
    <3>2. Cardinality({}) = 0  BY Zenon, FS_EmptySet
    <3>3. ~(Cardinality({}) >= CHECKPOINT_MIN_VOTES)  BY <3>2, NumberAssumption
    <3>. QED  BY Zenon, <2>1, <3>1, <3>3 DEF AgreedOn
  <2>3. StoredBlocks = [n \in Node |-> {}]
    <3>1. \A n \in Node : cps[n] = {}  BY Zenon, <2>1
    <3>2. Blocks({}) = {}  BY Zenon DEF Blocks
    <3>. QED  BY Zenon, <3>1, <3>2 DEF StoredBlocks
  <2>. QED  BY Zenon, <2>2, <2>3 DEF Consensus!Init
<1>2. VInv /\ Agreed /\ Agreed' /\ [Next]_vars => [Consensus!Next]_(Consensus!vars)
  BY ConsensusStep
<1>. QED
  BY <1>1, <1>2, VotesInvariant, AgreedInvariant, PTL
  DEF Spec, CheckpointsAreFinal, Consensus!Spec
=============================================================================
