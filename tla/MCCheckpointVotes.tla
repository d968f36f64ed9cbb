------------------------- MODULE MCCheckpointVotes -------------------------
(* An instance of CheckpointVotes for TLC with a checkpoint at every height. *)
(* A thread that handles messages races with the one that adds blocks.       *)
EXTENDS CheckpointRefinement, Functions, TLC

CONSTANTS t1, n1, n2, n3, n4, g, p, x2, x3, y2, y3

MCNode == {n1, n2, n3, n4}

\*   g - p - x2 - x3
\*        \
\*          y2 - y3
MCBlock == {g, p, x2, x3, y2, y3}

MCParent ==
    g :> g @@ p :> g @@ x2 :> p @@ x3 :> x2 @@ y2 :> p @@ y3 :> y2

MCValidator(h) == MCNode

\* The nodes other than n1 do nothing but vote, which depends on no other node:
\* they may do so one after the other, before n1 begins, relay their votes, and
\* end on the same chain.  A vote that does not arrive is as good as none.
Done(n) ==
    chain[n] = <<g, p, x2, x3>> /\ last[n] = 3 /\ pool[n] # {} /\ pool[n] \subseteq net
OneByOne(n) ==
    /\ \A m \in Node \ {n, n1} : Done(m) \/ (n # n1 /\ chain[m] = <<g>>)
    /\ n # n1 => chain[n1] = <<g>>

\* Node n1 is not cut back below p, where the chains part.
KeepsFork(n) == n = n1 /\ p \in Range(chain[n]) => p \in Range(chain'[n])

\* Only node n1 collects votes.  As a vote may arrive at any time, it makes every
\* checkpoint that any node could make.
Collects(n) == n = n1 /\ OneByOne(n)

Moved(n) == chain'[n] # chain[n] \/ last'[n] # last[n] \/ thread'[n] # thread[n]

\* The disjuncts of Next, each with the restrictions that concern it.
CollectorNext ==
    \E n \in Node :
        \/ /\ OneByOne(n)
           /\ \E b \in Block \ {Genesis}, target \in Target, enabled \in BOOLEAN :
                 \E offered \in Offered(b, Height(n)) :
                    AddBlock(n, b, offered, target, enabled)
        \/ OneByOne(n) /\ \E h \in 1..(Height(n) - 1) : Detach(n, h) /\ KeepsFork(n)
        \/ Relay(n)
        \/ \E t \in Thread : \/ Collects(n) /\ \E v \in net : VerifyVote(n, t, v)
                             \/ Collects(n) /\ AddToPool(n, t)
                             \/ Collects(n) /\ HandleCheckpointVote(n, t)
        \/ Restart(n) /\ (Moved(n) => OneByOne(n))

CollectorSpec == Init /\ [][CollectorNext]_vars

Voters == Permutations({n2, n3, n4})
=============================================================================
