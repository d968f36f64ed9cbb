------------------------ MODULE CheckpointConsensus -------------------------
(***************************************************************************)
(* What the voting for checkpoints promises, without votes, pools and      *)
(* threads: the validators agree on at most one block of a height, and for *)
(* good; what a node stores is agreed on; it gives up what it has stored   *)
(* only from the top, as its chain is cut back, and never for another      *)
(* block of the same height.                                               *)
(***************************************************************************)
EXTENDS Integers

CONSTANT Node

VARIABLES
    agreed,    \* the heights and blocks that the validators agree on
    stored     \* those that a node has checkpoints for

vars == <<agreed, stored>>

OneBlock(S) == \A c, d \in S : c.height = d.height => c.block = d.block

Init == agreed = {} /\ stored = [n \in Node |-> {}]

\* A node may complete an agreement and store it in one step, with its own
\* vote.
Learn(n) ==
    /\ agreed \subseteq agreed'
    /\ OneBlock(agreed')
    /\ stored[n] \subseteq stored'[n]
    /\ stored'[n] \subseteq agreed'
    /\ stored' = [stored EXCEPT ![n] = stored'[n]]

Drop(n) ==
    /\ UNCHANGED agreed
    /\ stored'[n] \subseteq stored[n]
    /\ \A c \in stored'[n], d \in stored[n] \ stored'[n] : c.height < d.height
    /\ stored' = [stored EXCEPT ![n] = stored'[n]]

Next == \E n \in Node : Learn(n) \/ Drop(n)

Spec == Init /\ [][Next]_vars
=============================================================================
