----------------------------- MODULE MainChain ------------------------------
(***************************************************************************)
(* What the fork choice promises of the main chain to whoever looks at it  *)
(* between two handlers, without alternative blocks, checkpoints or the    *)
(* steps of a switch: the chain grows by a block, or gives way to another  *)
(* one as a whole, or is kept; a heavier one is not given up while only    *)
(* weight counts; and what is settled stays until the operator pops it or  *)
(* the daemon forgets it in a restart.                                     *)
(***************************************************************************)
EXTENDS Integers

CONSTANTS
    Block,
    Genesis,
    Paths,      \* the blocks from Genesis to a block
    Weights     \* the weight of these blocks

VARIABLES
    tip,        \* the last block of the main chain
    settled,    \* blocks that no other chain replaces any more
    byWeight,   \* so far only weight has decided
    commands    \* how often the operator has popped blocks or restarted

vars == <<tip, settled, byWeight, commands>>

Init == tip = Genesis /\ settled = {} /\ byWeight = TRUE /\ commands = 0

\* No command: what is settled stays.
Settle ==
    /\ settled \subseteq settled'
    /\ settled' \subseteq Paths[tip']
    /\ UNCHANGED commands

Interfere == byWeight' \in {byWeight, FALSE}

Keep ==
    /\ tip' = tip
    /\ Settle
    /\ Interfere

Extend(b) ==
    /\ b \notin Paths[tip]
    /\ Paths[b] = Paths[tip] \cup {b}
    /\ tip' = b
    /\ Settle
    /\ Interfere

Replace(b) ==
    /\ b \notin Paths[tip]
    /\ byWeight => Weights[b] > Weights[tip]
    /\ tip' = b
    /\ Settle
    /\ UNCHANGED byWeight

\* A chain that should be taken up again does not connect any more.
Lose(b) ==
    /\ b \in Paths[tip]
    /\ tip' = b
    /\ Settle
    /\ byWeight' = FALSE

Pop(b) ==
    /\ b \in Paths[tip]
    /\ tip' = b
    /\ settled' \subseteq Paths[tip']
    /\ byWeight' = FALSE
    /\ commands' = commands + 1

Restart ==
    /\ settled' \subseteq Paths[tip]
    /\ commands' = commands + 1
    /\ UNCHANGED <<tip, byWeight>>

Next ==
    \/ Keep
    \/ \E b \in Block : Extend(b) \/ Replace(b) \/ Lose(b) \/ Pop(b)
    \/ Restart

Spec == Init /\ [][Next]_vars
=============================================================================
