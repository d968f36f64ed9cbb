---------------------------- MODULE MCForkChoice ----------------------------
(* Instances of ForkChoice for TLC.  A checkpoint is possible at every       *)
(* height, and every third one is kept persistently.                         *)
EXTENDS ForkRefinement, TLC

CONSTANTS g, a1, a2, a3, a4, b1, b2, b3, c2

\*   g - a1 - a2 - a3 - a4
\*    \    \
\*     \     c2
\*       b1 - b2 - b3
\* At a4 the checkpoints of three blocks below it may be stored, one of them to
\* be culled.
MCBlock == {g, a1, a2, a3, a4, b1, b2, b3, c2}

MCParent ==
    g :> g @@ a1 :> g @@ a2 :> a1 @@ a3 :> a2 @@ a4 :> a3 @@ b1 :> g @@ b2 :> b1
      @@ b3 :> b2 @@ c2 :> a1

MCHeight ==
    g :> 3 @@ a1 :> 4 @@ a2 :> 5 @@ a3 :> 6 @@ a4 :> 7 @@ b1 :> 4 @@ b2 :> 5 @@ b3 :> 6
      @@ c2 :> 5

\* The blocks a2 and a3 together weigh less than c2.
MCRound ==
    g :> 0 @@ a1 :> 0 @@ a2 :> 2 @@ a3 :> 3 @@ a4 :> 0 @@ b1 :> 1 @@ b2 :> 0 @@ b3 :> 0
      @@ c2 :> 0

\* An operator's command and a restart are too rare to be combined.
OneIntervention == pops + restarts <= 1
=============================================================================
