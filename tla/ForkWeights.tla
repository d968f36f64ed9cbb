---------------------------- MODULE ForkWeights ----------------------------
(***************************************************************************)
(* While nothing but weight decides, the main chain is the heaviest that   *)
(* the node holds, for every tree of blocks and any rounds and weights;    *)
(* and ForkChoice implements MainChain.                                    *)
(***************************************************************************)
EXTENDS ForkChoiceProofs, ForkRefinement

-----------------------------------------------------------------------------
(* The chain that a switch starts from.                                    *)

\* The blocks of that chain.
Before == Path(fork) \cup original

\* They are the chain that ends with OldTop; what a switch has to connect is not
\* of that chain, and what a rollback has connected is.
WholeInv ==
  mode # "idle" => /\ OldTop \in Block /\ Path(OldTop) = Before
                   /\ mode = "connect" => left \cap original = {}
                   /\ mode = "restore" => top \in Before

LEMMA OldTopThen ==
  OldTop' = IF original' = {} THEN fork' ELSE Highest(original')
BY Zenon DEF OldTop, Highest

(* A switch starts from the whole main chain.                              *)
LEMMA BeginSwitchWhole ==
  ASSUME FInv, RInv, NEW b \in Block \ {Genesis}, NEW c \in Offered(b),
         BeginSwitch(b, c)
  PROVE  /\ WholeInv' /\ OldTop' = top /\ mode = "idle" /\ mode' = "connect"
<1>0. TypeOK /\ top \in Block /\ chain \subseteq Block
  BY Zenon, Basics DEF FInv, TypeOK
<1>1. /\ mode = "idle" /\ mode' = "connect" /\ Acceptable(b) /\ b \notin chain
      /\ fork' = Parent[Front(b)] /\ left' = Prevs(b) \cup {b}
      /\ original' = {a \in chain : Height[a] > Height[fork']}
  BY Zenon DEF BeginSwitch, Acceptable, Alternative, HaveBlock
<1>2. ChainIsPath /\ alt \cap chain = {}  BY Zenon, <1>1, IdleAlt
<1>3. chain = Path(top) /\ top \in chain
  BY Zenon, <1>0, <1>2 DEF ChainIsPath, TypeOK
<1>4. PICK f, O : f = fork' /\ O = original'  OBVIOUS
<1>5. f \in chain /\ f \in Block
  <2>1. Parent[Front(b)] \in chain
    <3>1. CASE Parent[b] \in alt
      BY Zenon, <1>1, <3>1 DEF Acceptable, Connected
    <3>2. CASE Parent[b] \notin alt
      <4>1. Front(b) = b  BY Zenon, <3>2 DEF Front
      <4>. QED  BY Zenon, <1>1, <3>2, <4>1 DEF Acceptable, Alternative
    <3>. QED  BY Zenon, <3>1, <3>2
  <2>. QED  BY Zenon, <1>0, <1>1, <1>4, <2>1
<1>6. O = {a \in chain : Height[a] > Height[f]}  BY Zenon, <1>1, <1>4
<1>7. \A a \in chain : /\ Height[a] \in Nat /\ Height[top] \in Nat /\ Height[f] \in Nat
                       /\ Height[a] <= Height[top]
  BY Zenon, <1>0, <1>3, <1>5, PathHeights, Heights
<1>8. \A a \in chain : /\ Height[a] > Height[f] <=> ~(Height[a] <= Height[f])
                       /\ Height[top] <= Height[a] => Height[a] = Height[top]
  BY <1>7
<1>9. Path(f) \cup O = Path(top)
  <2>1. f \in Path(top)  BY Zenon, <1>3, <1>5
  <2>2. Path(f) = {x \in Path(top) : Height[x] <= Height[f]}
    BY Zenon, <1>0, <2>1, PathPrefix
  <2>. QED  BY Zenon, <1>3, <1>6, <1>8, <2>2
<1>10. IF O = {} THEN f = top ELSE Highest(O) = top
  <2>1. CASE O = {}
    <3>1. Height[top] <= Height[f]  BY Zenon, <1>3, <1>6, <1>8, <2>1
    <3>2. Height[f] = Height[top]  BY Zenon, <1>5, <1>8, <3>1
    <3>3. f = top  BY Zenon, <1>0, <1>3, <1>5, <3>2, OnePerHeight
    <3>. QED  BY Zenon, <2>1, <3>3
  <2>2. CASE O # {}
    <3>1. top \in O
      <4>1. PICK a \in chain : Height[a] > Height[f]  BY Zenon, <1>6, <2>2
      <4>2. Height[top] > Height[f]  BY <1>7, <4>1
      <4>. QED  BY Zenon, <1>3, <1>6, <4>2
    <3>2. \A a \in O : Height[a] <= Height[top]  BY Zenon, <1>6, <1>7
    <3>. DEFINE t == Highest(O)
    <3>3. t \in O /\ \A a \in O : Height[a] <= Height[t]
      BY Zenon, <3>1, <3>2 DEF Highest
    <3>. HIDE DEF t
    <3>4. t \in chain /\ Height[t] = Height[top]
      BY Zenon, <1>6, <1>8, <3>1, <3>3
    <3>5. t = top  BY Zenon, <1>0, <1>3, <3>4, OnePerHeight
    <3>. QED  BY Zenon, <2>2, <3>5 DEF t
  <2>. QED  BY Zenon, <2>1, <2>2
<1>11. OldTop' = top
  <2>1. OldTop' = IF O = {} THEN f ELSE Highest(O)  BY Zenon, <1>4, OldTopThen
  <2>. QED  BY Zenon, <1>10, <2>1
<1>12. left' \cap original' = {}
  <2>1. Prevs(b) \subseteq alt  BY Zenon, <1>0, PrevsFacts
  <2>. QED  BY Zenon, <1>1, <1>2, <2>1
<1>13. Before' = Path(top)
  BY Zenon, <1>4, <1>9 DEF Before, Path
<1>14. mode' # "restore"  BY <1>1
<1>15. Path(OldTop)' = Before'
  BY Zenon, <1>11, <1>13 DEF Path
<1>. QED  BY Zenon, <1>0, <1>1, <1>11, <1>12, <1>14, <1>15 DEF WholeInv

(* The other steps of a switch keep that chain in mind.                    *)
LEMMA SwitchWhole ==
  ASSUME FInv, RInv, WholeInv, mode # "idle", Next
  PROVE  /\ WholeInv'
         /\ mode' # "idle" => OldTop' = OldTop
<1>1. ConnectNext \/ ConnectFails \/ RestoreNext \/ RestoreFails
  BY Zenon DEF Next, AddToMainChain, KeepMainChain, BeginSwitch, RefuseAlternative,
       Acceptable, Alternative, FormCheckpoint, PopBlocks, Restart
<1>2. SUFFICES ASSUME mode' # "idle"
               PROVE  WholeInv' /\ OldTop' = OldTop
  BY Zenon DEF WholeInv
<1>3. ASSUME fork' = fork, original' = original
      PROVE  /\ OldTop' = OldTop /\ Before' = Before
             /\ OldTop' \in Block /\ Path(OldTop)' = Before'
  <2>1. OldTop' = OldTop  BY Zenon, <1>3, OldTopThen DEF OldTop
  <2>2. Before' = Before  BY Zenon, <1>3 DEF Before, Path
  <2>. QED  BY Zenon, <2>1, <2>2 DEF WholeInv, Path
<1>4. CASE ConnectNext
  <2>1. mode = "connect" /\ mode' = mode /\ left' \subseteq left
        /\ fork' = fork /\ original' = original
    BY Zenon, <1>2, <1>4 DEF ConnectNext, EndSwitch
  <2>2. mode' # "restore"  BY <2>1
  <2>3. left' \cap original' = {}  BY Zenon, <2>1 DEF WholeInv
  <2>. QED  BY Zenon, <1>3, <2>1, <2>2, <2>3 DEF WholeInv
<1>5. CASE ConnectFails
  <2>1. mode' = "restore" /\ top' = fork /\ fork' = fork /\ original' = original
    BY Zenon, <1>2, <1>5 DEF ConnectFails, EndSwitch
  <2>2. mode' # "connect"  BY <2>1
  <2>3. top' \in Before
    <3>1. fork \in Block  BY Zenon, Basics DEF FInv
    <3>. QED  BY Zenon, <2>1, <3>1, PathFacts DEF Before, HoldsPath
  <2>. QED  BY Zenon, <1>3, <2>1, <2>2, <2>3 DEF WholeInv
<1>6. CASE RestoreNext
  <2>. DEFINE b == NextToConnect
  <2>1. mode = "restore" /\ Extend(b, given[b]) /\ mode' = mode
        /\ fork' = fork /\ original' = original
    BY Zenon, <1>2, <1>6 DEF RestoreNext, EndSwitch
  <2>2. mode' # "connect"  BY <2>1
  <2>3. b \in original  BY Zenon, <2>1, RestoreBlock
  <2>4. top' \in Before  BY Zenon, <2>1, <2>3 DEF Extend, Before
  <2>. QED  BY Zenon, <1>3, <2>1, <2>2, <2>4 DEF WholeInv
<1>7. CASE RestoreFails  BY Zenon, <1>2, <1>7 DEF RestoreFails, EndSwitch
<1>. QED  BY Zenon, <1>1, <1>4, <1>5, <1>6, <1>7

LEMMA WholeInvariant == Spec => []WholeInv
<1>1. Init => WholeInv  BY Zenon DEF Init, WholeInv
<1>2. ASSUME FInv, RInv, WholeInv, [Next]_vars PROVE WholeInv'
  <2>1. CASE UNCHANGED vars
    <3>1. /\ mode' = mode /\ fork' = fork /\ original' = original /\ left' = left
          /\ top' = top
      BY Zenon, <2>1 DEF vars
    <3>2. OldTop' = OldTop  BY Zenon, <3>1, OldTopThen DEF OldTop
    <3>. QED  BY Zenon, <1>2, <3>1, <3>2 DEF WholeInv, Before, Path
  <2>2. CASE Next /\ mode # "idle"  BY Zenon, <1>2, <2>2, SwitchWhole
  <2>3. CASE Next /\ mode = "idle" /\ mode' # "idle"
    <3>1. mode # "connect" /\ mode # "restore"  BY <2>3
    <3>2. PICK b \in Block \ {Genesis} : \E c \in Offered(b) : BeginSwitch(b, c)
      BY Zenon, <2>3, <3>1
         DEF Next, AddToMainChain, KeepMainChain, RefuseAlternative, ConnectNext,
             ConnectFails, RestoreNext, RestoreFails, FormCheckpoint, PopBlocks,
             Restart, switchVars
    <3>. QED  BY Zenon, <1>2, <3>2, BeginSwitchWhole
  <2>4. CASE mode' = "idle"  BY Zenon, <2>4 DEF WholeInv
  <2>. QED  BY Zenon, <1>2, <2>1, <2>2, <2>3, <2>4
<1>3. FInv /\ RInv /\ WholeInv /\ [Next]_vars => WholeInv'  BY <1>2
<1>. QED  BY <1>1, <1>3, ForkInvariant, RowInvariant, PTL DEF Spec

\* Whoever looks at the main chain finds the blocks that are locked in.
Settled == Tip \in Block /\ locked \subseteq Path(Tip)

LEMMA SettledInvariant == Spec => []Settled
<1>1. ASSUME FInv, RInv, WholeInv PROVE Settled
  <2>0. TypeOK /\ ChainIsPath /\ top \in Block /\ fork \in chain
    BY Zenon, <1>1, Basics DEF FInv, RInv, PathInv, TypeOK
  <2>1. CASE mode = "idle"
    <3>1. Tip = top  BY Zenon, <2>1 DEF Tip
    <3>2. locked \subseteq chain  BY Zenon, <1>1 DEF FInv, LockInv
    <3>. QED  BY Zenon, <2>0, <3>1, <3>2 DEF Settled, ChainIsPath
  <2>2. CASE mode # "idle"
    <3>1. Tip = OldTop  BY Zenon, <2>2 DEF Tip
    <3>2. \A b \in locked : b \in chain /\ Height[b] <= Height[fork]
      BY Zenon, <1>1, <2>2 DEF FInv, LockInv
    <3>3. Path(fork) = PoppedTo(fork)  BY Zenon, <2>0, Popped
    <3>4. locked \subseteq Path(fork)  BY Zenon, <3>2, <3>3 DEF PoppedTo
    <3>. QED  BY Zenon, <1>1, <2>2, <3>1, <3>4 DEF WholeInv, Before, Settled
  <2>. QED  BY Zenon, <2>1, <2>2
<1>2. FInv /\ RInv /\ WholeInv => Settled  BY <1>1
<1>. QED  BY <1>2, ForkInvariant, RowInvariant, WholeInvariant, PTL

-----------------------------------------------------------------------------
(* The steps of a switch and of the commands, as steps of MainChain.       *)

(* What is locked in stays so, unless there is a command.                  *)
LEMMA Settles ==
  ASSUME Settled', LockIn(locked, everLocked) \/ UNCHANGED lockVars,
         UNCHANGED bounds
  PROVE  Main!Settle
<1>1. locked \subseteq locked'  BY Zenon DEF LockIn, lockVars
<1>2. locked' \subseteq Paths[Tip']  BY Zenon DEF Settled, Path
<1>3. pops' = pops /\ restarts' = restarts  BY Zenon DEF bounds
<1>. QED  BY Zenon, <1>1, <1>2, <1>3 DEF Main!Settle

LEMMA Keeps ==
  ASSUME Settled', LockIn(locked, everLocked) \/ UNCHANGED lockVars,
         UNCHANGED bounds, Tip' = Tip, byWeight' = byWeight \/ byWeight' = FALSE
  PROVE  Main!Next
<1>1. Main!Settle  BY Zenon, Settles
<1>2. Main!Keep  BY Zenon, <1>1 DEF Main!Keep, Main!Interfere
<1>. QED  BY Zenon, <1>2 DEF Main!Next

(* A block on top of the main chain.                                       *)
LEMMA AddToMainChainIsStep ==
  ASSUME FInv, RInv, Settled', NEW b \in Block \ {Genesis}, NEW c \in Offered(b),
         AddToMainChain(b, c)
  PROVE  Main!Next
<1>1. /\ mode = "idle" /\ mode' = mode /\ b \notin chain /\ Parent[b] = top
      /\ UNCHANGED bounds /\ LockIn(locked, everLocked)
  BY Zenon DEF AddToMainChain, HaveBlock, switchVars
<1>2. Tip = top /\ Tip' = top'  BY Zenon, <1>1 DEF Tip
<1>3. byWeight \in BOOLEAN  BY Zenon DEF FInv, TypeOK
<1>4. CASE Extend(b, c) /\ byWeight' = (byWeight /\ c = None)
  <2>1. Tip' = b  BY Zenon, <1>2, <1>4 DEF Extend
  <2>2. Paths[b] = Paths[Tip] \cup {b} /\ b \notin Paths[Tip]
    <3>1. Path(b) = {b} \cup Path(top)  BY Zenon, <1>1, PathStep
    <3>2. chain = Path(top)  BY Zenon, <1>1, IdleAlt DEF ChainIsPath
    <3>. QED  BY Zenon, <1>1, <1>2, <3>1, <3>2 DEF Path
  <2>3. Main!Settle  BY Zenon, <1>1, Settles
  <2>4. Main!Interfere
    BY Zenon, <1>3, <1>4 DEF Main!Interfere
  <2>5. Main!Extend(b)  BY Zenon, <2>1, <2>2, <2>3, <2>4 DEF Main!Extend
  <2>. QED  BY Zenon, <2>5 DEF Main!Next
<1>5. CASE UNCHANGED <<chainVars, byWeight>>
  <2>1. Tip' = Tip /\ byWeight' = byWeight  BY Zenon, <1>2, <1>5 DEF chainVars
  <2>. QED  BY Zenon, <1>1, <2>1, Keeps
<1>. QED  BY Zenon, <1>4, <1>5 DEF AddToMainChain

\* The last block of a switch makes the chain heavier than the one that it
\* started from.
Gains ==
  byWeight /\ ConnectNext /\ left = {NextToConnect}
    => ChainWeight(Before) < ChainWeight(chain')

(* The last block of a switch.                                             *)
LEMMA SwitchIsStep ==
  ASSUME FInv, RInv, WholeInv, RInv', Settled', Gains, ConnectNext,
         left = {NextToConnect}
  PROVE  Main!Next
<1>. DEFINE b == NextToConnect
<1>1. /\ mode = "connect" /\ mode' = "idle" /\ Extend(b, given[b])
      /\ UNCHANGED <<bounds, byWeight>> /\ LockIn(locked, everLocked)
  BY Zenon DEF ConnectNext, EndSwitch
<1>2. mode # "idle"  BY <1>1
<1>. HIDE DEF b
<1>3. /\ b \in left /\ b \in Block /\ Height[fork] < Height[b] /\ top' = b
  BY Zenon, <1>1, <1>2, ConnectRow DEF b
<1>4. Tip = OldTop /\ Tip' = b  BY Zenon, <1>1, <1>2, <1>3 DEF Tip
<1>5. Path(Tip) = Before /\ Tip \in Block  BY Zenon, <1>2, <1>4 DEF WholeInv
<1>6. b \notin Paths[Tip]
  <2>1. b \notin original  BY Zenon, <1>1, <1>2, <1>3 DEF WholeInv
  <2>2. \A x \in Path(fork) : Height[x] \in Nat /\ Height[fork] \in Nat
                              /\ Height[x] <= Height[fork]
    BY Zenon, PathHeights, Basics DEF FInv
  <2>3. \A x \in Path(fork) : ~(Height[fork] < Height[x])  BY <2>2
  <2>. QED  BY Zenon, <1>3, <1>5, <2>1, <2>3 DEF Before, Path
<1>7. byWeight => ChainWeights[b] > ChainWeights[Tip]
  <2>. SUFFICES ASSUME byWeight PROVE ChainWeights[b] > ChainWeights[Tip]
    BY Zenon
  <2>1. ChainWeight(Before) < ChainWeight(chain')
    BY Zenon, <1>1 DEF Gains
  <2>2. chain' = Path(b)
    BY Zenon, <1>3 DEF RInv, PathInv, ChainIsPath
  <2>3. ChainWeights[b] = ChainWeight(chain') /\ ChainWeights[Tip] = ChainWeight(Before)
    BY Zenon, <1>3, <1>5, <2>2 DEF ChainWeights
  <2>. QED  BY <2>1, <2>3
<1>8. Main!Settle  BY Zenon, <1>1, Settles
<1>9. Main!Replace(b)  BY Zenon, <1>1, <1>4, <1>6, <1>7, <1>8 DEF Main!Replace
<1>. QED  BY Zenon, <1>3, <1>9 DEF Main!Next

(* The other steps of a switch and of its rollback.                        *)
LEMMA RollbackIsStep ==
  ASSUME FInv, RInv, WholeInv, Settled', Next, mode # "idle",
         ConnectNext => left # {NextToConnect}
  PROVE  Main!Next
<1>1. Tip = OldTop /\ OldTop \in Block /\ Path(OldTop) = Before
  BY Zenon DEF Tip, WholeInv
<1>2. ASSUME mode' # "idle", LockIn(locked, everLocked), UNCHANGED <<bounds, byWeight>>
      PROVE  Main!Next
  <2>1. Tip' = Tip  BY Zenon, <1>1, <1>2, SwitchWhole DEF Tip
  <2>. QED  BY Zenon, <1>2, <2>1, Keeps
<1>3. CASE ConnectNext
  <2>1. /\ mode' = mode /\ UNCHANGED <<bounds, byWeight>> /\ LockIn(locked, everLocked)
    BY Zenon, <1>3 DEF ConnectNext
  <2>. QED  BY Zenon, <1>2, <2>1
<1>4. CASE ConnectFails
  <2>1. /\ UNCHANGED <<bounds, byWeight>> /\ LockIn(locked, everLocked) /\ top' = fork
    BY Zenon, <1>4 DEF ConnectFails
  <2>2. CASE mode' = "idle"
    <3>1. original = {}
      <4>1. "restore" # "idle"  OBVIOUS
      <4>. QED  BY Zenon, <1>4, <2>2, <4>1 DEF ConnectFails
    <3>2. Tip' = Tip  BY Zenon, <1>1, <2>1, <2>2, <3>1 DEF Tip, OldTop
    <3>. QED  BY Zenon, <2>1, <3>2, Keeps
  <2>. QED  BY Zenon, <1>2, <2>1, <2>2
<1>5. CASE RestoreNext
  <2>1. /\ UNCHANGED <<bounds, byWeight>> /\ LockIn(locked, everLocked)
        /\ mode = "restore"
    BY Zenon, <1>5 DEF RestoreNext
  <2>2. CASE mode' = "idle"
    <3>1. original # {}
      BY Zenon, <2>1 DEF FInv, SwitchInv
    <3>2. top' = Highest(original)  BY Zenon, <1>5, <2>2, RollbackEnds
    <3>3. Tip' = Tip  BY Zenon, <1>1, <2>2, <3>1, <3>2 DEF Tip, OldTop
    <3>. QED  BY Zenon, <2>1, <3>3, Keeps
  <2>. QED  BY Zenon, <1>2, <2>1, <2>2
<1>6. CASE RestoreFails
  <2>1. /\ mode = "restore" /\ mode' = "idle" /\ top' = top /\ byWeight' = FALSE
        /\ UNCHANGED bounds /\ LockIn(locked, everLocked)
    BY Zenon, <1>6 DEF RestoreFails, EndSwitch, chainVars
  <2>2. top \in Paths[Tip] /\ top \in Block
    <3>1. top \in Before  BY Zenon, <2>1 DEF WholeInv
    <3>. QED  BY Zenon, <1>1, <3>1, Basics DEF FInv, Path
  <2>3. Tip' = top  BY Zenon, <2>1 DEF Tip
  <2>4. Main!Settle  BY Zenon, <2>1, Settles
  <2>5. Main!Lose(top)  BY Zenon, <2>1, <2>2, <2>3, <2>4 DEF Main!Lose
  <2>. QED  BY Zenon, <2>2, <2>5 DEF Main!Next
<1>7. ConnectNext \/ ConnectFails \/ RestoreNext \/ RestoreFails
  BY Zenon DEF Next, AddToMainChain, KeepMainChain, BeginSwitch, RefuseAlternative,
       Acceptable, Alternative, FormCheckpoint, PopBlocks, Restart
<1>. QED  BY Zenon, <1>3, <1>4, <1>5, <1>6, <1>7

(* The commands.                                                           *)
LEMMA CommandIsStep ==
  ASSUME FInv, RInv, Settled', Restart \/ \E b \in chain : PopBlocks(b)
  PROVE  Main!Next
<1>0. /\ pops \in Nat /\ restarts \in Nat /\ chain \subseteq Block
      /\ locked' \subseteq Paths[Tip']
  <2>1. MaxPops \in Nat /\ MaxRestarts \in Nat  BY BoundAssumption
  <2>2. pops \in 0..MaxPops /\ restarts \in 0..MaxRestarts  BY Zenon DEF FInv, TypeOK
  <2>3. pops \in Nat /\ restarts \in Nat  BY <2>1, <2>2
  <2>. QED  BY Zenon, <2>3 DEF FInv, TypeOK, Settled, Path
<1>1. CASE Restart
  <2>1. /\ mode = "idle" /\ mode' = mode /\ top' = top /\ byWeight' = byWeight
        /\ pops' = pops /\ restarts' = restarts + 1
    BY Zenon, <1>1 DEF Restart, chainVars, switchVars
  <2>2. Tip' = Tip  BY Zenon, <2>1 DEF Tip
  <2>3. pops' + restarts' = (pops + restarts) + 1  BY <1>0, <2>1
  <2>4. Main!Restart  BY Zenon, <1>0, <2>1, <2>2, <2>3 DEF Main!Restart
  <2>. QED  BY Zenon, <2>4 DEF Main!Next
<1>2. ASSUME NEW b \in chain, PopBlocks(b) PROVE Main!Next
  <2>1. /\ mode = "idle" /\ mode' = mode /\ top' = b /\ byWeight' = FALSE
        /\ pops' = pops + 1 /\ restarts' = restarts
    BY Zenon, <1>2 DEF PopBlocks, switchVars
  <2>2. Tip' = b /\ Tip = top  BY Zenon, <2>1 DEF Tip
  <2>3. pops' + restarts' = (pops + restarts) + 1  BY <1>0, <2>1
  <2>4. b \in Paths[Tip] /\ b \in Block
    BY Zenon, <1>0, <1>2, <2>1, <2>2, IdleAlt DEF ChainIsPath, Path
  <2>5. Main!Pop(b)  BY Zenon, <1>0, <2>1, <2>2, <2>3, <2>4 DEF Main!Pop
  <2>. QED  BY Zenon, <2>4, <2>5 DEF Main!Next
<1>. QED  BY Zenon, <1>1, <1>2

LEMMA MainStep ==
  ASSUME FInv, RInv, WholeInv, RInv', Settled', Gains, [Next]_vars
  PROVE  [Main!Next]_(Main!vars)
<1>1. CASE UNCHANGED vars
  <2>1. /\ top' = top /\ mode' = mode /\ fork' = fork /\ original' = original
        /\ locked' = locked /\ byWeight' = byWeight /\ pops' = pops
        /\ restarts' = restarts
    BY Zenon, <1>1 DEF vars
  <2>2. OldTop' = OldTop  BY Zenon, <2>1, OldTopThen DEF OldTop
  <2>3. Tip' = Tip  BY Zenon, <2>1, <2>2 DEF Tip
  <2>. QED  BY Zenon, <2>1, <2>3 DEF Main!vars
<1>2. ASSUME NEW b \in Block \ {Genesis}, NEW c \in Offered(b), AddToMainChain(b, c)
      PROVE  Main!Next
  BY Zenon, <1>2, AddToMainChainIsStep
<1>3. ASSUME NEW b \in Block \ {Genesis}, NEW c \in Offered(b), BeginSwitch(b, c)
      PROVE  Main!Next
  <2>1. OldTop' = top /\ mode = "idle" /\ mode' = "connect"
    BY Zenon, <1>3, BeginSwitchWhole
  <2>2. mode' # "idle"  BY <2>1
  <2>3. Tip' = Tip  BY Zenon, <2>1, <2>2 DEF Tip
  <2>4. byWeight' = byWeight \/ byWeight' = FALSE
    BY Zenon, <1>3 DEF BeginSwitch, StoreAlt, FInv, TypeOK
  <2>. QED  BY Zenon, <1>3, <2>3, <2>4, Keeps DEF BeginSwitch
<1>4. ASSUME NEW b \in Block \ {Genesis},
             RefuseAlternative(b) \/ \E c \in Offered(b) : KeepMainChain(b, c)
      PROVE  Main!Next
  <2>1. /\ mode = "idle" /\ mode' = mode /\ top' = top
        /\ UNCHANGED bounds /\ UNCHANGED lockVars
    BY Zenon, <1>4 DEF RefuseAlternative, KeepMainChain, Acceptable, Alternative,
         chainVars, switchVars
  <2>2. Tip' = Tip  BY Zenon, <2>1 DEF Tip
  <2>3. byWeight' = byWeight \/ byWeight' = FALSE
    BY Zenon, <1>4 DEF RefuseAlternative, KeepMainChain, StoreAlt, FInv, TypeOK
  <2>. QED  BY Zenon, <2>1, <2>2, <2>3, Keeps
<1>5. ASSUME NEW c \in Signed, FormCheckpoint(c) PROVE Main!Next
  <2>1. /\ mode = "idle" /\ mode' = mode /\ top' = top /\ byWeight' = FALSE
        /\ UNCHANGED bounds /\ LockIn(locked, everLocked)
    BY Zenon, <1>5 DEF FormCheckpoint, chainVars, switchVars
  <2>2. Tip' = Tip  BY Zenon, <2>1 DEF Tip
  <2>. QED  BY Zenon, <2>1, <2>2, Keeps
<1>6. CASE Next /\ mode # "idle"
  BY Zenon, <1>6, SwitchIsStep, RollbackIsStep
<1>7. CASE Restart \/ \E b \in chain : PopBlocks(b)
  BY Zenon, <1>7, CommandIsStep
<1>8. ConnectNext \/ ConnectFails \/ RestoreNext \/ RestoreFails => mode # "idle"
  BY DEF ConnectNext, ConnectFails, RestoreNext, RestoreFails
<1>. QED
  BY Zenon, <1>1, <1>2, <1>3, <1>4, <1>5, <1>6, <1>7, <1>8 DEF Next

-----------------------------------------------------------------------------
(* The heaviest chain.                                                     *)

\* No block on the path to a can fail.
Sound(a) == Path(a) \cap (Bad \cup Flaky) = {}

\* No alternative block that can be connected ends a heavier chain than S.
Outweighs(S) == \A a \in alt : Sound(a) => ChainWeight(Path(a)) <= ChainWeight(S)

NoCheckpoints ==
  cps = {Genesis} /\ \A b \in Block : altcp[b] = None /\ given[b] = None

\* During a switch the blocks are compared with the chain it started from, which
\* is lighter than the chosen chain; only the block that ends the chosen chain
\* may be heavier than it.
Chosen ==
  /\ IsFiniteSet(original) /\ chosen \subseteq Block
  /\ \A a \in alt : Sound(a) => \/ ChainWeight(Path(a)) <= ChainWeight(Before)
                               \/ (a \in chosen /\ chosen \subseteq Path(a))
  /\ ChainWeight(original) < ChainWeight(chosen)
  /\ \A x \in chosen : Height[fork] < Height[x]
  /\ chosen \subseteq chain \cup left

WeightInv ==
  byWeight => /\ NoCheckpoints
              /\ mode = "idle" => Outweighs(chain)
              /\ mode = "connect" => Chosen
              /\ mode = "restore" => Outweighs(Before)

(* The two chains that are compared, from the fork on.                     *)
LEMMA Splits ==
  ASSUME FInv, RInv, mode = "idle", NEW b \in Block \ {Genesis}, Acceptable(b),
         NEW f, f = Parent[Front(b)]
  PROVE  /\ f \in chain /\ f \in Block /\ Front(b) \in Path(b)
         /\ \A x \in Prevs(b) \cup {b} : Height[f] < Height[x]
         /\ Prevs(b) \cup {b} \subseteq Path(b)
         /\ Path(b) = Path(f) \cup (Prevs(b) \cup {b})
         /\ Path(f) \cap (Prevs(b) \cup {b}) = {}
         /\ chain = Path(f) \cup MainFrom(Front(b))
         /\ Path(f) \cap MainFrom(Front(b)) = {}
         /\ MainFrom(Front(b)) = {a \in chain : Height[a] > Height[f]}
<1>. DEFINE R == Prevs(b) \cup {b}
<1>0. TypeOK /\ ChainIsPath /\ top \in Block
  BY Zenon, IdleAlt, Basics DEF FInv
<1>1. f \in chain /\ f \in Block
  <2>1. CASE Parent[b] \in alt
    BY Zenon, <1>0, <2>1 DEF Acceptable, Connected, TypeOK
  <2>2. CASE Parent[b] \notin alt
    <3>1. Front(b) = b  BY Zenon, <2>2 DEF Front
    <3>. QED  BY Zenon, <1>0, <2>2, <3>1 DEF Acceptable, Alternative, TypeOK
  <2>. QED  BY Zenon, <2>1, <2>2
<1>2. /\ Front(b) \in Block \ {Genesis} /\ Height[Front(b)] = Height[f] + 1
      /\ \A x \in R : Height[Front(b)] <= Height[x]
      /\ Prevs(b) \subseteq alt
  BY Zenon, <1>0, FrontFacts
<1>3. R \subseteq Block /\ Height[f] \in Nat /\ \A x \in R : Height[x] \in Nat
  BY Zenon, <1>0, <1>1, <1>2, Heights DEF TypeOK
<1>4. \A x \in R : Height[f] < Height[x]
  BY <1>2, <1>3
<1>5. R \subseteq Path(b) /\ HoldsPath(Path(b), b) /\ Path(b) \in SUBSET Block
  <2>1. HoldsPath(Path(b), b) /\ Path(b) \in SUBSET Block  BY Zenon, PathFacts
  <2>2. Path(b) = {b} \cup Path(Parent[b])  BY Zenon, PathStep
  <2>. QED  BY Zenon, <1>0, <2>1, <2>2, PrevsFacts DEF HoldsPath
<1>6. Front(b) \in R
  <2>1. CASE Parent[b] \in alt
    <3>1. Front(b) = Lowest(Prevs(b))  BY Zenon, <2>1 DEF Front
    <3>2. Prevs(b) \in SUBSET Block /\ Prevs(b) # {}
      BY Zenon, <1>0, <1>3, <2>1, PrevsFacts
    <3>. QED  BY Zenon, <3>1, <3>2, LowestExists
  <2>2. CASE Parent[b] \notin alt  BY Zenon, <2>2 DEF Front
  <2>. QED  BY Zenon, <2>1, <2>2
<1>7. Path(b) = Path(f) \cup R
  <2>1. HoldsPath(Path(f), f) /\ Path(f) \in SUBSET Block
    BY Zenon, <1>1, PathFacts
  <2>2. HoldsPath(Path(b), f)
    BY Zenon, <1>2, <1>5, <1>6 DEF HoldsPath
  <2>3. Path(f) \subseteq Path(b)
    BY Zenon, <1>1, <1>5, <2>2, PathFacts
  <2>4. Linked(R, f)  BY Zenon, <1>0, PrevsLinked
  <2>. DEFINE S == Path(f) \cup R
  <2>5. HoldsPath(S, b)  BY Zenon, <2>1, <2>4 DEF HoldsPath, Linked
  <2>6. S \in SUBSET Block  BY Zenon, <1>3, <2>1
  <2>. HIDE DEF S
  <2>7. Path(b) \subseteq S  BY Zenon, <2>5, <2>6, PathFacts
  <2>. QED  BY Zenon, <1>5, <2>3, <2>7 DEF S
<1>8. Path(f) \cap R = {}
  <2>1. \A x \in Path(f) : Height[x] \in Nat /\ Height[x] <= Height[f]
    BY Zenon, <1>1, PathHeights
  <2>2. \A x \in Path(f) : ~(Height[f] < Height[x])  BY <1>3, <2>1
  <2>. QED  BY Zenon, <1>4, <2>2
<1>9. Path(f) = {x \in chain : Height[x] <= Height[f]}
  <2>1. f \in Path(top) /\ chain = Path(top)  BY Zenon, <1>0, <1>1 DEF ChainIsPath
  <2>2. Path(f) = {x \in Path(top) : Height[x] <= Height[f]}
    BY Zenon, <1>0, <2>1, PathPrefix
  <2>. QED  BY Zenon, <2>1, <2>2
<1>10. \A x \in chain : /\ Height[x] >= Height[Front(b)] <=> Height[x] > Height[f]
                        /\ Height[x] > Height[f] <=> ~(Height[x] <= Height[f])
  <2>1. \A x \in chain : Height[x] \in Nat  BY Zenon, <1>0, Heights DEF TypeOK
  <2>. QED  BY <1>2, <1>3, <2>1
<1>11. MainFrom(Front(b)) = {a \in chain : Height[a] > Height[f]}
  BY Zenon, <1>10 DEF MainFrom
<1>12. /\ chain = Path(f) \cup MainFrom(Front(b))
       /\ Path(f) \cap MainFrom(Front(b)) = {}
  BY Zenon, <1>9, <1>10, <1>11
<1>. QED  BY Zenon, <1>1, <1>4, <1>5, <1>6, <1>7, <1>8, <1>11, <1>12

(* No checkpoint comes but with a block, or by votes.                      *)
LEMMA NoneStored ==
  ASSUME NoCheckpoints, FInv', cps' \subseteq cps,
         \A b \in Block : altcp'[b] = None /\ given'[b] = None
  PROVE  NoCheckpoints'
BY Zenon DEF NoCheckpoints, FInv, CpInv, CheckpointSet

LEMMA NoneAdded ==
  ASSUME NEW b, CheckpointsBlockAdd(b, None)
  PROVE  cps' \subseteq cps
<1>1. CASE cps' = cps  BY Zenon, <1>1
<1>2. CASE cps' = Store(cps \ Culled(b), None)  BY Zenon, <1>2 DEF Store
<1>. QED  BY Zenon, <1>1, <1>2 DEF CheckpointsBlockAdd, CpsAdded

LEMMA NoneMatters ==
  ASSUME FInv, NoCheckpoints, NEW b \in Block, Height[fork] < Height[b]
  PROVE  MatchesCheckpoint(b) /\ CheckpointAt(Height[b]) = None
<1>1. /\ Height[b] \in Nat /\ Height[fork] \in Nat /\ Height[Genesis] \in Nat
      /\ Height[Genesis] <= Height[fork]
  BY Zenon, Basics, Heights DEF FInv
<1>2. Height[Genesis] # Height[b]  BY <1>1
<1>. QED  BY Zenon, <1>2 DEF NoCheckpoints, MatchesCheckpoint, CheckpointAt

LEMMA FewerWeigh ==
  ASSUME FInv, WeightInv, FInv', byWeight',
         \/ \E b \in Block \ {Genesis} : RefuseAlternative(b)
         \/ Restart
  PROVE  WeightInv'
<1>1. /\ mode = "idle" /\ mode' = mode /\ chain' = chain /\ cps' = cps
      /\ given' = given /\ byWeight
  BY Zenon DEF RefuseAlternative, Alternative, Restart, chainVars, cpVars, switchVars
<1>2. NoCheckpoints /\ Outweighs(chain)  BY Zenon, <1>1 DEF WeightInv
<1>3. alt' \subseteq alt /\ \A d \in Block : altcp'[d] = None
  BY Zenon, <1>2 DEF RefuseAlternative, Restart, altVars, NoCheckpoints
<1>4. NoCheckpoints'  BY Zenon, <1>1, <1>2, <1>3 DEF NoCheckpoints
<1>5. Outweighs(chain)'  BY Zenon, <1>1, <1>2, <1>3 DEF Outweighs
<1>6. mode' # "connect" /\ mode' # "restore"  BY <1>1
<1>. QED  BY Zenon, <1>4, <1>5, <1>6 DEF WeightInv

(* A block that fails is on no chain without a failing block.              *)
LEMMA ConnectFailsWeighs ==
  ASSUME FInv, RInv, WeightInv, FInv', byWeight', ConnectFails
  PROVE  WeightInv'
<1>. DEFINE b == NextToConnect
<1>0. TypeOK /\ fork \in chain /\ top \in Block  BY Zenon, Basics DEF FInv, TypeOK
<1>1. /\ mode = "connect" /\ MayFail(b) /\ byWeight' = byWeight
      /\ chain' = PoppedTo(fork)
      /\ FailedAndDetached(b, given[b], Height[fork] + 1)
      /\ alt' = alt \ {b} /\ altcp' = [altcp EXCEPT ![b] = None]
  BY Zenon DEF ConnectFails
<1>2. mode # "idle" /\ mode # "restore"  BY <1>1
<1>3. NoCheckpoints /\ Chosen  BY Zenon, <1>1 DEF WeightInv
<1>4. b \in chosen /\ b \in Block
  <2>1. left # {} /\ left \in SUBSET Block /\ left \subseteq chosen
    BY Zenon, <1>1, <1>2 DEF FInv, TypeOK, SwitchInv, RInv, AltInv
  <2>. QED  BY Zenon, <2>1, LowestExists DEF NextToConnect
<1>. HIDE DEF b
<1>5. b \in Bad \cup Flaky
  <2>1. Height[fork] < Height[b]  BY Zenon, <1>3, <1>4 DEF Chosen
  <2>2. MatchesCheckpoint(b)  BY Zenon, <1>3, <1>4, <2>1, NoneMatters
  <2>. QED  BY Zenon, <1>1, <2>2 DEF MayFail
<1>6. \A a \in alt' : Sound(a) => ChainWeight(Path(a)) <= ChainWeight(Before)
  BY Zenon, <1>1, <1>3, <1>4, <1>5 DEF Chosen, Sound
<1>7. cps' \subseteq cps /\ \A a \in Block : altcp'[a] = None
  <2>1. given[b] = None  BY Zenon, <1>3, <1>4 DEF NoCheckpoints
  <2>2. CpsAdded(b, None) \subseteq cps  BY Zenon DEF CpsAdded, Store
  <2>. QED
    BY Zenon, <1>0, <1>1, <1>3, <2>1, <2>2
       DEF FailedAndDetached, CheckpointsDetach, DetachFrom, NoCheckpoints, TypeOK
<1>8. CASE original = {}
  <2>1. mode' = "idle" /\ given' = [a \in Block |-> None]
    BY Zenon, <1>8 DEF ConnectFails, EndSwitch
  <2>2. NoCheckpoints'  BY Zenon, <1>3, <1>7, <2>1, NoneStored
  <2>3. chain' = Before
    <3>1. chain' = Path(fork)
      BY Zenon, <1>0, <1>1, Popped DEF RInv, PathInv
    <3>. QED  BY Zenon, <1>8, <3>1 DEF Before
  <2>4. Outweighs(chain)'  BY Zenon, <1>6, <2>3 DEF Outweighs
  <2>5. mode' # "connect" /\ mode' # "restore"  BY <2>1
  <2>. QED  BY Zenon, <2>2, <2>4, <2>5 DEF WeightInv
<1>9. CASE original # {}
  <2>1. mode' = "restore" /\ fork' = fork /\ original' = original /\ given' = given
    BY Zenon, <1>9 DEF ConnectFails
  <2>2. \A a \in Block : given'[a] = None  BY Zenon, <1>3, <2>1 DEF NoCheckpoints
  <2>3. NoCheckpoints'  BY Zenon, <1>3, <1>7, <2>2, NoneStored
  <2>4. Outweighs(Before)'  BY Zenon, <1>6, <2>1 DEF Outweighs, Before
  <2>5. mode' # "connect" /\ mode' # "idle"  BY <2>1
  <2>. QED  BY Zenon, <2>3, <2>4, <2>5 DEF WeightInv
<1>. QED  BY Zenon, <1>8, <1>9

LEMMA WeightInit ==
  ASSUME Init
  PROVE  WeightInv
<1>1. /\ mode = "idle" /\ alt = {} /\ cps = {Genesis}
      /\ altcp = [b \in Block |-> None] /\ given = [b \in Block |-> None]
  BY Zenon DEF Init
<1>2. mode # "connect" /\ mode # "restore"  BY <1>1
<1>3. NoCheckpoints  BY Zenon, <1>1 DEF NoCheckpoints
<1>4. Outweighs(chain)  BY Zenon, <1>1 DEF Outweighs
<1>. QED  BY Zenon, <1>2, <1>3, <1>4 DEF WeightInv

-----------------------------------------------------------------------------
(* The weight of a chain.                                                  *)

INSTANCE FiniteSetTheorems

LEMMA Weights ==
  ASSUME NEW b \in Block
  PROVE  Weight(b) \in Nat \ {0} /\ Weight(b) <= 1 + PULSE_BASE_WEIGHT
<1>. DEFINE share == PULSE_BASE_WEIGHT \div (1 + Round[b])
<1>1. PULSE_BASE_WEIGHT \in Nat /\ 1 + Round[b] \in Nat \ {0}
  BY WeightAssumption
<1>2. share \in Nat /\ share <= PULSE_BASE_WEIGHT  BY <1>1
<1>3. Weight(b) = 1 + (IF b \in Mined THEN 0 ELSE share)  BY Zenon DEF Weight
<1>. HIDE DEF share
<1>. QED  BY <1>1, <1>2, <1>3

LEMMA UnitsFacts ==
  ASSUME NEW S, S \subseteq Block, IsFiniteSet(S)
  PROVE  IsFiniteSet(Units(S)) /\ ChainWeight(S) \in Nat
<1>. DEFINE I == 1..(1 + PULSE_BASE_WEIGHT)
<1>1. IsFiniteSet(I)
  <2>1. 1 \in Int /\ 1 + PULSE_BASE_WEIGHT \in Int  BY WeightAssumption
  <2>. QED  BY Zenon, <2>1, FS_Interval
<1>2. IsFiniteSet(S \X I)  BY Zenon, <1>1, FS_Product
<1>3. Units(S) \subseteq S \X I
  <2>. SUFFICES ASSUME NEW u \in Units(S) PROVE u \in S \X I
    BY Zenon
  <2>1. PICK b \in S : u \in {b} \X (1..Weight(b))  BY Zenon DEF Units
  <2>2. Weight(b) \in Nat \ {0} /\ Weight(b) <= 1 + PULSE_BASE_WEIGHT
    BY Zenon, Weights
  <2>3. 1..Weight(b) \subseteq I  BY <2>2, WeightAssumption
  <2>. QED  BY Zenon, <2>1, <2>3
<1>4. IsFiniteSet(Units(S))  BY Zenon, <1>2, <1>3, FS_Subset
<1>. QED  BY Zenon, <1>4, FS_CardinalityType DEF ChainWeight

(* The weight of disjoint sets of blocks adds up.                          *)
LEMMA WeightsAdd ==
  ASSUME NEW S, NEW T, S \subseteq Block, T \subseteq Block,
         IsFiniteSet(S), IsFiniteSet(T), S \cap T = {}
  PROVE  ChainWeight(S \cup T) = ChainWeight(S) + ChainWeight(T)
<1>1. Units(S \cup T) = Units(S) \cup Units(T)
  BY Zenon DEF Units
<1>2. Units(S) \cap Units(T) = {}
  <2>. SUFFICES ASSUME NEW u, u \in Units(S), u \in Units(T) PROVE FALSE
    BY Zenon
  <2>1. PICK a \in S : u \in {a} \X (1..Weight(a))  BY Zenon DEF Units
  <2>2. PICK b \in T : u \in {b} \X (1..Weight(b))  BY Zenon DEF Units
  <2>3. u[1] = a /\ u[1] = b  BY <2>1, <2>2
  <2>. QED  BY Zenon, <2>3
<1>3. IsFiniteSet(Units(S)) /\ IsFiniteSet(Units(T)) /\ Cardinality({}) = 0
  BY Zenon, UnitsFacts, FS_EmptySet
<1>4. Cardinality(Units(S)) \in Nat /\ Cardinality(Units(T)) \in Nat
  BY Zenon, <1>3, FS_CardinalityType
<1>5. Cardinality(Units(S) \cup Units(T))
        = Cardinality(Units(S)) + Cardinality(Units(T))
            - Cardinality(Units(S) \cap Units(T))
  BY Zenon, <1>3, FS_Union
<1>6. Cardinality(Units(S) \cap Units(T)) = 0  BY Zenon, <1>2, <1>3
<1>7. Cardinality(Units(S) \cup Units(T)) = Cardinality(Units(S)) + Cardinality(Units(T))
  BY <1>4, <1>5, <1>6
<1>. QED  BY Zenon, <1>1, <1>7 DEF ChainWeight

(* One block weighs what the code gives it.                                *)
LEMMA WeightOfOne ==
  ASSUME NEW b \in Block
  PROVE  ChainWeight({b}) = Weight(b)
<1>. DEFINE I == 1..Weight(b)
            U == {b} \X I
<1>1. Weight(b) \in Nat  BY Zenon, Weights
<1>2. IsFiniteSet(I) /\ Cardinality(I) = Weight(b)
  <2>1. IsFiniteSet(I) /\ Cardinality(I) = IF 1 > Weight(b) THEN 0 ELSE Weight(b) - 1 + 1
    <3>1. 1 \in Int /\ Weight(b) \in Int  BY <1>1
    <3>. QED  BY Zenon, <3>1, FS_Interval
  <2>. QED  BY <1>1, <2>1
<1>3. IsFiniteSet({b}) /\ Cardinality({b}) = 1  BY Zenon, FS_Singleton
<1>4. Cardinality(U) = Cardinality({b}) * Cardinality(I)
  BY Zenon, <1>2, <1>3, FS_Product
<1>5. Cardinality(U) = Weight(b)
  BY <1>1, <1>2, <1>3, <1>4
<1>6. Units({b}) = U  BY Zenon DEF Units
<1>. QED  BY Zenon, <1>5, <1>6 DEF ChainWeight

LEMMA WeightsGrow ==
  ASSUME NEW S, NEW T, S \subseteq T, T \subseteq Block, IsFiniteSet(T)
  PROVE  IsFiniteSet(S) /\ ChainWeight(S) <= ChainWeight(T)
<1>1. IsFiniteSet(S) /\ S \subseteq Block  BY Zenon, FS_Subset
<1>2. Units(S) \subseteq Units(T)  BY Zenon DEF Units
<1>3. IsFiniteSet(Units(T))  BY Zenon, UnitsFacts
<1>4. Cardinality(Units(S)) <= Cardinality(Units(T))
  BY Zenon, <1>2, <1>3, FS_Subset
<1>. QED  BY Zenon, <1>1, <1>4 DEF ChainWeight

LEMMA FinitePaths ==
  ASSUME NEW b \in Block
  PROVE  IsFiniteSet(Path(b)) /\ Path(b) \subseteq Block /\ ChainWeight(Path(b)) \in Nat
<1>. DEFINE T == {c \in Block : IsFiniteSet(Path(c))}
<1>1. Genesis \in T
  BY Zenon, GenesisPath, FS_Singleton, TreeAssumption
<1>2. ASSUME NEW c \in Block \ {Genesis}, Parent[c] \in T PROVE c \in T
  <2>1. Path(c) = {c} \cup Path(Parent[c])  BY Zenon, PathStep
  <2>2. Path(c) = Path(Parent[c]) \cup {c}  BY Zenon, <2>1
  <2>3. IsFiniteSet(Path(Parent[c]) \cup {c})  BY Zenon, <1>2, FS_AddElement
  <2>. QED  BY Zenon, <2>2, <2>3
<1>. HIDE DEF T
<1>3. T \in SUBSET Block  BY Zenon DEF T
<1>4. T = Block  BY Zenon, <1>1, <1>2, <1>3, TreeInduction
<1>5. IsFiniteSet(Path(b)) /\ Path(b) \subseteq Block
  BY Zenon, <1>4, PathFacts DEF T
<1>. QED  BY Zenon, <1>5, UnitsFacts

(* A child of the end of a path makes it heavier.                          *)
LEMMA ChildWeighs ==
  ASSUME NEW b \in Block \ {Genesis}
  PROVE  ChainWeight(Path(Parent[b])) < ChainWeight(Path(b))
<1>. DEFINE p == Parent[b]
<1>1. p \in Block /\ Path(b) = {b} \cup Path(p)  BY Zenon, PathStep
<1>2. b \notin Path(p)
  <2>1. Height[b] = Height[p] + 1  BY Zenon, TreeAssumption
  <2>2. b \in Path(p) => Height[b] <= Height[p] /\ Height[p] \in Nat
    BY Zenon, <1>1, PathHeights
  <2>. QED  BY <2>1, <2>2
<1>3. Path(b) = Path(p) \cup {b} /\ Path(p) \cap {b} = {}
  BY Zenon, <1>1, <1>2
<1>4. ChainWeight(Path(b)) = ChainWeight(Path(p)) + ChainWeight({b})
  BY Zenon, <1>1, <1>3, WeightsAdd, FinitePaths, FS_Singleton
<1>5. ChainWeight({b}) \in Nat \ {0} /\ ChainWeight(Path(p)) \in Nat
  BY Zenon, <1>1, WeightOfOne, Weights, FinitePaths
<1>. HIDE DEF p
<1>6. ChainWeight(Path(p)) < ChainWeight(Path(b))  BY <1>4, <1>5
<1>. QED  BY Zenon, <1>6 DEF p


-----------------------------------------------------------------------------
(* The steps that depend on weights.                                       *)

(* Without checkpoints, weight decides.                                    *)
LEMMA WeightDecides ==
  ASSUME FInv, NoCheckpoints, NEW b \in Block \ {Genesis}
  PROVE  AltWins(b, None) <=> /\ Height[Front(b)] < Height[top] + 1
                              /\ ChainWeight(Prevs(b) \cup {b})
                                   > ChainWeight(MainFrom(Front(b)))
<1>0. TypeOK /\ alt \subseteq Block \ {Genesis} /\ Prevs(b) \subseteq alt
  BY Zenon, PrevsFacts DEF FInv, TypeOK
<1>1. Cardinality({}) = 0  BY Zenon, FS_EmptySet
<1>2. AltCheckpoints(b, None) = 0
  <2>1. {a \in Prevs(b) : CheckpointOf(a) # None} = {}
    BY Zenon, <1>0 DEF NoCheckpoints, CheckpointOf
  <2>2. AltCheckpoints(b, None) = Cardinality({}) + 0
    BY Zenon, <2>1 DEF AltCheckpoints
  <2>. QED  BY <1>1, <2>2
<1>3. MainCheckpoints(b) = 0
  <2>1. \A a \in Prevs(b) \cup {b} : Height[Genesis] # Height[a]
    <3>1. \A a \in Prevs(b) \cup {b} : /\ Height[Genesis] < Height[a]
                                       /\ Height[a] \in Nat /\ Height[Genesis] \in Nat
      BY Zenon, <1>0, Heights, Basics
    <3>. QED  BY <3>1
  <2>2. {a \in Prevs(b) \cup {b} : Conflicts(a)} = {}
    BY Zenon, <2>1 DEF Conflicts, NoCheckpoints
  <2>. QED  BY Zenon, <1>1, <2>2 DEF MainCheckpoints
<1>4. ~(0 > 0)  OBVIOUS
<1>. QED  BY Zenon, <1>2, <1>3, <1>4 DEF AltWins


(* The main chain and what it outweighs.                                   *)
LEMMA MainChainFacts ==
  ASSUME FInv, RInv
  PROVE  /\ chain = Path(top) /\ top \in Block /\ IsFiniteSet(chain)
         /\ chain \subseteq Block /\ ChainWeight(chain) \in Nat
<1>1. top \in Block /\ chain = Path(top)
  BY Zenon, Basics DEF FInv, RInv, PathInv, ChainIsPath
<1>2. /\ IsFiniteSet(Path(top)) /\ Path(top) \subseteq Block
      /\ ChainWeight(Path(top)) \in Nat
  BY Zenon, <1>1, FinitePaths
<1>. QED  BY Zenon, <1>1, <1>2

(* The main chain below the fork of a switch.                              *)
LEMMA ForkPath ==
  ASSUME FInv, RInv
  PROVE  Path(fork) \subseteq chain
<1>1. fork \in Path(top) /\ chain = Path(top) /\ top \in Block
  BY Zenon, MainChainFacts DEF FInv, TypeOK
<1>2. PICK x \in Path(top) : x = fork  BY Zenon, <1>1
<1>3. Path(x) = {y \in Path(top) : Height[y] <= Height[x]}
  BY Zenon, <1>1, PathPrefix
<1>. QED  BY Zenon, <1>1, <1>2, <1>3

LEMMA HeavierStill ==
  ASSUME alt \subseteq Block, NEW S, NEW T, Outweighs(S), alt' \subseteq alt,
         ChainWeight(S) \in Nat, ChainWeight(T) \in Nat, ChainWeight(S) <= ChainWeight(T)
  PROVE  \A a \in alt' : Sound(a) => ChainWeight(Path(a)) <= ChainWeight(T)
<1>. SUFFICES ASSUME NEW a \in alt', Sound(a)
              PROVE  ChainWeight(Path(a)) <= ChainWeight(T)
  OBVIOUS
<1>1. ChainWeight(Path(a)) <= ChainWeight(S)  BY Zenon DEF Outweighs
<1>2. ChainWeight(Path(a)) \in Nat  BY Zenon, FinitePaths
<1>. QED  BY <1>1, <1>2

LEMMA AddToMainChainWeighs ==
  ASSUME FInv, RInv, WeightInv, FInv', RInv', byWeight',
         NEW b \in Block \ {Genesis}, NEW c \in Offered(b), AddToMainChain(b, c)
  PROVE  WeightInv'
<1>0. /\ mode = "idle" /\ mode' = mode /\ altcp' = altcp /\ given' = given
      /\ alt' = alt /\ chain \subseteq chain'
  BY Zenon DEF AddToMainChain, Extend, chainVars, altVars, switchVars
<1>1. byWeight /\ cps' \subseteq cps
  <2>1. CASE Extend(b, c) /\ byWeight' = (byWeight /\ c = None)
    <3>1. byWeight /\ c = None  BY Zenon, <2>1
    <3>. QED  BY Zenon, <2>1, <3>1, NoneAdded DEF Extend
  <2>2. CASE AbortBlock(b, c) /\ UNCHANGED <<chainVars, byWeight>>
    <3>1. TypeOK /\ CpInv  BY Zenon DEF FInv
    <3>2. /\ b \in Block /\ Height[b] = Height[top] + 1
          /\ Height[top] \in Nat /\ Height[Genesis] <= Height[top]
      BY Zenon, <3>1, Basics, TreeAssumption DEF AddToMainChain
    <3>3. Height[top] <= Height[b] /\ Height[Genesis] < Height[b]
      BY <3>1, <3>2, Basics
    <3>. QED  BY Zenon, <2>2, <3>1, <3>2, <3>3, Abort, OfferedFacts
  <2>. QED  BY Zenon, <2>1, <2>2 DEF AddToMainChain
<1>2. NoCheckpoints /\ Outweighs(chain)  BY Zenon, <1>0, <1>1 DEF WeightInv
<1>3. NoCheckpoints'
  <2>1. \A d \in Block : altcp'[d] = None /\ given'[d] = None
    BY Zenon, <1>0, <1>2 DEF NoCheckpoints
  <2>. QED  BY Zenon, <1>1, <1>2, <2>1, NoneStored
<1>4. Outweighs(chain)'
  <2>1. ChainWeight(chain) \in Nat  BY Zenon, MainChainFacts
  <2>2. chain' \subseteq Block /\ IsFiniteSet(chain') /\ ChainWeight(chain') \in Nat
    <3>1. top' \in Block /\ chain' = Path(top')
      BY Zenon DEF FInv, TypeOK, RInv, PathInv, ChainIsPath
    <3>. QED  BY Zenon, <3>1, FinitePaths
  <2>3. PICK S, T : S = chain /\ T = chain'  OBVIOUS
  <2>4. ChainWeight(S) <= ChainWeight(T)
    BY Zenon, <1>0, <2>2, <2>3, WeightsGrow
  <2>5. alt \subseteq Block  BY Zenon DEF FInv, TypeOK
  <2>6. \A a \in alt' : Sound(a) => ChainWeight(Path(a)) <= ChainWeight(T)
    BY Zenon, <1>0, <1>2, <2>1, <2>2, <2>3, <2>4, <2>5, HeavierStill
  <2>. QED  BY Zenon, <2>3, <2>6 DEF Outweighs
<1>5. mode' # "connect" /\ mode' # "restore"  BY <1>0
<1>. QED  BY Zenon, <1>3, <1>4, <1>5 DEF WeightInv

(* The weights above the fork differ as those of the whole chains do.      *)
LEMMA Compared ==
  ASSUME FInv, RInv, mode = "idle", NEW b \in Block \ {Genesis}, Acceptable(b)
  PROVE  /\ ChainWeight(Prevs(b) \cup {b}) \in Nat
         /\ ChainWeight(MainFrom(Front(b))) \in Nat
         /\ IsFiniteSet(MainFrom(Front(b)))
         /\ ChainWeight(Prevs(b) \cup {b}) <= ChainWeight(MainFrom(Front(b)))
              => ChainWeight(Path(b)) <= ChainWeight(chain)
<1>1. PICK f : f = Parent[Front(b)]  OBVIOUS
<1>2. PICK R, M, C : R = Prevs(b) \cup {b} /\ M = MainFrom(Front(b)) /\ C = chain
  BY Zenon
<1>3. /\ f \in Block /\ R \subseteq Path(b)
      /\ Path(b) = Path(f) \cup R /\ Path(f) \cap R = {}
      /\ C = Path(f) \cup M /\ Path(f) \cap M = {}
  <2>1. /\ f \in Block /\ Prevs(b) \cup {b} \subseteq Path(b)
        /\ Path(b) = Path(f) \cup (Prevs(b) \cup {b})
    BY Zenon, <1>1, Splits
  <2>2. /\ Path(f) \cap (Prevs(b) \cup {b}) = {}
        /\ chain = Path(f) \cup MainFrom(Front(b))
    BY SMT, <1>1, Splits
  <2>3. Path(f) \cap MainFrom(Front(b)) = {}
    BY SMT, <1>1, Splits
  <2>. QED  BY Zenon, <1>2, <2>1, <2>2, <2>3
<1>4. /\ IsFiniteSet(Path(b)) /\ Path(b) \subseteq Block
      /\ IsFiniteSet(Path(f)) /\ Path(f) \subseteq Block
  BY Zenon, <1>3, FinitePaths
<1>5. C \subseteq Block /\ IsFiniteSet(C)  BY Zenon, <1>2, MainChainFacts
<1>6. /\ IsFiniteSet(R) /\ R \subseteq Block
      /\ IsFiniteSet(M) /\ M \subseteq Block
  <2>1. M \subseteq C /\ R \subseteq Path(b)  BY Zenon, <1>3
  <2>2. IsFiniteSet(R)  BY Zenon, <1>4, <2>1, FS_Subset
  <2>3. IsFiniteSet(M)  BY Zenon, <1>5, <2>1, FS_Subset
  <2>. QED  BY Zenon, <1>4, <1>5, <2>1, <2>2, <2>3
<1>7. /\ ChainWeight(Path(b)) = ChainWeight(Path(f)) + ChainWeight(R)
      /\ ChainWeight(C) = ChainWeight(Path(f)) + ChainWeight(M)
  BY Zenon, <1>3, <1>4, <1>6, WeightsAdd
<1>8. ChainWeight(Path(f)) \in Nat /\ ChainWeight(R) \in Nat /\ ChainWeight(M) \in Nat
  BY Zenon, <1>4, <1>6, UnitsFacts
<1>9. ChainWeight(R) <= ChainWeight(M) => ChainWeight(Path(b)) <= ChainWeight(C)
  BY <1>7, <1>8
<1>. QED  BY Zenon, <1>2, <1>6, <1>8, <1>9

(* A block that does not win ends no heavier chain, also where the main    *)
(* chain has no block to compare.                                          *)
LEMMA NotHeavier ==
  ASSUME FInv, RInv, NoCheckpoints, Outweighs(chain), mode = "idle",
         NEW b \in Block \ {Genesis}, Acceptable(b), ~AltWins(b, None), Sound(b)
  PROVE  ChainWeight(Path(b)) <= ChainWeight(chain)
<1>0. TypeOK /\ top \in Block /\ chain = Path(top)
  BY Zenon, MainChainFacts DEF FInv
<1>. DEFINE g == Front(b)
<1>1. PICK f : f = Parent[g]  OBVIOUS
<1>2. f \in chain /\ f \in Block /\ g \in Path(b)
  BY Zenon, <1>1, Splits
<1>3. /\ Prevs(b) \subseteq alt /\ g \in Block \ {Genesis}
      /\ Height[g] = Height[f] + 1
  BY Zenon, <1>0, <1>1, FrontFacts
<1>4. CASE Height[g] < Height[top] + 1
  <2>1. ~(ChainWeight(Prevs(b) \cup {b}) > ChainWeight(MainFrom(g)))
    BY Zenon, <1>4, WeightDecides
  <2>2. ChainWeight(Prevs(b) \cup {b}) \in Nat /\ ChainWeight(MainFrom(g)) \in Nat
    BY Zenon, Compared
  <2>3. ChainWeight(Prevs(b) \cup {b}) <= ChainWeight(MainFrom(g))
    BY <2>1, <2>2
  <2>. QED  BY Zenon, <2>3, Compared
<1>5. CASE ~(Height[g] < Height[top] + 1)
  <2>1. f = top
    <3>1. /\ Height[f] \in Nat /\ Height[top] \in Nat /\ Height[f] <= Height[top]
          /\ f \in Path(top) /\ top \in Path(top)
      BY Zenon, <1>0, <1>2, PathHeights, PathFacts DEF HoldsPath
    <3>. HIDE DEF g
    <3>2. Height[f] = Height[top]  BY <1>3, <1>5, <3>1
    <3>. QED  BY Zenon, <1>0, <3>1, <3>2, OnePerHeight
  <2>2. Parent[b] # top  BY Zenon DEF Acceptable, Alternative
  <2>3. Parent[b] \in alt
    <3>1. Parent[b] \notin alt => g = b  BY Zenon DEF Front
    <3>. QED  BY Zenon, <1>1, <2>1, <2>2, <3>1
  <2>4. g \in alt
    <3>1. g = Lowest(Prevs(b))  BY Zenon, <2>3 DEF Front
    <3>2. Prevs(b) \in SUBSET Block /\ Prevs(b) # {}
      BY Zenon, <1>0, <1>3, <2>3, PrevsFacts DEF TypeOK
    <3>. QED  BY Zenon, <1>3, <3>1, <3>2, LowestExists
  <2>. HIDE DEF g
  <2>5. Sound(g)
    <3>1. Path(g) \subseteq Path(b)
      <4>1. PICK y \in Path(b) : y = g  BY Zenon, <1>2
      <4>2. Path(y) = {x \in Path(b) : Height[x] <= Height[y]}
        BY Zenon, PathPrefix
      <4>. QED  BY Zenon, <4>1, <4>2
    <3>. QED  BY Zenon, <3>1 DEF Sound
  <2>6. ChainWeight(Path(g)) <= ChainWeight(Path(top))
    BY Zenon, <1>0, <2>4, <2>5 DEF Outweighs
  <2>7. PICK y \in Block \ {Genesis} : y = g  BY Zenon, <1>3
  <2>8. ChainWeight(Path(Parent[y])) < ChainWeight(Path(y))
    BY Zenon, ChildWeighs
  <2>9. ChainWeight(Path(top)) < ChainWeight(Path(g))
    BY Zenon, <1>1, <2>1, <2>7, <2>8
  <2>10. ChainWeight(Path(top)) \in Nat /\ ChainWeight(Path(g)) \in Nat
    BY Zenon, <1>0, <1>3, FinitePaths
  <2>. QED  BY <2>6, <2>9, <2>10
<1>. QED  BY Zenon, <1>4, <1>5

LEMMA KeepMainChainWeighs ==
  ASSUME FInv, RInv, WeightInv, FInv', byWeight',
         NEW b \in Block \ {Genesis}, NEW c \in Offered(b), KeepMainChain(b, c)
  PROVE  WeightInv'
<1>1. /\ mode = "idle" /\ mode' = mode /\ chain' = chain /\ cps' = cps
      /\ given' = given /\ Acceptable(b) /\ alt' = alt \cup {b}
      /\ altcp' = [altcp EXCEPT ![b] = c] /\ byWeight' = (byWeight /\ c = None)
      /\ ~AltWins(b, c) \/ b \in Flaky
  BY Zenon DEF KeepMainChain, Acceptable, Alternative, StoreAlt, chainVars, cpVars,
               switchVars
<1>2. byWeight /\ c = None  BY Zenon, <1>1
<1>3. NoCheckpoints /\ Outweighs(chain)  BY Zenon, <1>1, <1>2 DEF WeightInv
<1>4. NoCheckpoints'
  BY Zenon, <1>1, <1>2, <1>3 DEF NoCheckpoints, FInv, TypeOK
<1>5. Outweighs(chain)'
  <2>1. ASSUME Sound(b) PROVE ChainWeight(Path(b)) <= ChainWeight(chain)
    <3>1. b \in Path(b)  BY Zenon, PathFacts DEF HoldsPath
    <3>2. b \notin Flaky  BY Zenon, <2>1, <3>1 DEF Sound
    <3>. QED  BY Zenon, <1>1, <1>2, <1>3, <2>1, <3>2, NotHeavier
  <2>. QED  BY Zenon, <1>1, <1>3, <2>1 DEF Outweighs
<1>6. mode' # "connect" /\ mode' # "restore"  BY <1>1
<1>. QED  BY Zenon, <1>4, <1>5, <1>6 DEF WeightInv


LEMMA BeginSwitchWeighs ==
  ASSUME FInv, RInv, WeightInv, FInv', byWeight',
         NEW b \in Block \ {Genesis}, NEW c \in Offered(b), BeginSwitch(b, c)
  PROVE  WeightInv'
<1>0. TypeOK  BY Zenon DEF FInv
<1>. DEFINE f == Parent[Front(b)]
            R == Prevs(b) \cup {b}
            M == MainFrom(Front(b))
<1>1. /\ mode = "idle" /\ mode' = "connect" /\ Acceptable(b) /\ AltWins(b, c)
      /\ alt' = alt \cup {b} /\ altcp' = [altcp EXCEPT ![b] = c]
      /\ byWeight' = (byWeight /\ c = None)
      /\ fork' = f /\ chosen' = R /\ left' = R
      /\ original' = {a \in chain : Height[a] > Height[f]}
      /\ CheckpointsDetach(Height[f] + 1)
  BY Zenon DEF BeginSwitch, Acceptable, Alternative, StoreAlt
<1>2. byWeight /\ c = None  BY Zenon, <1>1
<1>3. NoCheckpoints /\ Outweighs(chain)  BY Zenon, <1>1, <1>2 DEF WeightInv
<1>4. /\ f \in Block /\ R \subseteq Path(b)
      /\ \A x \in R : Height[f] < Height[x]
  BY Zenon, <1>1, Splits
<1>5. chain = Path(f) \cup M /\ M = {a \in chain : Height[a] > Height[f]}
  <2>1. PICK g : g = f  OBVIOUS
  <2>2. chain = Path(g) \cup MainFrom(Front(b))  BY SMT, <1>1, <2>1, Splits
  <2>3. MainFrom(Front(b)) = {a \in chain : Height[a] > Height[g]}
    BY SMT, <1>1, <2>1, Splits
  <2>. QED  BY Zenon, <2>1, <2>2, <2>3
<1>6. original' = M /\ Path(fork') \cup original' = chain
  BY Zenon, <1>1, <1>5
<1>7. NoCheckpoints'
  <2>1. cps' \subseteq cps  BY Zenon, <1>1 DEF CheckpointsDetach, DetachFrom
  <2>2. ASSUME NEW a \in Block PROVE altcp'[a] = None
    BY Zenon, <1>0, <1>1, <1>2, <1>3 DEF NoCheckpoints, TypeOK
  <2>3. ASSUME NEW a \in Block PROVE given'[a] = None
    <3>1. given'[a] = CASE a = b -> c
                        [] a \in Prevs(b) -> CheckpointOf(a)
                        [] a \in original' -> CheckpointAt(Height[a])
                        [] OTHER -> None
      BY Zenon DEF BeginSwitch
    <3>2. a \in Prevs(b) => CheckpointOf(a) = None
      <4>1. a \in Prevs(b) => a # Genesis
        BY Zenon, <1>0, PrevsFacts DEF TypeOK
      <4>. QED  BY Zenon, <1>3, <4>1 DEF CheckpointOf, NoCheckpoints
    <3>3. ASSUME a \in original' PROVE CheckpointAt(Height[a]) = None
      <4>1. Height[a] > Height[f]  BY Zenon, <1>1, <3>3
      <4>2. /\ Height[a] \in Nat /\ Height[f] \in Nat /\ Height[Genesis] \in Nat
            /\ Height[Genesis] <= Height[f]
        BY Zenon, <1>0, <1>4, Heights, Basics
      <4>. HIDE DEF f
      <4>3. Height[Genesis] # Height[a]  BY <4>1, <4>2
      <4>. QED  BY Zenon, <1>3, <4>3 DEF NoCheckpoints, CheckpointAt
    <3>. QED  BY Zenon, <1>2, <3>1, <3>2, <3>3
  <2>. QED  BY Zenon, <1>3, <2>1, <2>2, <2>3, NoneStored
<1>8. IsFiniteSet(original') /\ chosen' \subseteq Block
  <2>1. IsFiniteSet(M)  BY Zenon, <1>1, Compared
  <2>2. chosen' \subseteq Block  BY Zenon DEF FInv, TypeOK
  <2>. QED  BY Zenon, <1>6, <2>1, <2>2
<1>9. ChainWeight(original') < ChainWeight(chosen')
  <2>1. ChainWeight(R) > ChainWeight(M)
    BY Zenon, <1>1, <1>2, <1>3, WeightDecides
  <2>2. ChainWeight(R) \in Nat /\ ChainWeight(M) \in Nat
    BY Zenon, <1>1, Compared
  <2>. HIDE DEF R, M
  <2>3. ChainWeight(M) < ChainWeight(R)  BY <2>1, <2>2
  <2>. QED  BY Zenon, <1>1, <1>6, <2>3
<1>10. \A a \in alt' : Sound(a) =>
          \/ ChainWeight(Path(a)) <= ChainWeight(Path(fork') \cup original')
          \/ (a \in chosen' /\ chosen' \subseteq Path(a))
  <2>1. \A a \in alt : Sound(a) =>
           ChainWeight(Path(a)) <= ChainWeight(Path(fork') \cup original')
    BY Zenon, <1>3, <1>6 DEF Outweighs
  <2>2. b \in chosen' /\ chosen' \subseteq Path(b)  BY Zenon, <1>1, <1>4
  <2>. QED  BY Zenon, <1>1, <2>1, <2>2
<1>11. Chosen'
  <2>1. \A x \in chosen' : Height[fork'] < Height[x]  BY Zenon, <1>1, <1>4
  <2>2. chosen' \subseteq chain' \cup left'  BY Zenon, <1>1
  <2>. QED  BY Zenon, <1>8, <1>9, <1>10, <2>1, <2>2 DEF Chosen, Before
<1>12. mode' # "idle" /\ mode' # "restore"  BY <1>1
<1>. QED  BY Zenon, <1>7, <1>11, <1>12 DEF WeightInv

(* The chain that a switch ends with is heavier than the one it started    *)
(* from.                                                                   *)
LEMMA SwitchGains ==
  ASSUME FInv, RInv, FInv', RInv', Chosen, ConnectNext, left = {NextToConnect}
  PROVE  /\ ChainWeight(Before) \in Nat /\ ChainWeight(chain') \in Nat
         /\ ChainWeight(Before) < ChainWeight(chain')
<1>1. chain' = chain \cup left  BY Zenon DEF ConnectNext, Extend
<1>2. PICK P, O, K, C : P = Path(fork) /\ O = original /\ K = chosen /\ C = chain'
  OBVIOUS
<1>3. /\ P \subseteq Block /\ IsFiniteSet(P) /\ ChainWeight(P) \in Nat
      /\ C \subseteq Block /\ IsFiniteSet(C) /\ ChainWeight(C) \in Nat
  <2>1. fork \in Block /\ top' \in Block /\ chain' = Path(top')
    BY Zenon DEF FInv, TypeOK, RInv, PathInv, ChainIsPath
  <2>. QED  BY Zenon, <1>2, <2>1, FinitePaths
<1>4. P \cup K \subseteq C
  <2>1. P \subseteq chain  BY Zenon, <1>2, ForkPath
  <2>2. K \subseteq chain'  BY Zenon, <1>1, <1>2 DEF Chosen
  <2>. QED  BY Zenon, <1>1, <1>2, <2>1, <2>2
<1>5. P \cap K = {} /\ P \cap O = {}
  <2>1. \A x \in K \cup O : Height[fork] < Height[x] /\ x \in Block
    BY Zenon, <1>2 DEF Chosen, FInv, SwitchInv, TypeOK
  <2>2. \A x \in P : Height[x] \in Nat /\ Height[fork] \in Nat /\ Height[x] <= Height[fork]
    BY Zenon, <1>2, PathHeights DEF FInv, TypeOK
  <2>3. \A x \in P : ~(Height[fork] < Height[x])  BY <2>2
  <2>. QED  BY Zenon, <2>1, <2>3
<1>6. O \subseteq Block /\ IsFiniteSet(O) /\ K \subseteq Block /\ IsFiniteSet(K)
  <2>1. K \subseteq C  BY Zenon, <1>4
  <2>2. IsFiniteSet(K)  BY Zenon, <1>3, <2>1, FS_Subset
  <2>. QED  BY Zenon, <1>2, <2>2 DEF Chosen, FInv, TypeOK
<1>7. ChainWeight(P \cup K) <= ChainWeight(C)
  BY Zenon, <1>3, <1>4, WeightsGrow
<1>8. /\ ChainWeight(P \cup K) = ChainWeight(P) + ChainWeight(K)
      /\ ChainWeight(P \cup O) = ChainWeight(P) + ChainWeight(O)
  BY Zenon, <1>3, <1>5, <1>6, WeightsAdd
<1>9. ChainWeight(O) < ChainWeight(K)  BY Zenon, <1>2 DEF Chosen
<1>10. ChainWeight(O) \in Nat /\ ChainWeight(K) \in Nat
  BY Zenon, <1>6, UnitsFacts
<1>11. /\ ChainWeight(P \cup O) \in Nat /\ ChainWeight(C) \in Nat
       /\ ChainWeight(P \cup O) < ChainWeight(C)
  BY <1>3, <1>7, <1>8, <1>9, <1>10
<1>. QED  BY Zenon, <1>2, <1>11 DEF Before

LEMMA ConnectNextWeighs ==
  ASSUME FInv, RInv, WeightInv, FInv', RInv', byWeight', ConnectNext
  PROVE  WeightInv'
<1>. DEFINE b == NextToConnect
<1>1. mode = "connect" /\ Extend(b, given[b]) /\ byWeight' = byWeight
  BY Zenon DEF ConnectNext
<1>2. mode # "idle" /\ mode # "restore"  BY <1>1
<1>. HIDE DEF b
<1>3. b \in left /\ b \in Block /\ chain' = chain \cup {b}
  BY Zenon, <1>1, <1>2, ConnectRow DEF b
<1>4. NoCheckpoints /\ Chosen  BY Zenon, <1>1 DEF WeightInv
<1>5. cps' \subseteq cps
  <2>1. given[b] = None  BY Zenon, <1>3, <1>4 DEF NoCheckpoints
  <2>. QED  BY Zenon, <1>1, <2>1, NoneAdded DEF Extend
<1>6. CASE left = {b}
  <2>1. /\ alt' = alt \ chosen /\ mode' = "idle" /\ given' = [a \in Block |-> None]
        /\ altcp' = [a \in Block |-> IF a \in chosen THEN None ELSE altcp[a]]
    BY Zenon, <1>6 DEF ConnectNext, EndSwitch, b
  <2>2. \A a \in Block : altcp'[a] = None /\ given'[a] = None
    BY Zenon, <1>4, <2>1 DEF NoCheckpoints
  <2>3. NoCheckpoints'  BY Zenon, <1>4, <1>5, <2>2, NoneStored
  <2>4. /\ ChainWeight(Before) \in Nat /\ ChainWeight(chain') \in Nat
        /\ ChainWeight(Before) < ChainWeight(chain')
    BY Zenon, <1>4, <1>6, SwitchGains DEF b
  <2>5. PICK B, C : B = Before /\ C = chain'  OBVIOUS
  <2>6. ASSUME NEW a \in alt', Sound(a) PROVE ChainWeight(Path(a)) <= ChainWeight(C)
    <3>1. a \in alt /\ a \notin chosen /\ a \in Block
      BY Zenon, <2>1 DEF FInv, TypeOK
    <3>2. ChainWeight(Path(a)) <= ChainWeight(B)
      BY Zenon, <1>4, <2>5, <2>6, <3>1 DEF Chosen
    <3>3. ChainWeight(Path(a)) \in Nat  BY Zenon, <3>1, FinitePaths
    <3>4. /\ ChainWeight(B) \in Nat /\ ChainWeight(C) \in Nat
          /\ ChainWeight(B) < ChainWeight(C)
      BY Zenon, <2>4, <2>5
    <3>. QED  BY <3>2, <3>3, <3>4
  <2>7. Outweighs(chain)'  BY Zenon, <2>5, <2>6 DEF Outweighs
  <2>8. mode' # "connect" /\ mode' # "restore"  BY <2>1
  <2>. QED  BY Zenon, <2>3, <2>7, <2>8 DEF WeightInv
<1>7. CASE left # {b}
  <2>1. /\ left' = left \ {b} /\ alt' = alt /\ altcp' = altcp /\ mode' = mode
        /\ fork' = fork /\ chosen' = chosen /\ original' = original /\ given' = given
    BY Zenon, <1>7 DEF ConnectNext, b, altVars
  <2>2. \A a \in Block : altcp'[a] = None /\ given'[a] = None
    BY Zenon, <1>4, <2>1 DEF NoCheckpoints
  <2>3. NoCheckpoints'  BY Zenon, <1>4, <1>5, <2>2, NoneStored
  <2>4. Chosen'  BY Zenon, <1>3, <1>4, <2>1 DEF Chosen, Before
  <2>. QED  BY Zenon, <1>2, <2>1, <2>3, <2>4 DEF WeightInv
<1>. QED  BY Zenon, <1>6, <1>7


LEMMA RestoreNextWeighs ==
  ASSUME FInv, RInv, WeightInv, FInv', RInv', byWeight', RestoreNext
  PROVE  WeightInv'
<1>. DEFINE b == NextToConnect
<1>1. /\ mode = "restore" /\ Extend(b, given[b]) /\ byWeight' = byWeight
      /\ alt' = alt /\ altcp' = altcp
  BY Zenon DEF RestoreNext, altVars
<1>2. mode # "idle" /\ mode # "connect"  BY <1>1
<1>. HIDE DEF b
<1>3. b \in left /\ b \in Block /\ chain' = chain \cup {b}
  BY Zenon, <1>1, <1>2, ConnectRow DEF b
<1>4. NoCheckpoints /\ Outweighs(Before)  BY Zenon, <1>1 DEF WeightInv
<1>5. cps' \subseteq cps /\ \A a \in Block : altcp'[a] = None
  <2>1. given[b] = None  BY Zenon, <1>3, <1>4 DEF NoCheckpoints
  <2>. QED  BY Zenon, <1>1, <1>4, <2>1, NoneAdded DEF Extend, NoCheckpoints
<1>6. CASE left = {b}
  <2>1. mode' = "idle" /\ given' = [a \in Block |-> None]
    BY Zenon, <1>6 DEF RestoreNext, EndSwitch, b
  <2>2. NoCheckpoints'  BY Zenon, <1>4, <1>5, <2>1, NoneStored
  <2>3. PICK S, C : S = Before /\ C = chain'  OBVIOUS
  <2>4. C \subseteq Block /\ IsFiniteSet(C) /\ ChainWeight(C) \in Nat
    <3>1. top' \in Block /\ chain' = Path(top')
      BY Zenon DEF FInv, TypeOK, RInv, PathInv, ChainIsPath
    <3>. QED  BY Zenon, <2>3, <3>1, FinitePaths
  <2>5. S \subseteq C
    <3>1. Path(fork) \subseteq chain  BY Zenon, ForkPath
    <3>2. original \subseteq chain'  BY Zenon, <2>1, RollbackEnds
    <3>. QED  BY Zenon, <1>3, <2>3, <3>1, <3>2 DEF Before
  <2>6. ChainWeight(S) <= ChainWeight(C) /\ ChainWeight(S) \in Nat
    <3>1. IsFiniteSet(S) /\ ChainWeight(S) <= ChainWeight(C)
      BY Zenon, <2>4, <2>5, WeightsGrow
    <3>2. S \subseteq Block  BY Zenon, <2>4, <2>5
    <3>. QED  BY Zenon, <3>1, <3>2, UnitsFacts
  <2>7. \A a \in alt' : Sound(a) => ChainWeight(Path(a)) <= ChainWeight(C)
    <3>1. alt \subseteq Block /\ alt' \subseteq alt  BY Zenon, <1>1 DEF FInv, TypeOK
    <3>. QED  BY Zenon, <1>4, <2>3, <2>4, <2>6, <3>1, HeavierStill
  <2>8. Outweighs(chain)'  BY Zenon, <2>3, <2>7 DEF Outweighs
  <2>9. mode' # "connect" /\ mode' # "restore"  BY <2>1
  <2>. QED  BY Zenon, <2>2, <2>8, <2>9 DEF WeightInv
<1>7. CASE left # {b}
  <2>1. mode' = mode /\ fork' = fork /\ original' = original /\ given' = given
    BY Zenon, <1>7 DEF RestoreNext, b
  <2>2. \A a \in Block : given'[a] = None  BY Zenon, <1>4, <2>1 DEF NoCheckpoints
  <2>3. NoCheckpoints'  BY Zenon, <1>4, <1>5, <2>2, NoneStored
  <2>4. Outweighs(Before)'  BY Zenon, <1>1, <1>4, <2>1 DEF Outweighs, Before
  <2>. QED  BY Zenon, <1>2, <2>1, <2>3, <2>4 DEF WeightInv
<1>. QED  BY Zenon, <1>6, <1>7


LEMMA WeightNext ==
  ASSUME FInv, RInv, WeightInv, [Next]_vars, FInv', RInv'
  PROVE  WeightInv'
<1>0. SUFFICES ASSUME byWeight' PROVE WeightInv'
  BY Zenon DEF WeightInv
<1>1. CASE UNCHANGED vars
  <2>1. /\ chain' = chain /\ alt' = alt /\ altcp' = altcp /\ cps' = cps
        /\ mode' = mode /\ fork' = fork /\ chosen' = chosen /\ left' = left
        /\ original' = original /\ given' = given /\ byWeight' = byWeight
    BY Zenon, <1>1 DEF vars
  <2>2. NoCheckpoints => NoCheckpoints'  BY Zenon, <2>1 DEF NoCheckpoints
  <2>3. Chosen => Chosen'  BY Zenon, <2>1 DEF Chosen, Before
  <2>4. /\ Outweighs(chain) => Outweighs(chain)'
        /\ Outweighs(Before) => Outweighs(Before)'
    BY Zenon, <2>1 DEF Outweighs, Before
  <2>. QED  BY Zenon, <2>1, <2>2, <2>3, <2>4 DEF WeightInv
<1>2. ASSUME NEW b \in Block \ {Genesis}, NEW c \in Offered(b), AddToMainChain(b, c)
      PROVE  WeightInv'
  BY Zenon, <1>0, <1>2, AddToMainChainWeighs
<1>3. ASSUME NEW b \in Block \ {Genesis}, NEW c \in Offered(b), KeepMainChain(b, c)
      PROVE  WeightInv'
  BY Zenon, <1>0, <1>3, KeepMainChainWeighs
<1>4. ASSUME NEW b \in Block \ {Genesis}, NEW c \in Offered(b), BeginSwitch(b, c)
      PROVE  WeightInv'
  BY Zenon, <1>0, <1>4, BeginSwitchWeighs
<1>5. CASE Restart \/ \E b \in Block \ {Genesis} : RefuseAlternative(b)
  BY Zenon, <1>0, <1>5, FewerWeigh
<1>6. CASE ConnectNext \/ ConnectFails \/ RestoreNext
  BY Zenon, <1>0, <1>6, ConnectNextWeighs, ConnectFailsWeighs, RestoreNextWeighs
<1>7. CASE \/ RestoreFails
           \/ \E c \in Signed : FormCheckpoint(c)
           \/ \E b \in chain : PopBlocks(b)
  BY Zenon, <1>0, <1>7 DEF RestoreFails, FormCheckpoint, PopBlocks
<1>. QED  BY Zenon, <1>1, <1>2, <1>3, <1>4, <1>5, <1>6, <1>7 DEF Next

LEMMA WeightInvariant == Spec => []WeightInv
<1>1. FInv /\ RInv /\ WeightInv /\ [Next]_vars /\ FInv' /\ RInv' => WeightInv'
  BY WeightNext
<1>. QED  BY <1>1, WeightInit, ForkInvariant, RowInvariant, PTL DEF Spec

\* handle_alternative_block compares only what is above the fork, block by
\* block, and skips the comparison where the main chain has no block; without
\* checkpoints and pops the main chain is still the heaviest the node holds.
THEOREM HeaviestChainWins == Spec => []HeaviestChain
<1>1. WeightInv => HeaviestChain
  BY Zenon DEF WeightInv, HeaviestChain, Outweighs, Sound
<1>. QED  BY <1>1, WeightInvariant, PTL

-----------------------------------------------------------------------------
(* A switch is atomic: ForkChoice implements MainChain.                    *)

\* A switch is all or nothing: although switch_to_alternative_blockchain and
\* rollback_blockchain_switching pop and connect the blocks one by one, what the
\* next handler finds is the old chain or the whole of the new one, which is
\* heavier when only weight decides, with every block that is locked in; and
\* blocks get lost only when one of the old chain does not connect again.
THEOREM SwitchesAreAtomic == Spec => SwitchIsAtomic
<1>1. Init => Main!Init
  <2>. SUFFICES ASSUME Init PROVE Main!Init  OBVIOUS
  <2>1. /\ top = Genesis /\ mode = "idle" /\ locked = {} /\ byWeight = TRUE
        /\ pops = 0 /\ restarts = 0
    BY Zenon DEF Init
  <2>2. Tip = Genesis  BY Zenon, <2>1 DEF Tip
  <2>3. pops + restarts = 0  BY <2>1
  <2>. QED  BY Zenon, <2>1, <2>2, <2>3 DEF Main!Init
<1>2. ASSUME FInv, RInv, WeightInv, FInv', RInv' PROVE Gains
  <2>1. ASSUME byWeight, ConnectNext, left = {NextToConnect}
        PROVE  ChainWeight(Before) < ChainWeight(chain')
    <3>1. Chosen  BY Zenon, <1>2, <2>1 DEF WeightInv, ConnectNext
    <3>. QED  BY Zenon, <1>2, <2>1, <3>1, SwitchGains
  <2>. QED  BY Zenon, <2>1 DEF Gains
<1>3. /\ FInv /\ RInv /\ WeightInv /\ WholeInv
      /\ FInv' /\ RInv' /\ Settled' /\ [Next]_vars
      => [Main!Next]_(Main!vars)
  BY Zenon, <1>2, MainStep
<1>. QED
  BY <1>1, <1>3, ForkInvariant, RowInvariant, WeightInvariant, WholeInvariant,
     SettledInvariant, PTL DEF Spec, SwitchIsAtomic, Main!Spec
=============================================================================
