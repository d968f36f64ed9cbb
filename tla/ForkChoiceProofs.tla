-------------------------- MODULE ForkChoiceProofs --------------------------
(***************************************************************************)
(* Locked-in blocks stay and checkpoints follow the chain, for every tree  *)
(* of blocks, every checkpoint interval and any number of reorganisations. *)
(***************************************************************************)
EXTENDS ForkChoice, WellFoundedInduction, TLAPS

-----------------------------------------------------------------------------
(* Arithmetic and extrema.                                                 *)

LEMMA Smallest ==
  ASSUME NEW T \in SUBSET Nat, T # {}
  PROVE  \E x \in T : \A y \in T : x <= y
<1>1. PICK x \in T : \A y \in T : ~ (<<y, x>> \in OpToRel(<, Nat))
  BY Zenon, WFMin, NatLessThanWellFounded
<1>2. \A y \in T : ~ (y < x)
  BY Zenon, <1>1 DEF OpToRel
<1>. QED  BY <1>2

LEMMA LowestExists ==
  ASSUME NEW S \in SUBSET Block, S # {}
  PROVE  Lowest(S) \in S /\ \A c \in S : Height[Lowest(S)] <= Height[c]
<1>. DEFINE T == {Height[c] : c \in S}
<1>1. T \in SUBSET Nat /\ T # {}
  BY TreeAssumption
<1>2. PICK x \in T : \A y \in T : x <= y
  BY Zenon, <1>1, Smallest
<1>3. \E b \in S : \A c \in S : Height[b] <= Height[c]
  BY Zenon, <1>2
<1>. QED  BY Zenon, <1>3 DEF Lowest

LEMMA HighestExists ==
  ASSUME NEW S \in SUBSET Block, S # {}, NEW h \in Nat,
         \A c \in S : Height[c] <= h
  PROVE  Highest(S) \in S /\ \A c \in S : Height[c] <= Height[Highest(S)]
<1>. DEFINE T == {h - Height[c] : c \in S}
<1>0. \A c \in S : Height[c] \in Nat
  BY TreeAssumption
<1>1. T \in SUBSET Nat /\ T # {}
  BY <1>0
<1>2. PICK x \in T : \A y \in T : x <= y
  BY Zenon, <1>1, Smallest
<1>3. PICK b \in S : x = h - Height[b]
  BY Zenon, <1>2
<1>4. ASSUME NEW c \in S PROVE Height[c] <= Height[b]
  <2>1. h - Height[b] <= h - Height[c]  BY Zenon, <1>2, <1>3
  <2>. QED  BY <1>0, <2>1
<1>5. \E a \in S : \A c \in S : Height[c] <= Height[a]
  BY Zenon, <1>4
<1>. QED  BY Zenon, <1>5 DEF Highest

(* Multiples of k are at least k apart, and their differences multiples.   *)
LEMMA Multiples ==
  ASSUME NEW k \in Nat \ {0}, NEW x \in Nat, x % k = 0
  PROVE  /\ x > 0 => x >= k
         /\ \A y \in Nat : y % k = 0 => (x - y) % k = 0
<1>1. x > 0 => x >= k
  OBVIOUS
<1>2. ASSUME NEW y \in Nat, y % k = 0 PROVE (x - y) % k = 0
  <2>. DEFINE p == x \div k
              q == y \div k
  <2>1. x = k * p  OBVIOUS
  <2>2. y = k * q  BY <1>2
  <2>3. p \in Int /\ q \in Int  OBVIOUS
  <2>4. x - y = k * (p - q)  BY <2>1, <2>2, <2>3
  <2>5. p - q \in Int  BY <2>3
  <2>6. \A d \in Int : (k * d) % k = 0  OBVIOUS
  <2>. HIDE DEF p, q
  <2>. QED  BY Zenon, <2>4, <2>5, <2>6
<1>. QED  BY Zenon, <1>1, <1>2

-----------------------------------------------------------------------------
(* The checkpoints of the database.                                        *)

\* One checkpoint for a height, at multiples of the interval, from Genesis on.
CheckpointSet(C) ==
  /\ C \subseteq Signed \cup {Genesis} /\ Genesis \in C
  /\ \A c, d \in C : Height[c] = Height[d] => c = d

\* The checkpoints that are immutable when the chain has height h.
IsImmutable(C, h, p) ==
  /\ Height[p] <= h
  /\ p = Genesis \/ \E q \in C : Height[p] < Height[q] /\ Height[q] <= h

LEMMA Heights ==
  /\ \A b \in Block : Height[b] \in Nat /\ Height[Genesis] <= Height[b]
  /\ \A b \in Block : b # Genesis => Height[Genesis] < Height[b]
  /\ \A c \in Signed \cup {Genesis} :
       c \in Block /\ Height[c] % CHECKPOINT_INTERVAL = 0
  /\ \A c \in Signed : c # Genesis /\ c # None
<1>1. \A b \in Block : Height[b] \in Nat /\ Height[Genesis] <= Height[b]
  BY TreeAssumption
<1>2. ASSUME NEW b \in Block, b # Genesis PROVE Height[Genesis] < Height[b]
  <2>1. Parent[b] \in Block /\ Height[b] = Height[Parent[b]] + 1
    BY <1>2, TreeAssumption
  <2>. QED  BY <1>1, <2>1, TreeAssumption
<1>3. \A c \in Signed \cup {Genesis} :
        c \in Block /\ Height[c] % CHECKPOINT_INTERVAL = 0
  BY Zenon, TreeAssumption, IntervalAssumption, SignedAssumption
<1>4. \A c \in Signed : c # Genesis /\ c # None
  BY Zenon, TreeAssumption, SignedAssumption
<1>. QED  BY Zenon, <1>1, <1>2, <1>3, <1>4

(* get_immutable_checkpoint returns the highest immutable checkpoint.      *)
LEMMA ImmutableCheckpoint ==
  ASSUME NEW C, CheckpointSet(C), NEW h \in Nat, Height[Genesis] <= h
  PROVE  /\ ImmutableHeight(C, h) \in Nat
         /\ \E p \in C : Height[p] = ImmutableHeight(C, h) /\ IsImmutable(C, h, p)
         /\ \A p \in C : IsImmutable(C, h, p) => Height[p] <= ImmutableHeight(C, h)
<1>. DEFINE below == {c \in C : Height[c] <= h}
            first == Highest(below)
            rest == below \ {first}
<1>1. below \in SUBSET Block /\ Genesis \in below /\ below # {}
  BY Zenon, Heights DEF CheckpointSet
<1>2. \A c \in below : Height[c] <= h
  OBVIOUS
<1>. HIDE DEF first
<1>3. first \in below /\ \A c \in below : Height[c] <= Height[first]
  BY Zenon, <1>1, <1>2, HighestExists DEF first
<1>4. ImmutableHeight(C, h) =
        IF first = Genesis THEN Height[Genesis]
        ELSE IF rest # {} THEN Height[Highest(rest)] ELSE 0
  BY Zenon DEF ImmutableHeight, first
<1>5. CASE first = Genesis
  <2>1. ImmutableHeight(C, h) = Height[Genesis]
    BY Zenon, <1>4, <1>5
  <2>2. ASSUME NEW p \in C, IsImmutable(C, h, p) PROVE p = Genesis
    <3>. SUFFICES ASSUME NEW q \in C, Height[p] < Height[q], Height[q] <= h
                  PROVE  FALSE
      BY Zenon, <2>2 DEF IsImmutable
    <3>1. Height[q] <= Height[Genesis]  BY Zenon, <1>3, <1>5
    <3>2. p \in Block /\ q \in Block  BY Zenon, Heights DEF CheckpointSet
    <3>. QED  BY <3>1, <3>2, Heights
  <2>3. Height[Genesis] \in Nat /\ Height[Genesis] <= Height[Genesis]
    BY Heights, TreeAssumption
  <2>4. Genesis \in C /\ IsImmutable(C, h, Genesis)
    BY Zenon DEF IsImmutable, CheckpointSet
  <2>. QED  BY Zenon, <2>1, <2>2, <2>3, <2>4
<1>6. CASE first # Genesis
  <2>1. rest \in SUBSET Block /\ rest # {} /\ \A c \in rest : Height[c] <= h
    BY Zenon, <1>1, <1>2, <1>6
  <2>. DEFINE second == Highest(rest)
  <2>. HIDE DEF second
  <2>2. second \in rest /\ \A c \in rest : Height[c] <= Height[second]
    BY Zenon, <2>1, HighestExists DEF second
  <2>3. ImmutableHeight(C, h) = Height[second]
    BY Zenon, <1>4, <1>6, <2>1 DEF second
  <2>4. /\ first \in Block /\ second \in Block /\ first \in C /\ second \in C
        /\ second # first /\ Height[second] <= Height[first] /\ Height[first] <= h
        /\ Height[second] <= h
    BY Zenon, <1>1, <1>3, <2>2
  <2>5. Height[second] < Height[first]
    <3>1. Height[second] # Height[first]  BY Zenon, <2>4 DEF CheckpointSet
    <3>. QED  BY <2>4, <3>1, Heights
  <2>6. IsImmutable(C, h, second)
    BY Zenon, <2>4, <2>5 DEF IsImmutable
  <2>7. ASSUME NEW p \in C, IsImmutable(C, h, p) PROVE Height[p] <= Height[second]
    <3>1. p \in below  BY Zenon, <2>7 DEF IsImmutable
    <3>2. p # first
      <4>. SUFFICES ASSUME p = first PROVE FALSE
        OBVIOUS
      <4>1. PICK q \in C : Height[first] < Height[q] /\ Height[q] <= h
        BY Zenon, <1>6, <2>7 DEF IsImmutable
      <4>2. Height[q] <= Height[first] /\ q \in Block
        BY Zenon, <1>1, <1>3, <4>1
      <4>. QED  BY <2>4, <4>1, <4>2, Heights
    <3>. QED  BY Zenon, <2>2, <3>1, <3>2
  <2>. QED  BY Zenon, <2>3, <2>4, <2>6, <2>7, Heights
<1>. QED  BY Zenon, <1>5, <1>6

(* The immutable height does not go down as long as the heights from it on *)
(* keep their checkpoints.                                                 *)
LEMMA ImmutableGrows ==
  ASSUME NEW C, NEW E, CheckpointSet(C), CheckpointSet(E),
         NEW h \in Nat, NEW k \in Nat, Height[Genesis] <= h, h <= k,
         \A c \in C : ImmutableHeight(C, h) <= Height[c]
                        => \E e \in E : Height[e] = Height[c]
  PROVE  ImmutableHeight(C, h) <= ImmutableHeight(E, k)
<1>0. Height[Genesis] <= k
  BY Heights, TreeAssumption
<1>1. PICK p \in C : Height[p] = ImmutableHeight(C, h) /\ IsImmutable(C, h, p)
  BY Zenon, ImmutableCheckpoint
<1>2. p \in Block /\ Height[p] \in Nat /\ Height[p] <= Height[p]
  <2>1. p \in Block  BY Zenon, Heights DEF CheckpointSet
  <2>. QED  BY <2>1, Heights
<1>3. PICK e \in E : Height[e] = Height[p]
  BY Zenon, <1>1, <1>2
<1>4. e \in Block /\ Height[e] <= k
  <2>1. e \in Block  BY Zenon, Heights DEF CheckpointSet
  <2>2. Height[p] <= h  BY Zenon, <1>1 DEF IsImmutable
  <2>. QED  BY <1>2, <1>3, <2>1, <2>2
<1>5. IsImmutable(E, k, e)
  <2>1. CASE p = Genesis
    <3>1. e = Genesis  BY <1>3, <1>4, <2>1, Heights
    <3>. QED  BY Zenon, <1>4, <3>1 DEF IsImmutable
  <2>2. CASE p # Genesis
    <3>1. PICK q \in C : Height[p] < Height[q] /\ Height[q] <= h
      BY Zenon, <1>1, <2>2 DEF IsImmutable
    <3>2. q \in Block  BY Zenon, Heights DEF CheckpointSet
    <3>3. Height[p] <= Height[q] /\ Height[q] <= k
      BY <1>2, <3>1, <3>2, Heights
    <3>4. PICK f \in E : Height[f] = Height[q]
      BY Zenon, <1>1, <3>3
    <3>. QED  BY Zenon, <1>3, <1>4, <3>1, <3>3, <3>4 DEF IsImmutable
  <2>. QED  BY Zenon, <2>1, <2>2
<1>6. Height[e] <= ImmutableHeight(E, k)
  BY Zenon, <1>0, <1>5, ImmutableCheckpoint
<1>. QED  BY Zenon, <1>1, <1>3, <1>6

(* update_checkpoint keeps a checkpoint for every height that has one.     *)
LEMMA StoreKeeps ==
  ASSUME NEW C, CheckpointSet(C), NEW c \in Signed \cup {None}
  PROVE  /\ CheckpointSet(Store(C, c))
         /\ \A d \in C : \E e \in Store(C, c) : Height[e] = Height[d]
         /\ \A e \in Store(C, c) : e \in C \/ (e = c /\ c # None)
<1>1. CASE c = None
  BY Zenon, <1>1 DEF Store
<1>2. CASE c # None
  <2>1. Store(C, c) = {d \in C : Height[d] # Height[c]} \cup {c}
    BY Zenon, <1>2 DEF Store
  <2>2. c \in Signed /\ c \in Block /\ c # Genesis
    BY Zenon, <1>2, Heights
  <2>3. Height[Genesis] # Height[c]
    <3>1. Height[Genesis] < Height[c] /\ Height[c] \in Nat
            /\ Height[Genesis] \in Nat
      BY Zenon, <2>2, Heights, TreeAssumption
    <3>. QED  BY <3>1
  <2>4. CheckpointSet(Store(C, c))
    BY Zenon, <2>1, <2>2, <2>3 DEF CheckpointSet
  <2>5. ASSUME NEW d \in C PROVE \E e \in Store(C, c) : Height[e] = Height[d]
    <3>1. CASE Height[d] = Height[c]  BY Zenon, <2>1, <3>1
    <3>2. CASE Height[d] # Height[c]  BY Zenon, <2>1, <3>2
    <3>. QED  BY Zenon, <3>1, <3>2
  <2>6. \A e \in Store(C, c) : e \in C \/ (e = c /\ c # None)
    BY Zenon, <1>2, <2>1
  <2>. QED  BY Zenon, <2>4, <2>5, <2>6
<1>. QED  BY Zenon, <1>1, <1>2

-----------------------------------------------------------------------------
(* Paths of the tree.                                                      *)

(* What holds of Genesis, and of a block when it holds of its parent,      *)
(* holds of all blocks.                                                    *)
LEMMA TreeInduction ==
  ASSUME NEW T \in SUBSET Block, Genesis \in T,
         \A b \in Block \ {Genesis} : Parent[b] \in T => b \in T
  PROVE  T = Block
<1>. DEFINE R == Block \ T
<1>1. SUFFICES ASSUME R # {} PROVE FALSE
  BY Zenon
<1>2. R \in SUBSET Block  OBVIOUS
<1>. DEFINE b == Lowest(R)
<1>3. b \in R /\ \A c \in R : Height[b] <= Height[c]
  BY Zenon, <1>1, <1>2, LowestExists
<1>. HIDE DEF b
<1>4. b \in Block \ {Genesis} /\ Parent[b] \in Block /\ Parent[b] \in R
  BY Zenon, <1>3, TreeAssumption
<1>5. Height[b] <= Height[Parent[b]]  BY Zenon, <1>3, <1>4
<1>. QED  BY <1>4, <1>5, TreeAssumption

LEMMA PathFacts ==
  ASSUME NEW b \in Block
  PROVE  /\ Path(b) \in SUBSET Block /\ HoldsPath(Path(b), b)
         /\ \A S \in SUBSET Block : HoldsPath(S, b) => Path(b) \subseteq S
<1>1. Path(b) = {a \in Block : \A S \in SUBSET Block : HoldsPath(S, b) => a \in S}
  BY Zenon DEF Path, Paths
<1>2. HoldsPath(Path(b), b)
  <2>1. b \in Path(b)  BY Zenon, <1>1 DEF HoldsPath
  <2>2. ASSUME NEW x \in Path(b) \ {Genesis} PROVE Parent[x] \in Path(b)
    <3>1. Parent[x] \in Block  BY Zenon, <1>1, TreeAssumption
    <3>2. ASSUME NEW S \in SUBSET Block, HoldsPath(S, b) PROVE Parent[x] \in S
      BY Zenon, <1>1, <3>2 DEF HoldsPath
    <3>. QED  BY Zenon, <1>1, <3>1, <3>2
  <2>. QED  BY Zenon, <2>1, <2>2 DEF HoldsPath
<1>. QED  BY Zenon, <1>1, <1>2

LEMMA GenesisPath == Path(Genesis) = {Genesis}
<1>1. Genesis \in Block /\ {Genesis} \in SUBSET Block
  BY Zenon, TreeAssumption
<1>2. HoldsPath({Genesis}, Genesis)  BY Zenon DEF HoldsPath
<1>3. Path(Genesis) \subseteq {Genesis} /\ HoldsPath(Path(Genesis), Genesis)
  BY Zenon, <1>1, <1>2, PathFacts
<1>. QED  BY Zenon, <1>3 DEF HoldsPath

LEMMA PathStep ==
  ASSUME NEW b \in Block \ {Genesis}
  PROVE  Parent[b] \in Block /\ Path(b) = {b} \cup Path(Parent[b])
<1>1. Parent[b] \in Block  BY Zenon, TreeAssumption
<1>2. /\ HoldsPath(Path(b), b) /\ Path(b) \in SUBSET Block
      /\ HoldsPath(Path(Parent[b]), Parent[b]) /\ Path(Parent[b]) \in SUBSET Block
  BY Zenon, <1>1, PathFacts
<1>3. Path(Parent[b]) \subseteq Path(b)
  <2>1. HoldsPath(Path(b), Parent[b])  BY Zenon, <1>2 DEF HoldsPath
  <2>. QED  BY Zenon, <1>1, <1>2, <2>1, PathFacts
<1>. DEFINE S == {b} \cup Path(Parent[b])
<1>4. HoldsPath(S, b) /\ S \in SUBSET Block  BY Zenon, <1>2 DEF HoldsPath
<1>5. Path(b) \subseteq S  BY Zenon, <1>4, PathFacts
<1>6. b \in Path(b)  BY Zenon, <1>2 DEF HoldsPath
<1>. QED  BY Zenon, <1>1, <1>3, <1>5, <1>6

LEMMA PathHeights ==
  ASSUME NEW b \in Block, NEW a \in Path(b)
  PROVE  a \in Block /\ Height[a] \in Nat /\ Height[b] \in Nat /\ Height[a] <= Height[b]
<1>. DEFINE S == {x \in Block : Height[x] <= Height[b]}
<1>1. HoldsPath(S, b)
  <2>1. b \in S  BY Heights
  <2>2. ASSUME NEW x \in S \ {Genesis} PROVE Parent[x] \in S
    BY TreeAssumption
  <2>. QED  BY Zenon, <2>1, <2>2 DEF HoldsPath
<1>2. a \in S  BY Zenon, <1>1, PathFacts
<1>. QED  BY Zenon, <1>2, Heights

(* A path has one block for a height.                                      *)
LEMMA OnePerHeight ==
  ASSUME NEW b \in Block, NEW x \in Path(b), NEW y \in Path(b), Height[x] = Height[y]
  PROVE  x = y
<1>. DEFINE T == {c \in Block : \A u, v \in Path(c) : Height[u] = Height[v] => u = v}
<1>1. Genesis \in T
  BY Zenon, GenesisPath, TreeAssumption
<1>2. ASSUME NEW c \in Block \ {Genesis}, Parent[c] \in T PROVE c \in T
  <2>1. Path(c) = {c} \cup Path(Parent[c])  BY Zenon, PathStep
  <2>2. \A u \in Path(Parent[c]) : Height[u] # Height[c]
    <3>1. Height[c] = Height[Parent[c]] + 1 /\ Parent[c] \in Block
      BY Zenon, TreeAssumption
    <3>2. \A u \in Path(Parent[c]) : /\ Height[u] \in Nat /\ Height[Parent[c]] \in Nat
                                     /\ Height[u] <= Height[Parent[c]]
      BY Zenon, <3>1, PathHeights
    <3>. QED  BY <3>1, <3>2
  <2>. QED  BY Zenon, <1>2, <2>1, <2>2
<1>. HIDE DEF T
<1>3. T \in SUBSET Block  BY Zenon DEF T
<1>4. T = Block  BY Zenon, <1>1, <1>2, <1>3, TreeInduction
<1>. QED  BY Zenon, <1>4 DEF T

(* The path to a block of a path is what it has up to that height.         *)
LEMMA PathPrefix ==
  ASSUME NEW b \in Block, NEW a \in Path(b)
  PROVE  Path(a) = {x \in Path(b) : Height[x] <= Height[a]}
<1>. DEFINE Upto(c, d) == {x \in Path(d) : Height[x] <= Height[c]}
            T == {d \in Block : \A c \in Path(d) : Path(c) = Upto(c, d)}
<1>1. ASSUME NEW d \in Block PROVE Path(d) = Upto(d, d)
  BY Zenon, PathHeights
<1>2. Genesis \in T
  BY Zenon, <1>1, GenesisPath, TreeAssumption
<1>3. ASSUME NEW d \in Block \ {Genesis}, Parent[d] \in T PROVE d \in T
  <2>. SUFFICES ASSUME NEW c \in Path(d) PROVE Path(c) = Upto(c, d)
    BY Zenon
  <2>1. Path(d) = {d} \cup Path(Parent[d]) /\ Parent[d] \in Block
    BY Zenon, PathStep
  <2>2. CASE c = d  BY Zenon, <1>1, <2>2
  <2>3. CASE c \in Path(Parent[d])
    <3>1. Path(c) = Upto(c, Parent[d])  BY Zenon, <1>3, <2>3
    <3>2. ~(Height[d] <= Height[c])
      <4>1. Height[c] \in Nat /\ Height[Parent[d]] \in Nat
            /\ Height[c] <= Height[Parent[d]]
        BY Zenon, <2>1, <2>3, PathHeights
      <4>2. Height[d] = Height[Parent[d]] + 1  BY Zenon, TreeAssumption
      <4>. QED  BY <4>1, <4>2
    <3>. QED  BY Zenon, <2>1, <3>1, <3>2
  <2>. QED  BY Zenon, <2>1, <2>2, <2>3
<1>. HIDE DEF T
<1>4. T \in SUBSET Block  BY Zenon DEF T
<1>5. T = Block  BY Zenon, <1>2, <1>3, <1>4, TreeInduction
<1>. QED  BY Zenon, <1>5 DEF T


(* What build_alt_chain collects under b: alternative blocks, starting     *)
(* with the parent.                                                        *)
LEMMA PrevsFacts ==
  ASSUME TypeOK, NEW b \in Block \ {Genesis}
  PROVE  /\ Prevs(b) \subseteq alt /\ Prevs(b) \subseteq Path(Parent[b])
         /\ Parent[b] \in alt => Parent[b] \in Prevs(b)
         /\ Parent[b] \notin alt => Prevs(b) = {}
<1>. DEFINE p == Parent[b]
<1>1. p \in Block /\ p \in Path(p)
  BY Zenon, TreeAssumption, PathFacts DEF HoldsPath
<1>2. \A x \in Path(p) : /\ Height[x] \in Nat /\ Height[p] \in Nat
                         /\ Height[x] <= Height[p] /\ Height[x] <= Height[x]
  <2>1. \A x \in Path(p) : /\ Height[x] \in Nat /\ Height[p] \in Nat
                           /\ Height[x] <= Height[p]
    BY Zenon, <1>1, PathHeights
  <2>. QED  BY <2>1
<1>3. Prevs(b) = {a \in Path(p) : \A x \in Path(p) : Height[a] <= Height[x] => x \in alt}
  BY Zenon DEF Prevs
<1>. HIDE DEF p
<1>4. ASSUME NEW x \in Path(p), Height[p] <= Height[x] PROVE x = p
  <2>1. Height[x] = Height[p]  BY <1>2, <1>4
  <2>. QED  BY Zenon, <1>1, <2>1, OnePerHeight
<1>5. Prevs(b) \subseteq alt  BY Zenon, <1>2, <1>3
<1>6. p \in alt => p \in Prevs(b)  BY Zenon, <1>1, <1>3, <1>4
<1>7. p \notin alt => Prevs(b) = {}  BY Zenon, <1>1, <1>2, <1>3
<1>. QED  BY Zenon, <1>3, <1>5, <1>6, <1>7 DEF p

-----------------------------------------------------------------------------
(* The inductive invariant.                                                *)

CpInv == CheckpointSet(cps) /\ CheckpointsOnChain

\* What is stored beside a block is for its height, the top is the highest
\* block, and what a switch has still to connect is not below it; what a
\* rollback has still to connect are blocks of the original chain.
SwitchInv ==
  /\ \A b \in chain : Height[b] <= Height[top]
  /\ \A b \in Block : altcp[b] # None => Height[altcp[b]] = Height[b]
  /\ \A b \in Block : given[b] # None => Height[given[b]] = Height[b]
  /\ \A b \in original : Height[fork] < Height[b]
  /\ mode # "idle" => left # {} /\ \A b \in left : Height[top] <= Height[b]
  /\ mode = "idle" => fork = Genesis
  /\ mode = "restore" => left \subseteq original

\* A locked-in block stays below what is_alternative_block_allowed refuses, and
\* on the common part of the two chains during a switch.
LockInv ==
  IF mode = "idle"
  THEN \A b \in locked : b \in chain /\ Height[b] <= NewImmutable
  ELSE \A b \in locked : /\ b \in chain
                         /\ Height[b] <= Height[fork] /\ Height[b] <= immutable

FInv == TypeOK /\ CpInv /\ SwitchInv /\ LockInv

LEMMA Basics ==
  ASSUME TypeOK
  PROVE  /\ Height[top] \in Nat /\ Height[Genesis] <= Height[top]
         /\ Height[fork] \in Nat /\ Height[Genesis] <= Height[fork]
         /\ Height[Genesis] \in Nat
         /\ top \in Block /\ fork \in Block
<1>1. top \in Block /\ fork \in Block /\ Genesis \in Block
  BY Zenon, TreeAssumption DEF TypeOK
<1>. QED  BY Zenon, <1>1, Heights

(* checkpoints::block_add keeps Genesis and what is at or above the        *)
(* immutable height.                                                       *)
LEMMA Added ==
  ASSUME TypeOK, CpInv, NEW b \in Block, Height[top] <= Height[b],
         NEW c \in Signed \cup {None}, c # None => Height[c] = Height[b]
  PROVE  /\ CheckpointSet(CpsAdded(b, c))
         /\ \A d \in CpsAdded(b, c) : /\ Height[d] <= Height[b]
                                      /\ d \in cps \/ (d = c /\ c # None)
         /\ CullAdded(b) \in Nat
         /\ \A d \in cps : ImmutableHeight(cps, Height[top] + 1) <= Height[d]
                            => \E e \in CpsAdded(b, c) : Height[e] = Height[d]
<1>. DEFINE ht == Height[top] + 1
            hb == Height[b] + 1
<1>1. /\ ht \in Nat /\ hb \in Nat /\ Height[Genesis] <= ht /\ ht <= hb
      /\ Height[Genesis] <= hb
  BY Basics, Heights
<1>2. \A d \in cps : d \in Block /\ Height[d] \in Nat
        /\ Height[d] <= Height[b] /\ Height[d] <= ht
  <2>1. \A d \in cps : d \in Block /\ Height[d] <= Height[top]
    BY Zenon, Heights DEF CpInv, CheckpointsOnChain, CheckpointSet
  <2>. QED  BY <2>1, Basics, Heights
<1>. HIDE DEF ht, hb
<1>3. \A d \in cps : ImmutableHeight(cps, ht) <= Height[d]
                       => ImmutableHeight(cps, hb) <= Height[d]
  <2>1. /\ ImmutableHeight(cps, ht) \in Nat
        /\ \A p \in cps : IsImmutable(cps, ht, p)
             => Height[p] <= ImmutableHeight(cps, ht)
    BY Zenon, <1>1, ImmutableCheckpoint DEF CpInv
  <2>2. PICK p \in cps : Height[p] = ImmutableHeight(cps, hb)
                           /\ IsImmutable(cps, hb, p)
    BY Zenon, <1>1, ImmutableCheckpoint DEF CpInv
  <2>3. IsImmutable(cps, ht, p)
    BY Zenon, <1>2, <2>2 DEF IsImmutable
  <2>4. ImmutableHeight(cps, hb) <= ImmutableHeight(cps, ht)
    BY Zenon, <2>1, <2>2, <2>3
  <2>. QED  BY <1>2, <2>1, <2>2, <2>4
<1>4. CASE Height[b] < CHECKPOINT_STORE_PERSISTENTLY_INTERVAL
  <2>1. CpsAdded(b, c) = cps /\ CullAdded(b) = last_cull
    BY Zenon, <1>4 DEF CpsAdded, CullAdded
  <2>. QED  BY Zenon, <1>2, <2>1 DEF TypeOK, CpInv
<1>5. CASE ~(Height[b] < CHECKPOINT_STORE_PERSISTENTLY_INTERVAL)
  <2>. DEFINE kept == cps \ Culled(b)
  <2>1. CpsAdded(b, c) = Store(kept, c)
    BY Zenon, <1>5 DEF CpsAdded
  <2>2. Genesis \notin Culled(b)
    BY Zenon, IntervalAssumption DEF Culled
  <2>3. CheckpointSet(kept)
    BY Zenon, <2>2 DEF CpInv, CheckpointSet
  <2>4. /\ CheckpointSet(CpsAdded(b, c))
        /\ \A d \in kept : \E e \in CpsAdded(b, c) : Height[e] = Height[d]
        /\ \A e \in CpsAdded(b, c) : e \in kept \/ (e = c /\ c # None)
    <3>1. /\ CheckpointSet(Store(kept, c))
          /\ \A d \in kept : \E e \in Store(kept, c) : Height[e] = Height[d]
          /\ \A e \in Store(kept, c) : e \in kept \/ (e = c /\ c # None)
      <4>. HIDE DEF kept
      <4>. QED  BY <2>3, StoreKeeps
    <3>. QED  BY <2>1, <3>1
  <2>5. \A d \in CpsAdded(b, c) : /\ Height[d] <= Height[b]
                                  /\ d \in cps \/ (d = c /\ c # None)
    <3>1. Height[b] <= Height[b]  BY Heights
    <3>. QED  BY Zenon, <1>2, <2>4, <3>1
  <2>6. CullEnd(b) = ImmutableHeight(cps, hb) /\ CullEnd(b) \in Nat
    BY Zenon, <1>1, ImmutableCheckpoint DEF CullEnd, hb, CpInv
  <2>7. \A d \in cps : ImmutableHeight(cps, hb) <= Height[d] => d \in kept
    <3>1. \A d \in Culled(b) : Height[d] < CullEnd(b)  BY Zenon DEF Culled
    <3>. QED  BY <1>2, <2>6, <3>1
  <2>8. \A d \in cps : ImmutableHeight(cps, ht) <= Height[d]
                         => \E e \in CpsAdded(b, c) : Height[e] = Height[d]
    BY Zenon, <1>3, <2>4, <2>7
  <2>9. CullAdded(b) \in Nat
    <3>. DEFINE i == CHECKPOINT_INTERVAL
                st == (CullEnd(b) - CullStart(b) + i - 1) \div i
    <3>1. CullAdded(b) = CullStart(b) + i * Larger(st, 0)
      BY Zenon, <1>5 DEF CullAdded
    <3>2. i \in Nat \ {0} /\ CHECKPOINT_STORE_PERSISTENTLY_INTERVAL \in Nat
          /\ last_cull \in Nat
      BY Zenon, IntervalAssumption DEF TypeOK
    <3>3. CullStart(b) \in Nat
      BY <2>6, <3>2 DEF CullStart, Larger
    <3>4. st \in Int
      BY <2>6, <3>2, <3>3
    <3>. HIDE DEF i, st
    <3>5. Larger(st, 0) \in Nat
      BY <3>4 DEF Larger
    <3>6. i * Larger(st, 0) \in Nat
      BY <3>2, <3>5
    <3>. QED  BY <3>1, <3>3, <3>6
  <2>. QED  BY Zenon, <2>4, <2>5, <2>8, <2>9 DEF ht
<1>. QED  BY Zenon, <1>4, <1>5

LEMMA BlockAdd ==
  ASSUME TypeOK, CpInv, NEW b \in Block, Height[top] <= Height[b],
         NEW c \in Signed \cup {None}, c # None => Height[c] = Height[b],
         CheckpointsBlockAdd(b, c)
  PROVE  /\ CheckpointSet(cps') /\ \A d \in cps' : Height[d] <= Height[b]
         /\ last_cull' \in Nat
         /\ ImmutableHeight(cps, Height[top] + 1)
              <= ImmutableHeight(cps', Height[b] + 1)
<1>1. cps' = CpsAdded(b, c) /\ last_cull' = CullAdded(b)
  BY Zenon DEF CheckpointsBlockAdd
<1>2. /\ CheckpointSet(cps') /\ \A d \in cps' : Height[d] <= Height[b]
      /\ last_cull' \in Nat
      /\ \A d \in cps : ImmutableHeight(cps, Height[top] + 1) <= Height[d]
                         => \E e \in cps' : Height[e] = Height[d]
  BY Zenon, <1>1, Added
<1>3. /\ Height[top] + 1 \in Nat /\ Height[b] + 1 \in Nat
      /\ Height[Genesis] <= Height[top] + 1 /\ Height[top] + 1 <= Height[b] + 1
  BY Basics, Heights
<1>4. CheckpointSet(cps)  BY Zenon DEF CpInv
<1>5. ImmutableHeight(cps, Height[top] + 1) <= ImmutableHeight(cps', Height[b] + 1)
  BY Zenon, <1>2, <1>3, <1>4, ImmutableGrows
<1>. QED  BY Zenon, <1>2, <1>5

(* checkpoints::blockchain_detached removes exactly what is at or above    *)
(* the height: its walk in steps of the interval misses no checkpoint.     *)
LEMMA DetachesFrom ==
  ASSUME TypeOK, NEW C, CheckpointSet(C), NEW l \in Nat,
         NEW t \in Block, \A c \in C : Height[c] <= Height[t],
         NEW h \in Nat, Height[Genesis] < h, DetachFrom(C, l, h)
  PROVE  /\ cps' = {c \in C : ~(Height[c] >= h)}
         /\ CheckpointSet(cps') /\ last_cull' \in Nat
<1>1. \A c \in C : c \in Block /\ Height[c] \in Nat
        /\ Height[c] <= Height[t] /\ Height[c] % CHECKPOINT_INTERVAL = 0
  BY Zenon, Heights DEF CheckpointSet
<1>2. Highest(C) \in C
  <2>1. C \in SUBSET Block /\ C # {} /\ Height[t] \in Nat
    BY Zenon, <1>1, Heights DEF CheckpointSet
  <2>. QED  BY Zenon, <1>1, <2>1, HighestExists
<1>3. ASSUME NEW c \in C, Height[c] >= h PROVE c \in Detached(C, h)
  <2>1. Height[c] > 0
    BY <1>1, <1>3, Basics
  <2>2. CHECKPOINT_INTERVAL \in Nat \ {0}
    BY Zenon, IntervalAssumption
  <2>3. Height[c] >= CHECKPOINT_INTERVAL
    BY Zenon, <1>1, <2>1, <2>2, Multiples
  <2>4. (Height[Highest(C)] - Height[c]) % CHECKPOINT_INTERVAL = 0
    BY Zenon, <1>1, <1>2, <2>2, Multiples
  <2>. QED  BY Zenon, <1>3, <2>3, <2>4 DEF Detached
<1>4. cps' = {c \in C : ~(Height[c] >= h)}
  BY Zenon, <1>3 DEF DetachFrom, Detached
<1>5. ~(Height[Genesis] >= h)
  BY Basics
<1>6. CheckpointSet(cps')
  BY Zenon, <1>4, <1>5 DEF CheckpointSet
<1>7. last_cull' \in Nat
  BY DEF DetachFrom, Smaller
<1>. QED  BY Zenon, <1>4, <1>6, <1>7

LEMMA Detach ==
  ASSUME TypeOK, CpInv, NEW h \in Nat, Height[Genesis] < h, CheckpointsDetach(h)
  PROVE  /\ cps' = {c \in cps : ~(Height[c] >= h)}
         /\ CheckpointSet(cps') /\ last_cull' \in Nat
<1>1. /\ CheckpointSet(cps) /\ last_cull \in Nat /\ top \in Block
      /\ \A c \in cps : Height[c] <= Height[top]
  BY Zenon, Basics DEF CpInv, CheckpointsOnChain, TypeOK
<1>. QED  BY Zenon, <1>1, DetachesFrom DEF CheckpointsDetach

(* A block that failed leaves no checkpoint behind that was not there, and *)
(* of those below it has removed none that the immutable height rests on.  *)
LEMMA FailedDetach ==
  ASSUME TypeOK, CpInv, NEW b \in Block, Height[top] <= Height[b],
         NEW c \in Signed \cup {None}, c # None => Height[c] = Height[b],
         NEW h \in Nat, Height[Genesis] < h, FailedAndDetached(b, c, h)
  PROVE  /\ CheckpointSet(cps') /\ last_cull' \in Nat
         /\ \A d \in cps' : ~(Height[d] >= h)
         /\ h <= Height[b] => cps' \subseteq cps
         /\ \A d \in cps : ~(Height[d] >= h) =>
              (ImmutableHeight(cps, Height[top] + 1) <= Height[d]
                 => \E e \in cps' : Height[e] = Height[d])
<1>1. CASE CheckpointsDetach(h)
  BY Zenon, <1>1, Detach
<1>2. CASE DetachFrom(CpsAdded(b, c), CullAdded(b), h)
  <2>. DEFINE C == CpsAdded(b, c)
  <2>1. /\ CheckpointSet(C) /\ CullAdded(b) \in Nat
        /\ \A d \in C : Height[d] <= Height[b]
        /\ \A d \in C : d \in cps \/ (d = c /\ c # None)
        /\ \A d \in cps : ImmutableHeight(cps, Height[top] + 1) <= Height[d]
                           => \E e \in C : Height[e] = Height[d]
    BY Zenon, Added
  <2>. HIDE DEF C
  <2>2. /\ cps' = {d \in C : ~(Height[d] >= h)}
        /\ CheckpointSet(cps') /\ last_cull' \in Nat
    BY Zenon, <1>2, <2>1, DetachesFrom DEF C
  <2>3. h <= Height[b] => (c # None => Height[c] >= h)
    BY Heights
  <2>. QED  BY Zenon, <2>1, <2>2, <2>3
<1>. QED  BY Zenon, <1>1, <1>2 DEF FailedAndDetached

-----------------------------------------------------------------------------
(* Facts about single operations.                                          *)

LEMMA LargerFacts ==
  ASSUME NEW m \in Nat, NEW n \in Nat
  PROVE  Larger(m, n) \in Nat /\ m <= Larger(m, n) /\ n <= Larger(m, n)
BY DEF Larger

LEMMA ImmutableIsNat ==
  ASSUME TypeOK, CpInv
  PROVE  /\ ImmutableHeight(cps, Height[top] + 1) \in Nat
         /\ NewImmutable \in Nat /\ immutable <= NewImmutable
         /\ ImmutableHeight(cps, Height[top] + 1) <= NewImmutable
<1>1. Height[top] + 1 \in Nat /\ Height[Genesis] <= Height[top] + 1
  BY Basics
<1>2. ImmutableHeight(cps, Height[top] + 1) \in Nat /\ immutable \in Nat
  BY Zenon, <1>1, ImmutableCheckpoint DEF CpInv, TypeOK
<1>. QED  BY Zenon, <1>2, LargerFacts DEF NewImmutable

(* The blocks that are locked in by the end of a handler.                  *)
LEMMA LockInTypes ==
  ASSUME NEW before, NEW ever, LockIn(before, ever),
         before \subseteq Block, ever \subseteq Block, chain' \subseteq Block
  PROVE  locked' \subseteq everLocked' /\ everLocked' \subseteq Block
BY Zenon DEF LockIn

LEMMA LockInIdle ==
  ASSUME NEW before, NEW ever, LockIn(before, ever), mode' = "idle",
         TypeOK', CpInv',
         \A b \in before : b \in chain' /\ Height[b] <= NewImmutable'
  PROVE  LockInv'
<1>1. /\ ImmutableHeight(cps', Height[top'] + 1) \in Nat
      /\ NewImmutable' \in Nat
      /\ ImmutableHeight(cps', Height[top'] + 1) <= NewImmutable'
  <2>1. (TypeOK /\ CpInv => /\ ImmutableHeight(cps, Height[top] + 1) \in Nat
                            /\ NewImmutable \in Nat
                            /\ ImmutableHeight(cps, Height[top] + 1) <= NewImmutable)'
    BY ImmutableIsNat, PTL
  <2>. QED  BY Zenon, <2>1
<1>2. ASSUME NEW b \in locked' PROVE b \in chain' /\ Height[b] <= NewImmutable'
  <2>1. CASE b \in before  BY Zenon, <2>1
  <2>2. CASE b \notin before
    <3>1. b \in chain' /\ Height[b] <= ImmutableHeight(cps', Height[top'] + 1)
      BY Zenon, <2>2 DEF LockIn
    <3>2. Height[b] \in Nat  BY Zenon, <3>1, Heights DEF TypeOK
    <3>. QED  BY <1>1, <3>1, <3>2
  <2>. QED  BY Zenon, <2>1, <2>2
<1>. QED  BY Zenon, <1>2 DEF LockInv

LEMMA FrontFacts ==
  ASSUME TypeOK, NEW b \in Block \ {Genesis}
  PROVE  /\ Prevs(b) \subseteq alt /\ Front(b) \in Block \ {Genesis}
         /\ Parent[Front(b)] \in Block
         /\ Height[Front(b)] = Height[Parent[Front(b)]] + 1
         /\ \A a \in Prevs(b) \cup {b} : Height[Front(b)] <= Height[a]
<1>0. alt \subseteq Block \ {Genesis}
  BY Zenon DEF TypeOK
<1>1. Prevs(b) \subseteq alt
  BY Zenon, PrevsFacts
<1>2. CASE Parent[b] \in alt
  <2>1. Parent[b] \in Prevs(b)  BY Zenon, <1>2, PrevsFacts
  <2>2. Front(b) = Lowest(Prevs(b))  BY Zenon, <1>2 DEF Front
  <2>3. Prevs(b) \in SUBSET Block /\ Prevs(b) # {}
    BY Zenon, <1>0, <1>1, <2>1
  <2>4. Front(b) \in Prevs(b) /\ \A a \in Prevs(b) : Height[Front(b)] <= Height[a]
    BY Zenon, <2>2, <2>3, LowestExists
  <2>5. Front(b) \in Block \ {Genesis}
    BY Zenon, <1>0, <1>1, <2>4
  <2>6. Height[Front(b)] <= Height[b]
    <3>1. Height[Front(b)] <= Height[Parent[b]]  BY Zenon, <2>1, <2>4
    <3>2. Height[b] = Height[Parent[b]] + 1 /\ Parent[b] \in Block
      BY Zenon, TreeAssumption
    <3>. QED  BY <2>5, <3>1, <3>2, Heights
  <2>. QED  BY Zenon, <1>1, <2>4, <2>5, <2>6, TreeAssumption
<1>3. CASE Parent[b] \notin alt
  <2>1. Front(b) = b /\ Prevs(b) = {}  BY Zenon, <1>3, PrevsFacts DEF Front
  <2>2. Height[b] <= Height[b]  BY Heights
  <2>. QED  BY Zenon, <1>1, <2>1, <2>2, TreeAssumption
<1>. QED  BY Zenon, <1>2, <1>3

LEMMA OfferedFacts ==
  ASSUME NEW b, NEW c \in Offered(b)
  PROVE  c \in Signed \cup {None} /\ (c # None => Height[c] = Height[b])
BY Zenon DEF Offered

(* What a failed block leaves behind (abort_block).                        *)
LEMMA Abort ==
  ASSUME TypeOK, CpInv, NEW b \in Block, Height[top] <= Height[b],
         Height[Genesis] < Height[b], NEW c \in Signed \cup {None},
         c # None => Height[c] = Height[b], AbortBlock(b, c)
  PROVE  /\ cps' \subseteq cps /\ CheckpointSet(cps') /\ last_cull' \in Nat
         /\ Height[top] < Height[b] => ImmutableHeight(cps, Height[top] + 1)
                                         <= ImmutableHeight(cps', Height[top] + 1)
<1>0. /\ Height[b] \in Nat /\ Height[top] \in Nat /\ Height[top] + 1 \in Nat
      /\ Height[b] <= Height[b] /\ Height[Genesis] <= Height[top] + 1
      /\ Height[top] + 1 <= Height[top] + 1
  BY Basics, Heights
<1>1. CASE UNCHANGED cpVars
  <2>1. cps' = cps /\ last_cull' = last_cull  BY Zenon, <1>1 DEF cpVars
  <2>2. ImmutableHeight(cps, Height[top] + 1) \in Nat  BY Zenon, ImmutableIsNat
  <2>3. ImmutableHeight(cps, Height[top] + 1)
          <= ImmutableHeight(cps', Height[top] + 1)
    BY <2>1, <2>2
  <2>. QED  BY Zenon, <2>1, <2>3 DEF CpInv, TypeOK
<1>2. CASE FailedAndDetached(b, c, Height[b])
  <2>1. /\ CheckpointSet(cps') /\ last_cull' \in Nat /\ cps' \subseteq cps
        /\ \A d \in cps : ~(Height[d] >= Height[b]) =>
             (ImmutableHeight(cps, Height[top] + 1) <= Height[d]
                => \E e \in cps' : Height[e] = Height[d])
    BY Zenon, <1>0, <1>2, FailedDetach
  <2>2. ASSUME Height[top] < Height[b], NEW d \in cps
        PROVE  ~(Height[d] >= Height[b])
    <3>1. Height[d] <= Height[top] /\ Height[d] \in Nat
      BY Zenon, Heights DEF CpInv, CheckpointsOnChain, CheckpointSet
    <3>. QED  BY <1>0, <2>2, <3>1
  <2>3. ASSUME Height[top] < Height[b]
        PROVE  ImmutableHeight(cps, Height[top] + 1)
                 <= ImmutableHeight(cps', Height[top] + 1)
    <3>1. CheckpointSet(cps)  BY Zenon DEF CpInv
    <3>2. \A d \in cps : ImmutableHeight(cps, Height[top] + 1) <= Height[d]
                         => \E e \in cps' : Height[e] = Height[d]
      BY Zenon, <2>1, <2>2, <2>3
    <3>. QED  BY Zenon, <1>0, <2>1, <3>1, <3>2, ImmutableGrows
  <2>. QED  BY Zenon, <2>1, <2>3
<1>. QED  BY Zenon, <1>1, <1>2 DEF AbortBlock

-----------------------------------------------------------------------------
(* Each action keeps the invariant.                                        *)

LEMMA AddToMainChainStep ==
  ASSUME FInv, NEW b \in Block \ {Genesis}, NEW c \in Offered(b),
         AddToMainChain(b, c)
  PROVE  FInv'
<1>0. TypeOK /\ CpInv /\ SwitchInv /\ LockInv
  BY Zenon DEF FInv
<1>1. /\ mode = "idle" /\ Parent[b] = top /\ LockIn(locked, everLocked)
      /\ alt' = alt /\ altcp' = altcp /\ immutable' = immutable
      /\ mode' = mode /\ fork' = fork /\ chosen' = chosen /\ left' = left
      /\ original' = original /\ given' = given
      /\ pops' = pops /\ restarts' = restarts
  BY Zenon DEF AddToMainChain, altVars, switchVars, bounds
<1>2. /\ Height[b] = Height[top] + 1 /\ Height[b] \in Nat /\ Height[top] <= Height[b]
      /\ Height[top] < Height[b] /\ Height[Genesis] < Height[b]
  <2>1. Height[b] = Height[top] + 1  BY Zenon, <1>1, TreeAssumption
  <2>. QED  BY <1>0, <2>1, Basics
<1>3. /\ chain' \subseteq Block /\ chain \subseteq chain' /\ top' \in chain'
      /\ cps' \subseteq Signed \cup {Genesis} /\ last_cull' \in Nat
      /\ invalid' \subseteq Block /\ byWeight' \in BOOLEAN
      /\ CpInv' /\ \A a \in chain' : Height[a] <= Height[top']
      /\ ImmutableHeight(cps, Height[top] + 1)
           <= ImmutableHeight(cps', Height[top'] + 1)
  <2>1. CASE Extend(b, c) /\ UNCHANGED invalid /\ byWeight' = (byWeight /\ c = None)
    <3>1. chain' = chain \cup {b} /\ top' = b /\ CheckpointsBlockAdd(b, c)
      BY Zenon, <2>1 DEF Extend
    <3>2. /\ CheckpointSet(cps') /\ \A d \in cps' : Height[d] <= Height[b]
          /\ last_cull' \in Nat
          /\ ImmutableHeight(cps, Height[top] + 1)
               <= ImmutableHeight(cps', Height[b] + 1)
      BY Zenon, <1>0, <1>2, <3>1, BlockAdd, OfferedFacts
    <3>3. \A a \in chain' : Height[a] <= Height[b]
      <4>1. \A a \in chain : Height[a] \in Nat /\ Height[a] <= Height[top]
        BY Zenon, <1>0, Heights DEF TypeOK, SwitchInv
      <4>. QED  BY <1>0, <1>2, <3>1, <4>1, Basics
    <3>4. CpInv'
      BY Zenon, <3>1, <3>2 DEF CpInv, CheckpointsOnChain
    <3>. QED
      BY Zenon, <1>0, <2>1, <3>1, <3>2, <3>3, <3>4 DEF TypeOK, CheckpointSet
  <2>2. CASE /\ invalid' = invalid \cup MarkedInvalid(b) /\ AbortBlock(b, c)
             /\ UNCHANGED <<chainVars, byWeight>>
    <3>1. chain' = chain /\ top' = top /\ byWeight' = byWeight
      BY Zenon, <2>2 DEF chainVars
    <3>2. /\ cps' \subseteq cps /\ CheckpointSet(cps') /\ last_cull' \in Nat
          /\ ImmutableHeight(cps, Height[top] + 1)
               <= ImmutableHeight(cps', Height[top] + 1)
      BY Zenon, <1>0, <1>2, <2>2, Abort, OfferedFacts
    <3>3. CpInv'
      BY Zenon, <1>0, <3>1, <3>2 DEF CpInv, CheckpointsOnChain
    <3>4. ImmutableHeight(cps, Height[top] + 1)
            <= ImmutableHeight(cps', Height[top'] + 1)
      BY Zenon, <3>1, <3>2
    <3>. QED
      BY Zenon, <1>0, <2>2, <3>1, <3>2, <3>3, <3>4
         DEF TypeOK, SwitchInv, MarkedInvalid
  <2>. QED  BY Zenon, <2>1, <2>2 DEF AddToMainChain
<1>4. TypeOK'
  <2>1. locked' \subseteq everLocked' /\ everLocked' \subseteq Block
    BY Zenon, <1>0, <1>1, <1>3, LockInTypes DEF TypeOK
  <2>. QED  BY Zenon, <1>0, <1>1, <1>3, <2>1 DEF TypeOK
<1>5. SwitchInv'
  BY Zenon, <1>0, <1>1, <1>3 DEF SwitchInv
<1>6. LockInv'
  <2>1. ASSUME NEW a \in locked PROVE a \in chain' /\ Height[a] <= NewImmutable'
    <3>1. a \in chain /\ Height[a] <= NewImmutable
      BY Zenon, <1>0, <1>1 DEF LockInv
    <3>2. Height[a] \in Nat  BY Zenon, <1>0, <3>1, Heights DEF TypeOK
    <3>. DEFINE x == ImmutableHeight(cps, Height[top] + 1)
                y == ImmutableHeight(cps', Height[top'] + 1)
    <3>3. x \in Nat /\ y \in Nat /\ immutable \in Nat /\ x <= y
      <4>1. (TypeOK /\ CpInv => ImmutableHeight(cps, Height[top] + 1) \in Nat)'
        BY ImmutableIsNat, PTL
      <4>. QED  BY Zenon, <1>0, <1>3, <1>4, <4>1, ImmutableIsNat DEF TypeOK
    <3>4. NewImmutable = Larger(x, immutable) /\ NewImmutable' = Larger(y, immutable)
      BY Zenon, <1>1 DEF NewImmutable
    <3>. HIDE DEF x, y
    <3>5. Height[a] <= NewImmutable'
      BY <3>1, <3>2, <3>3, <3>4 DEF Larger
    <3>. QED  BY Zenon, <1>3, <3>1, <3>5
  <2>. QED  BY Zenon, <1>1, <1>3, <1>4, <2>1, LockInIdle
<1>. QED  BY Zenon, <1>3, <1>4, <1>5, <1>6 DEF FInv

(* A handler that only raises m_immutable_height and changes alternative   *)
(* blocks.                                                                 *)
LEMMA SameChain ==
  ASSUME FInv, TypeOK', mode = "idle", immutable' = NewImmutable,
         \A a \in Block : altcp'[a] # None => Height[altcp'[a]] = Height[a],
         UNCHANGED <<chainVars, cpVars, switchVars, bounds, lockVars>>
  PROVE  FInv'
<1>0. TypeOK /\ CpInv /\ SwitchInv /\ LockInv
  BY Zenon DEF FInv
<1>1. /\ chain' = chain /\ top' = top /\ cps' = cps /\ locked' = locked
      /\ mode' = mode /\ fork' = fork /\ chosen' = chosen /\ left' = left
      /\ original' = original /\ given' = given
  BY Zenon DEF chainVars, cpVars, switchVars, bounds, lockVars
<1>2. CpInv' /\ SwitchInv'
  BY Zenon, <1>0, <1>1 DEF CpInv, CheckpointsOnChain, SwitchInv
<1>3. NewImmutable' = NewImmutable
  <2>1. NewImmutable' = Larger(ImmutableHeight(cps, Height[top] + 1), NewImmutable)
    BY Zenon, <1>1 DEF NewImmutable
  <2>. QED  BY <1>0, <2>1, ImmutableIsNat DEF Larger
<1>4. LockInv'
  BY Zenon, <1>0, <1>1, <1>3 DEF LockInv
<1>. QED  BY Zenon, <1>2, <1>4 DEF FInv

LEMMA RefuseAlternativeStep ==
  ASSUME FInv, NEW b \in Block \ {Genesis}, RefuseAlternative(b)
  PROVE  FInv'
<1>0. TypeOK /\ CpInv /\ SwitchInv
  BY Zenon DEF FInv
<1>1. /\ mode = "idle" /\ immutable' = NewImmutable
      /\ UNCHANGED <<chainVars, cpVars, invalid, switchVars, bounds, lockVars,
                     byWeight>>
  BY Zenon DEF RefuseAlternative, Alternative
<1>2. /\ alt' \subseteq alt
      /\ altcp' \in [Block -> Signed \cup {None}]
      /\ \A a \in Block : altcp'[a] # None => Height[altcp'[a]] = Height[a]
  <2>1. CASE UNCHANGED altVars
    BY Zenon, <1>0, <2>1 DEF altVars, TypeOK, SwitchInv
  <2>2. CASE /\ alt' = alt \ Prevs(b)
             /\ altcp' = [a \in Block |-> IF a \in Prevs(b) THEN None ELSE altcp[a]]
    <3>1. altcp' \in [Block -> Signed \cup {None}]
      BY <1>0, <2>2 DEF TypeOK
    <3>2. \A a \in Block : altcp'[a] # None => altcp'[a] = altcp[a]
      BY Zenon, <2>2
    <3>. QED  BY Zenon, <1>0, <2>2, <3>1, <3>2 DEF SwitchInv
  <2>. QED  BY Zenon, <2>1, <2>2 DEF RefuseAlternative
<1>3. TypeOK'
  BY Zenon, <1>0, <1>1, <1>2, ImmutableIsNat
     DEF TypeOK, chainVars, cpVars, switchVars, bounds, lockVars
<1>. QED  BY Zenon, <1>1, <1>2, <1>3, SameChain

LEMMA StoreAltFacts ==
  ASSUME FInv, NEW b \in Block \ {Genesis}, NEW c \in Offered(b), StoreAlt(b, c)
  PROVE  /\ alt' \subseteq Block \ {Genesis}
         /\ altcp' \in [Block -> Signed \cup {None}]
         /\ \A a \in Block : altcp'[a] # None => Height[altcp'[a]] = Height[a]
         /\ immutable' = NewImmutable /\ immutable' \in Nat
         /\ byWeight' \in BOOLEAN
<1>0. TypeOK /\ CpInv /\ SwitchInv
  BY Zenon DEF FInv
<1>1. c \in Signed \cup {None} /\ (c # None => Height[c] = Height[b])
  BY Zenon, OfferedFacts
<1>2. altcp' = [altcp EXCEPT ![b] = c] /\ altcp \in [Block -> Signed \cup {None}]
  BY Zenon, <1>0 DEF StoreAlt, TypeOK
<1>3. altcp' \in [Block -> Signed \cup {None}]
  BY <1>1, <1>2
<1>4. \A a \in Block : altcp'[a] = IF a = b THEN c ELSE altcp[a]
  BY <1>2
<1>5. \A a \in Block : altcp'[a] # None => Height[altcp'[a]] = Height[a]
  BY Zenon, <1>0, <1>1, <1>4 DEF SwitchInv
<1>. QED  BY Zenon, <1>0, <1>3, <1>5, ImmutableIsNat DEF StoreAlt, TypeOK

LEMMA KeepMainChainStep ==
  ASSUME FInv, NEW b \in Block \ {Genesis}, NEW c \in Offered(b),
         KeepMainChain(b, c)
  PROVE  FInv'
<1>0. TypeOK  BY Zenon DEF FInv
<1>1. /\ mode = "idle" /\ StoreAlt(b, c)
      /\ UNCHANGED <<chainVars, cpVars, invalid, switchVars, bounds, lockVars>>
  BY Zenon DEF KeepMainChain, Acceptable, Alternative
<1>2. TypeOK'
  BY Zenon, <1>0, <1>1, StoreAltFacts
     DEF TypeOK, chainVars, cpVars, switchVars, bounds, lockVars
<1>. QED  BY Zenon, <1>1, <1>2, StoreAltFacts, SameChain

(* The checkpoints that the blocks of a switch are connected with, when o  *)
(* are the blocks it disconnects.                                          *)
Given(b, c, o, a) ==
  CASE a = b -> c
    [] a \in Prevs(b) -> CheckpointOf(a)
    [] a \in o -> CheckpointAt(Height[a])
    [] OTHER -> None

LEMMA GivenFacts ==
  ASSUME TypeOK, CpInv, SwitchInv, NEW b \in Block \ {Genesis},
         NEW c \in Offered(b), NEW o \in SUBSET Block,
         \A a \in o : Height[Genesis] < Height[a], NEW a \in Block
  PROVE  LET g == Given(b, c, o, a)
         IN  g \in Signed \cup {None} /\ (g # None => Height[g] = Height[a])
<1>. DEFINE Good(g) == g \in Signed \cup {None} /\ (g # None => Height[g] = Height[a])
<1>1. a = b => Good(c)
  BY Zenon, OfferedFacts
<1>2. a \in Prevs(b) => Good(CheckpointOf(a))
  <2>. SUFFICES ASSUME a \in Prevs(b) PROVE Good(CheckpointOf(a))
    BY Zenon
  <2>1. a # Genesis  BY Zenon, FrontFacts DEF TypeOK
  <2>2. Good(altcp[a])  BY Zenon DEF TypeOK, SwitchInv
  <2>3. a \in cps => Good(a)  BY Zenon, <2>1 DEF CpInv, CheckpointSet
  <2>. HIDE DEF Good
  <2>. QED  BY Zenon, <2>2, <2>3 DEF CheckpointOf
<1>3. a \in o => Good(CheckpointAt(Height[a]))
  <2>. SUFFICES ASSUME a \in o PROVE Good(CheckpointAt(Height[a]))
    BY Zenon
  <2>1. CASE \E d \in cps : Height[d] = Height[a]
    <3>1. /\ CheckpointAt(Height[a]) \in cps
          /\ Height[CheckpointAt(Height[a])] = Height[a]
      BY Zenon, <2>1 DEF CheckpointAt
    <3>2. CheckpointAt(Height[a]) # Genesis
      <4>1. Height[Genesis] < Height[a] /\ Height[Genesis] \in Nat
        BY Zenon, Basics
      <4>2. Height[Genesis] # Height[a]  BY <4>1
      <4>. QED  BY Zenon, <3>1, <4>2
    <3>. QED  BY Zenon, <3>1, <3>2 DEF CpInv, CheckpointSet
  <2>2. CASE ~\E d \in cps : Height[d] = Height[a]
    BY Zenon, <2>2 DEF CheckpointAt
  <2>. QED  BY Zenon, <2>1, <2>2
<1>4. Good(None)
  OBVIOUS
<1>5. Good(Given(b, c, o, a))
  <2>. HIDE DEF Good
  <2>. QED  BY <1>1, <1>2, <1>3, <1>4 DEF Given
<1>. QED  BY Zenon, <1>5

(* A switch begins above every locked-in block.                            *)
LEMMA BeginSwitchStep ==
  ASSUME FInv, NEW b \in Block \ {Genesis}, NEW c \in Offered(b),
         BeginSwitch(b, c)
  PROVE  FInv'
<1>0. TypeOK /\ CpInv /\ SwitchInv /\ LockInv
  BY Zenon DEF FInv
<1>1. /\ mode = "idle" /\ Acceptable(b) /\ StoreAlt(b, c)
      /\ mode' = "connect" /\ fork' = Parent[Front(b)]
      /\ chosen' = Prevs(b) \cup {b} /\ left' = Prevs(b) \cup {b}
      /\ original' = {a \in chain : Height[a] > Height[fork']}
      /\ chain' = PoppedTo(fork') /\ top' = fork'
      /\ CheckpointsDetach(Height[fork'] + 1)
      /\ invalid' = invalid /\ pops' = pops /\ restarts' = restarts
      /\ locked' = locked /\ everLocked' = everLocked
  BY Zenon DEF BeginSwitch, Acceptable, Alternative, bounds, lockVars
<1>2. Parent[Front(b)] \in chain /\ AltAllowed(Front(b))
  <2>1. CASE Parent[b] \in alt
    BY Zenon, <1>1, <2>1 DEF Acceptable, Connected
  <2>2. CASE Parent[b] \notin alt
    <3>1. Front(b) = b  BY Zenon, <2>2 DEF Front
    <3>. QED  BY Zenon, <1>1, <2>2, <3>1 DEF Acceptable, Alternative
  <2>. QED  BY Zenon, <2>1, <2>2
<1>3. /\ Prevs(b) \subseteq Block /\ Front(b) \in Block
      /\ Height[Front(b)] = Height[fork'] + 1
      /\ \A a \in left' : Height[Front(b)] <= Height[a]
  BY Zenon, <1>0, <1>1, FrontFacts DEF TypeOK
<1>4. /\ fork' \in Block /\ Height[fork'] \in Nat /\ Height[Genesis] <= Height[fork']
      /\ Height[fork'] <= Height[fork'] /\ Height[Genesis] \in Nat
      /\ Height[fork'] + 1 \in Nat /\ Height[Genesis] < Height[fork'] + 1
  <2>1. fork' \in Block  BY Zenon, <1>0, <1>1, <1>2 DEF TypeOK
  <2>. QED  BY <1>0, <2>1, Heights, Basics
<1>5. /\ chain' \subseteq Block /\ Genesis \in chain' /\ fork' \in chain'
      /\ \A a \in chain' : Height[a] <= Height[fork']
  BY Zenon, <1>0, <1>1, <1>2, <1>4 DEF PoppedTo, TypeOK
<1>6. /\ cps' = {d \in cps : ~(Height[d] >= Height[fork'] + 1)}
      /\ CheckpointSet(cps') /\ last_cull' \in Nat
  BY Zenon, <1>0, <1>1, <1>4, Detach
<1>7. CpInv'
  <2>1. \A d \in cps : Height[d] \in Nat
    BY Zenon, <1>0, Heights DEF CpInv, CheckpointSet
  <2>2. \A d \in cps' : Height[d] <= Height[fork']
    BY <1>4, <1>6, <2>1
  <2>. QED  BY Zenon, <1>1, <1>6, <2>2 DEF CpInv, CheckpointsOnChain
<1>8. /\ given' \in [Block -> Signed \cup {None}]
      /\ \A a \in Block : given'[a] # None => Height[given'[a]] = Height[a]
  <2>1. original' \in SUBSET Block /\ \A a \in original' : Height[Genesis] < Height[a]
    <3>1. \A a \in original' : a \in Block /\ Height[a] > Height[fork']
      BY Zenon, <1>0, <1>1 DEF TypeOK
    <3>. QED  BY <1>4, <3>1, Heights
  <2>. DEFINE G(a) == Given(b, c, original', a)
  <2>2. given' = [a \in Block |-> G(a)]
    BY Zenon DEF BeginSwitch, Given
  <2>3. \A a \in Block : G(a) \in Signed \cup {None}
                           /\ (G(a) # None => Height[G(a)] = Height[a])
    BY Zenon, <1>0, <2>1, GivenFacts
  <2>. HIDE DEF G
  <2>4. given' \in [Block -> Signed \cup {None}]  BY <2>2, <2>3
  <2>5. \A a \in Block : given'[a] = G(a)  BY Zenon, <2>2
  <2>. QED  BY Zenon, <2>3, <2>4, <2>5
<1>9. TypeOK'
  BY Zenon, <1>0, <1>1, <1>3, <1>5, <1>6, <1>8, StoreAltFacts
     DEF TypeOK, CheckpointSet
<1>10. SwitchInv'
  <2>1. \A a \in original' : Height[fork'] < Height[a]
    <3>1. \A a \in original' : a \in Block /\ Height[a] > Height[fork']
      BY Zenon, <1>0, <1>1 DEF TypeOK
    <3>. QED  BY <1>4, <3>1, Heights
  <2>2. \A a \in left' : Height[fork'] <= Height[a]
    <3>1. \A a \in left' : Height[a] \in Nat  BY Zenon, <1>1, <1>3, Heights
    <3>. QED  BY <1>3, <1>4, <3>1
  <2>3. left' # {}  BY Zenon, <1>1
  <2>. QED  BY Zenon, <1>1, <1>5, <1>8, <2>1, <2>2, <2>3, StoreAltFacts DEF SwitchInv
<1>11. LockInv'
  <2>1. ASSUME NEW a \in locked
        PROVE  a \in chain' /\ Height[a] <= Height[fork'] /\ Height[a] <= immutable'
    <3>1. a \in chain /\ Height[a] <= NewImmutable
      BY Zenon, <1>0, <1>1 DEF LockInv
    <3>2. Height[a] \in Nat  BY Zenon, <1>0, <3>1, Heights DEF TypeOK
    <3>3. Height[fork'] + 1 > NewImmutable
      BY Zenon, <1>2, <1>3 DEF AltAllowed
    <3>4. NewImmutable \in Nat /\ immutable' = NewImmutable
      BY Zenon, <1>0, <1>1, ImmutableIsNat, StoreAltFacts
    <3>5. Height[a] <= Height[fork']  BY <1>4, <3>1, <3>2, <3>3, <3>4
    <3>. QED  BY Zenon, <1>1, <3>1, <3>4, <3>5 DEF PoppedTo
  <2>2. "connect" # "idle"  OBVIOUS
  <2>. QED  BY Zenon, <1>1, <2>1, <2>2 DEF LockInv
<1>. QED  BY Zenon, <1>7, <1>9, <1>10, <1>11 DEF FInv

(* Connecting the next block of a switch.                                  *)
LEMMA ConnectBlock ==
  ASSUME FInv, mode # "idle", NEW b, b = NextToConnect, Extend(b, given[b])
  PROVE  /\ b \in left /\ b \in Block /\ chain' = chain \cup {b} /\ top' = b
         /\ CpInv' /\ cps' \subseteq Signed \cup {Genesis} /\ last_cull' \in Nat
         /\ \A a \in chain' : Height[a] <= Height[b]
         /\ \A a \in left : Height[b] <= Height[a]
<1>0. TypeOK /\ CpInv /\ SwitchInv
  BY Zenon DEF FInv
<1>1. /\ b \in left /\ b \in Block /\ Height[top] <= Height[b]
      /\ \A a \in left : Height[b] <= Height[a]
  BY Zenon, <1>0, LowestExists DEF NextToConnect, TypeOK, SwitchInv
<1>2. chain' = chain \cup {b} /\ top' = b /\ CheckpointsBlockAdd(b, given[b])
  BY Zenon DEF Extend
<1>3. /\ given[b] \in Signed \cup {None}
      /\ given[b] # None => Height[given[b]] = Height[b]
  BY Zenon, <1>0, <1>1 DEF TypeOK, SwitchInv
<1>4. /\ CheckpointSet(cps') /\ \A d \in cps' : Height[d] <= Height[b]
      /\ last_cull' \in Nat
  BY Zenon, <1>0, <1>1, <1>2, <1>3, BlockAdd
<1>5. \A a \in chain' : Height[a] <= Height[b]
  <2>1. \A a \in chain : Height[a] \in Nat /\ Height[a] <= Height[top]
    BY Zenon, <1>0, Heights DEF TypeOK, SwitchInv
  <2>2. Height[b] \in Nat /\ Height[top] \in Nat
    BY Zenon, <1>0, <1>1, Heights, Basics
  <2>. QED  BY <1>1, <1>2, <2>1, <2>2
<1>. QED
  BY Zenon, <1>1, <1>2, <1>4, <1>5 DEF CpInv, CheckpointsOnChain, CheckpointSet

(* The locked-in blocks during a switch, and when it ends.                 *)
LEMMA LockedInSwitch ==
  ASSUME FInv, mode # "idle", TypeOK', CpInv', LockIn(locked, everLocked),
         immutable' = immutable, mode' = "idle" \/ fork' = fork,
         \A a \in locked : a \in chain'
  PROVE  LockInv'
<1>1. \A a \in locked : a \in chain' /\ Height[a] <= Height[fork]
                          /\ Height[a] <= immutable
  BY Zenon DEF FInv, LockInv
<1>2. CASE mode' = "idle"
  <2>1. (TypeOK /\ CpInv => NewImmutable \in Nat /\ immutable <= NewImmutable)'
    BY ImmutableIsNat, PTL
  <2>2. NewImmutable' \in Nat /\ immutable <= NewImmutable' /\ immutable \in Nat
    BY Zenon, <2>1 DEF FInv, TypeOK
  <2>3. \A a \in locked : Height[a] \in Nat
    BY Zenon, Heights DEF FInv, TypeOK
  <2>4. \A a \in locked : Height[a] <= NewImmutable'
    BY <1>1, <2>2, <2>3
  <2>. QED  BY Zenon, <1>1, <1>2, <2>4, LockInIdle
<1>3. CASE mode' # "idle"
  <2>1. locked' = locked  BY Zenon, <1>3 DEF LockIn
  <2>. QED  BY Zenon, <1>1, <1>3, <2>1 DEF LockInv
<1>. QED  BY Zenon, <1>2, <1>3

LEMMA EndSwitchFacts ==
  ASSUME EndSwitch
  PROVE  /\ mode' = "idle" /\ fork' = Genesis /\ Genesis \in Block
         /\ chosen' = {} /\ left' = {} /\ original' = {}
         /\ given' \in [Block -> Signed \cup {None}]
         /\ \A b \in Block : given'[b] = None
<1>1. given' = [b \in Block |-> None]
  BY Zenon DEF EndSwitch
<1>2. given' \in [Block -> Signed \cup {None}]
  BY <1>1
<1>3. \A b \in Block : given'[b] = None
  BY Zenon, <1>1
<1>. QED  BY Zenon, <1>2, <1>3, TreeAssumption DEF EndSwitch

LEMMA ConnectNextStep ==
  ASSUME FInv, ConnectNext
  PROVE  FInv'
<1>. DEFINE b == NextToConnect
<1>0. TypeOK /\ SwitchInv /\ LockInv
  BY Zenon DEF FInv
<1>1. /\ mode = "connect" /\ Extend(b, given[b]) /\ LockIn(locked, everLocked)
      /\ immutable' = immutable /\ invalid' = invalid /\ pops' = pops
      /\ restarts' = restarts /\ byWeight' = byWeight
  BY Zenon DEF ConnectNext, bounds
<1>2. mode # "idle"
  BY <1>1
<1>. HIDE DEF b
<1>3. /\ b \in left /\ b \in Block /\ chain' = chain \cup {b} /\ top' = b
      /\ CpInv' /\ cps' \subseteq Signed \cup {Genesis} /\ last_cull' \in Nat
      /\ \A a \in chain' : Height[a] <= Height[b]
      /\ \A a \in left : Height[b] <= Height[a]
  BY Zenon, <1>1, <1>2, ConnectBlock DEF b
<1>4. locked' \subseteq everLocked' /\ everLocked' \subseteq Block
  BY Zenon, <1>0, <1>1, <1>3, LockInTypes DEF TypeOK
<1>5. TypeOK' /\ SwitchInv' /\ (mode' = "idle" \/ fork' = fork)
  <2>1. CASE left = {b}
    <3>1. /\ alt' = alt \ chosen /\ EndSwitch
          /\ altcp' = [a \in Block |-> IF a \in chosen THEN None ELSE altcp[a]]
      BY Zenon, <2>1 DEF ConnectNext, b
    <3>2. altcp' \in [Block -> Signed \cup {None}]
      BY <1>0, <3>1 DEF TypeOK
    <3>3. \A a \in Block : altcp'[a] # None => altcp'[a] = altcp[a]
      BY Zenon, <3>1
    <3>4. TypeOK'
      BY Zenon, <1>0, <1>1, <1>3, <1>4, <3>1, <3>2, EndSwitchFacts DEF TypeOK
    <3>5. SwitchInv'
      BY Zenon, <1>0, <1>3, <3>1, <3>3, EndSwitchFacts DEF SwitchInv
    <3>. QED  BY Zenon, <3>1, <3>4, <3>5, EndSwitchFacts
  <2>2. CASE left # {b}
    <3>1. /\ left' = left \ {b} /\ alt' = alt /\ altcp' = altcp /\ mode' = mode
          /\ fork' = fork /\ chosen' = chosen /\ original' = original
          /\ given' = given
      BY Zenon, <2>2 DEF ConnectNext, b, altVars
    <3>2. TypeOK'
      BY Zenon, <1>0, <1>1, <1>3, <1>4, <3>1 DEF TypeOK
    <3>3. left' # {}
      BY Zenon, <1>3, <2>2, <3>1
    <3>4. SwitchInv'
      BY Zenon, <1>0, <1>3, <3>1, <3>3 DEF SwitchInv
    <3>. QED  BY Zenon, <3>1, <3>2, <3>4
  <2>. QED  BY Zenon, <2>1, <2>2
<1>6. \A a \in locked : a \in chain'
  BY Zenon, <1>0, <1>2, <1>3 DEF LockInv
<1>7. LockInv'
  BY Zenon, <1>1, <1>2, <1>3, <1>5, <1>6, LockedInSwitch
<1>. QED  BY Zenon, <1>3, <1>5, <1>7 DEF FInv

LEMMA RestoreNextStep ==
  ASSUME FInv, RestoreNext
  PROVE  FInv'
<1>. DEFINE b == NextToConnect
<1>0. TypeOK /\ SwitchInv /\ LockInv
  BY Zenon DEF FInv
<1>1. /\ mode = "restore" /\ Extend(b, given[b]) /\ LockIn(locked, everLocked)
      /\ immutable' = immutable /\ invalid' = invalid /\ pops' = pops
      /\ restarts' = restarts /\ byWeight' = byWeight
      /\ alt' = alt /\ altcp' = altcp
  BY Zenon DEF RestoreNext, bounds, altVars
<1>2. mode # "idle"
  BY <1>1
<1>. HIDE DEF b
<1>3. /\ b \in left /\ b \in Block /\ chain' = chain \cup {b} /\ top' = b
      /\ CpInv' /\ cps' \subseteq Signed \cup {Genesis} /\ last_cull' \in Nat
      /\ \A a \in chain' : Height[a] <= Height[b]
      /\ \A a \in left : Height[b] <= Height[a]
  BY Zenon, <1>1, <1>2, ConnectBlock DEF b
<1>4. locked' \subseteq everLocked' /\ everLocked' \subseteq Block
  BY Zenon, <1>0, <1>1, <1>3, LockInTypes DEF TypeOK
<1>5. TypeOK' /\ SwitchInv' /\ (mode' = "idle" \/ fork' = fork)
  <2>1. CASE left = {b}
    <3>1. EndSwitch
      BY Zenon, <2>1 DEF RestoreNext, b
    <3>2. TypeOK'
      BY Zenon, <1>0, <1>1, <1>3, <1>4, <3>1, EndSwitchFacts DEF TypeOK
    <3>3. SwitchInv'
      BY Zenon, <1>0, <1>1, <1>3, <3>1, EndSwitchFacts DEF SwitchInv
    <3>. QED  BY Zenon, <3>1, <3>2, <3>3, EndSwitchFacts
  <2>2. CASE left # {b}
    <3>1. /\ left' = left \ {b} /\ mode' = mode /\ fork' = fork
          /\ chosen' = chosen /\ original' = original /\ given' = given
      BY Zenon, <2>2 DEF RestoreNext, b
    <3>2. TypeOK'
      BY Zenon, <1>0, <1>1, <1>3, <1>4, <3>1 DEF TypeOK
    <3>3. left' # {}
      BY Zenon, <1>3, <2>2, <3>1
    <3>4. SwitchInv'
      BY Zenon, <1>0, <1>1, <1>3, <3>1, <3>3 DEF SwitchInv
    <3>. QED  BY Zenon, <3>1, <3>2, <3>4
  <2>. QED  BY Zenon, <2>1, <2>2
<1>6. \A a \in locked : a \in chain'
  BY Zenon, <1>0, <1>2, <1>3 DEF LockInv
<1>7. LockInv'
  BY Zenon, <1>1, <1>2, <1>3, <1>5, <1>6, LockedInSwitch
<1>. QED  BY Zenon, <1>3, <1>5, <1>7 DEF FInv

(* Popping blocks and detaching their checkpoints.                         *)
LEMMA PopTo ==
  ASSUME TypeOK, CpInv, NEW b \in chain, chain' = PoppedTo(b), top' = b,
         CheckpointSet(cps'), \A d \in cps' : ~(Height[d] >= Height[b] + 1)
  PROVE  /\ chain' \subseteq Block /\ Genesis \in chain' /\ b \in chain'
         /\ \A a \in chain' : Height[a] <= Height[b]
         /\ CpInv' /\ cps' \subseteq Signed \cup {Genesis}
<1>1. /\ b \in Block /\ Height[b] \in Nat /\ Height[Genesis] <= Height[b]
      /\ Height[b] <= Height[b]
  <2>1. b \in Block  BY Zenon DEF TypeOK
  <2>. QED  BY <2>1, Heights, Basics
<1>2. CheckpointSet(cps')  OBVIOUS
<1>3. \A d \in cps' : Height[d] <= Height[b]
  <2>1. \A d \in cps' : Height[d] \in Nat
    BY Zenon, Heights DEF CheckpointSet
  <2>. QED  BY <1>1, <2>1
<1>4. /\ chain' \subseteq Block /\ Genesis \in chain' /\ b \in chain'
      /\ \A a \in chain' : Height[a] <= Height[b]
  BY Zenon, <1>1 DEF PoppedTo, TypeOK
<1>. QED
  BY Zenon, <1>2, <1>3, <1>4 DEF CpInv, CheckpointsOnChain, CheckpointSet

(* The checkpoints of a switch that fails, popped to the fork.             *)
LEMMA ConnectFailed ==
  ASSUME TypeOK, CpInv, SwitchInv, mode # "idle",
         FailedAndDetached(NextToConnect, given[NextToConnect], Height[fork] + 1)
  PROVE  /\ CheckpointSet(cps') /\ last_cull' \in Nat
         /\ \A d \in cps' : ~(Height[d] >= Height[fork] + 1)
<1>. DEFINE b == NextToConnect
<1>1. b \in left /\ b \in Block
  BY Zenon, LowestExists DEF NextToConnect, TypeOK, SwitchInv
<1>2. /\ given[b] \in Signed \cup {None} /\ Height[top] <= Height[b]
      /\ given[b] # None => Height[given[b]] = Height[b]
  BY Zenon, <1>1 DEF TypeOK, SwitchInv
<1>3. Height[fork] + 1 \in Nat /\ Height[Genesis] < Height[fork] + 1
  BY Basics
<1>. HIDE DEF b
<1>. QED  BY Zenon, <1>1, <1>2, <1>3, FailedDetach DEF b

LEMMA ConnectFailsStep ==
  ASSUME FInv, ConnectFails
  PROVE  FInv'
<1>. DEFINE b == NextToConnect
<1>0. TypeOK /\ CpInv /\ SwitchInv /\ LockInv
  BY Zenon DEF FInv
<1>1. /\ mode = "connect" /\ LockIn(locked, everLocked)
      /\ chain' = PoppedTo(fork) /\ top' = fork
      /\ FailedAndDetached(b, given[b], Height[fork] + 1)
      /\ invalid' = invalid \cup left /\ alt' = alt \ {b}
      /\ altcp' = [altcp EXCEPT ![b] = None]
      /\ immutable' = immutable /\ pops' = pops
      /\ restarts' = restarts /\ byWeight' = byWeight
  BY Zenon DEF ConnectFails, bounds
<1>2. mode # "idle"
  BY <1>1
<1>. HIDE DEF b
<1>3. /\ chain' \subseteq Block /\ Genesis \in chain' /\ fork \in chain'
      /\ \A a \in chain' : Height[a] <= Height[fork]
      /\ CpInv' /\ cps' \subseteq Signed \cup {Genesis} /\ last_cull' \in Nat
  <2>1. fork \in chain  BY Zenon, <1>0 DEF TypeOK
  <2>2. /\ CheckpointSet(cps') /\ last_cull' \in Nat
        /\ \A d \in cps' : ~(Height[d] >= Height[fork] + 1)
    BY Zenon, <1>0, <1>1, <1>2, ConnectFailed DEF b
  <2>. QED  BY Zenon, <1>0, <1>1, <2>1, <2>2, PopTo
<1>4. locked' \subseteq everLocked' /\ everLocked' \subseteq Block
  BY Zenon, <1>0, <1>1, <1>3, LockInTypes DEF TypeOK
<1>5. /\ altcp' \in [Block -> Signed \cup {None}]
      /\ \A a \in Block : altcp'[a] # None => altcp'[a] = altcp[a]
  <2>1. altcp \in [Block -> Signed \cup {None}]  BY Zenon, <1>0 DEF TypeOK
  <2>2. altcp' = [altcp EXCEPT ![b] = None]  BY Zenon, <1>1
  <2>3. altcp' \in [Block -> Signed \cup {None}]  BY Zenon, <2>1, <2>2
  <2>4. ASSUME NEW a \in Block, altcp'[a] # None PROVE altcp'[a] = altcp[a]
    BY Zenon, <2>1, <2>2, <2>4
  <2>. QED  BY Zenon, <2>3, <2>4
<1>6. TypeOK' /\ SwitchInv' /\ (mode' = "idle" \/ fork' = fork)
  <2>1. CASE original = {}
    <3>1. EndSwitch
      BY Zenon, <2>1 DEF ConnectFails
    <3>2. TypeOK'
      BY Zenon, <1>0, <1>1, <1>3, <1>4, <1>5, <3>1, EndSwitchFacts DEF TypeOK
    <3>3. SwitchInv'
      BY Zenon, <1>0, <1>1, <1>3, <1>5, <3>1, EndSwitchFacts DEF SwitchInv
    <3>. QED  BY Zenon, <3>1, <3>2, <3>3, EndSwitchFacts
  <2>2. CASE original # {}
    <3>1. /\ mode' = "restore" /\ left' = original /\ fork' = fork
          /\ chosen' = chosen /\ original' = original /\ given' = given
      BY Zenon, <2>2 DEF ConnectFails
    <3>2. TypeOK'
      BY Zenon, <1>0, <1>1, <1>3, <1>4, <1>5, <3>1 DEF TypeOK
    <3>3. \A a \in original : Height[fork] <= Height[a]
      <4>1. \A a \in original : Height[a] \in Nat /\ Height[fork] < Height[a]
        BY Zenon, <1>0, Heights DEF TypeOK, SwitchInv
      <4>. QED  BY <1>0, <4>1, Basics
    <3>4. SwitchInv'
      BY Zenon, <1>0, <1>1, <1>3, <1>5, <2>2, <3>1, <3>3 DEF SwitchInv
    <3>. QED  BY Zenon, <3>1, <3>2, <3>4
  <2>. QED  BY Zenon, <2>1, <2>2
<1>7. \A a \in locked : a \in chain'
  BY Zenon, <1>0, <1>1, <1>2 DEF LockInv, PoppedTo
<1>8. LockInv'
  BY Zenon, <1>1, <1>2, <1>3, <1>6, <1>7, LockedInSwitch
<1>. QED  BY Zenon, <1>3, <1>6, <1>8 DEF FInv

LEMMA RestoreFailsStep ==
  ASSUME FInv, RestoreFails
  PROVE  FInv'
<1>. DEFINE b == NextToConnect
<1>0. TypeOK /\ CpInv /\ SwitchInv /\ LockInv
  BY Zenon DEF FInv
<1>1. /\ mode = "restore" /\ LockIn(locked, everLocked)
      /\ invalid' = invalid \cup MarkedInvalid(b) /\ AbortBlock(b, given[b])
      /\ byWeight' = FALSE /\ EndSwitch
      /\ chain' = chain /\ top' = top /\ alt' = alt /\ altcp' = altcp
      /\ immutable' = immutable /\ pops' = pops /\ restarts' = restarts
  BY Zenon DEF RestoreFails, bounds, chainVars, altVars
<1>2. mode # "idle"
  BY <1>1
<1>3. b \in left /\ b \in Block
  BY Zenon, <1>0, <1>2, LowestExists DEF NextToConnect, TypeOK, SwitchInv
<1>. HIDE DEF b
<1>4. cps' \subseteq cps /\ CheckpointSet(cps') /\ last_cull' \in Nat
  <2>1. Height[fork] < Height[b] /\ Height[b] \in Nat
    BY Zenon, <1>0, <1>1, <1>3, Heights DEF SwitchInv
  <2>2. Height[Genesis] < Height[b]
    BY <1>0, <2>1, Basics
  <2>3. /\ given[b] \in Signed \cup {None} /\ Height[top] <= Height[b]
        /\ given[b] # None => Height[given[b]] = Height[b]
    BY Zenon, <1>0, <1>2, <1>3 DEF TypeOK, SwitchInv
  <2>. QED  BY Zenon, <1>0, <1>1, <1>3, <2>2, <2>3, Abort
<1>5. CpInv'
  BY Zenon, <1>0, <1>1, <1>4 DEF CpInv, CheckpointsOnChain
<1>6. TypeOK'
  <2>1. locked' \subseteq everLocked' /\ everLocked' \subseteq Block
    BY Zenon, <1>0, <1>1, LockInTypes DEF TypeOK
  <2>. QED
    BY Zenon, <1>0, <1>1, <1>3, <1>4, <2>1, EndSwitchFacts
       DEF TypeOK, MarkedInvalid
<1>7. SwitchInv'
  BY Zenon, <1>0, <1>1, EndSwitchFacts DEF SwitchInv
<1>8. LockInv'
  <2>1. \A a \in locked : a \in chain'
    BY Zenon, <1>0, <1>1, <1>2 DEF LockInv
  <2>. QED  BY Zenon, <1>1, <1>2, <1>5, <1>6, <2>1, EndSwitchFacts, LockedInSwitch
<1>. QED  BY Zenon, <1>5, <1>6, <1>7, <1>8 DEF FInv

LEMMA FormCheckpointStep ==
  ASSUME FInv, NEW c \in Signed, FormCheckpoint(c)
  PROVE  FInv'
<1>0. TypeOK /\ CpInv /\ SwitchInv /\ LockInv
  BY Zenon DEF FInv
<1>1. /\ mode = "idle" /\ Height[c] < Height[top] + 1 /\ cps' = Store(cps, c)
      /\ byWeight' = FALSE /\ LockIn(locked, everLocked)
      /\ chain' = chain /\ top' = top /\ alt' = alt /\ altcp' = altcp
      /\ immutable' = immutable /\ last_cull' = last_cull /\ invalid' = invalid
      /\ mode' = mode /\ fork' = fork /\ chosen' = chosen /\ left' = left
      /\ original' = original /\ given' = given
      /\ pops' = pops /\ restarts' = restarts
  BY Zenon DEF FormCheckpoint, chainVars, altVars, switchVars, bounds
<1>2. /\ CheckpointSet(cps')
      /\ \A d \in cps : \E e \in cps' : Height[e] = Height[d]
      /\ \A e \in cps' : e \in cps \/ e = c
  <2>1. c \in Signed \cup {None} /\ CheckpointSet(cps)
    BY Zenon, <1>0 DEF CpInv
  <2>2. /\ CheckpointSet(Store(cps, c))
        /\ \A d \in cps : \E e \in Store(cps, c) : Height[e] = Height[d]
        /\ \A e \in Store(cps, c) : e \in cps \/ (e = c /\ c # None)
    BY Zenon, <2>1, StoreKeeps
  <2>. QED  BY Zenon, <1>1, <2>2
<1>3. CpInv'
  <2>1. Height[c] <= Height[top]
    <3>1. Height[c] \in Nat  BY Zenon, Heights
    <3>. QED  BY <1>0, <1>1, <3>1, Basics
  <2>. QED  BY Zenon, <1>0, <1>1, <1>2, <2>1 DEF CpInv, CheckpointsOnChain
<1>4. TypeOK'
  <2>1. locked' \subseteq everLocked' /\ everLocked' \subseteq Block
    BY Zenon, <1>0, <1>1, LockInTypes DEF TypeOK
  <2>. QED  BY Zenon, <1>0, <1>1, <1>2, <2>1 DEF TypeOK
<1>5. SwitchInv'
  BY Zenon, <1>0, <1>1 DEF SwitchInv
<1>6. ImmutableHeight(cps, Height[top] + 1) <= ImmutableHeight(cps', Height[top] + 1)
  <2>1. /\ Height[top] + 1 \in Nat /\ Height[Genesis] <= Height[top] + 1
        /\ Height[top] + 1 <= Height[top] + 1
    BY <1>0, Basics
  <2>. QED  BY Zenon, <1>0, <1>2, <2>1, ImmutableGrows DEF CpInv
<1>7. LockInv'
  <2>1. ASSUME NEW a \in locked PROVE a \in chain' /\ Height[a] <= NewImmutable'
    <3>1. a \in chain /\ Height[a] <= NewImmutable
      BY Zenon, <1>0, <1>1 DEF LockInv
    <3>2. Height[a] \in Nat  BY Zenon, <1>0, <3>1, Heights DEF TypeOK
    <3>. DEFINE x == ImmutableHeight(cps, Height[top] + 1)
                y == ImmutableHeight(cps', Height[top'] + 1)
    <3>3. x \in Nat /\ y \in Nat /\ immutable \in Nat /\ x <= y
      <4>1. (TypeOK /\ CpInv => ImmutableHeight(cps, Height[top] + 1) \in Nat)'
        BY ImmutableIsNat, PTL
      <4>. QED  BY Zenon, <1>0, <1>1, <1>3, <1>4, <1>6, <4>1, ImmutableIsNat DEF TypeOK
    <3>4. NewImmutable = Larger(x, immutable) /\ NewImmutable' = Larger(y, immutable)
      BY Zenon, <1>1 DEF NewImmutable
    <3>. HIDE DEF x, y
    <3>5. Height[a] <= NewImmutable'
      BY <3>1, <3>2, <3>3, <3>4 DEF Larger
    <3>. QED  BY Zenon, <1>1, <3>1, <3>5
  <2>. QED  BY Zenon, <1>1, <1>3, <1>4, <2>1, LockInIdle
<1>. QED  BY Zenon, <1>3, <1>4, <1>5, <1>7 DEF FInv

LEMMA PopBlocksStep ==
  ASSUME FInv, NEW b \in chain, PopBlocks(b)
  PROVE  FInv'
<1>0. TypeOK /\ CpInv /\ SwitchInv /\ LockInv
  BY Zenon DEF FInv
<1>1. /\ mode = "idle" /\ pops < MaxPops /\ pops' = pops + 1
      /\ chain' = PoppedTo(b) /\ top' = b /\ CheckpointsDetach(Height[b] + 1)
      /\ byWeight' = FALSE /\ LockIn({}, {})
      /\ alt' = alt /\ altcp' = altcp /\ immutable' = immutable
      /\ invalid' = invalid /\ restarts' = restarts
      /\ mode' = mode /\ fork' = fork /\ chosen' = chosen /\ left' = left
      /\ original' = original /\ given' = given
  BY Zenon DEF PopBlocks, altVars, switchVars
<1>2. /\ chain' \subseteq Block /\ Genesis \in chain' /\ b \in chain'
      /\ \A a \in chain' : Height[a] <= Height[b]
      /\ CpInv' /\ cps' \subseteq Signed \cup {Genesis} /\ last_cull' \in Nat
  <2>1. Height[b] + 1 \in Nat /\ Height[Genesis] < Height[b] + 1
    <3>1. b \in Block  BY Zenon, <1>0 DEF TypeOK
    <3>. QED  BY <3>1, Heights
  <2>2. /\ cps' = {d \in cps : ~(Height[d] >= Height[b] + 1)}
        /\ CheckpointSet(cps') /\ last_cull' \in Nat
    BY Zenon, <1>0, <1>1, <2>1, Detach
  <2>. QED  BY Zenon, <1>0, <1>1, <2>2, PopTo
<1>3. TypeOK'
  <2>1. locked' \subseteq everLocked' /\ everLocked' \subseteq Block
    BY Zenon, <1>1, <1>2 DEF LockIn
  <2>2. pops' \in 0..MaxPops
    <3>1. pops \in 0..MaxPops  BY Zenon, <1>0 DEF TypeOK
    <3>. QED  BY <1>1, <3>1, BoundAssumption
  <2>. QED  BY Zenon, <1>0, <1>1, <1>2, <2>1, <2>2 DEF TypeOK, SwitchInv
<1>4. SwitchInv'
  BY Zenon, <1>0, <1>1, <1>2 DEF SwitchInv
<1>5. LockInv'
  <2>1. \A a \in {} : a \in chain' /\ Height[a] <= NewImmutable'
    OBVIOUS
  <2>2. TypeOK' /\ CpInv' /\ mode' = "idle" /\ LockIn({}, {})
    BY Zenon, <1>1, <1>2, <1>3
  <2>. QED  BY <2>1, <2>2, LockInIdle
<1>. QED  BY Zenon, <1>2, <1>3, <1>4, <1>5 DEF FInv

LEMMA RestartStep ==
  ASSUME FInv, Restart
  PROVE  FInv'
<1>0. TypeOK /\ CpInv /\ SwitchInv /\ LockInv
  BY Zenon DEF FInv
<1>1. /\ mode = "idle" /\ restarts < MaxRestarts /\ restarts' = restarts + 1
      /\ immutable' = 0 /\ last_cull' = 0 /\ invalid' = {}
      /\ LockIn({}, everLocked)
      /\ chain' = chain /\ top' = top /\ cps' = cps
      /\ byWeight' = byWeight /\ pops' = pops
      /\ mode' = mode /\ fork' = fork /\ chosen' = chosen /\ left' = left
      /\ original' = original /\ given' = given
  BY Zenon DEF Restart, chainVars, switchVars
<1>2. /\ alt' \subseteq Block \ {Genesis}
      /\ altcp' \in [Block -> Signed \cup {None}]
      /\ \A a \in Block : altcp'[a] # None => altcp'[a] = altcp[a]
  <2>1. CASE alt' = {} /\ altcp' = [a \in Block |-> None]
    BY <2>1
  <2>2. CASE UNCHANGED altVars
    BY Zenon, <1>0, <2>2 DEF altVars, TypeOK
  <2>. QED  BY Zenon, <2>1, <2>2 DEF Restart
<1>3. CpInv'
  BY Zenon, <1>0, <1>1 DEF CpInv, CheckpointsOnChain
<1>4. TypeOK'
  <2>1. locked' \subseteq everLocked' /\ everLocked' \subseteq Block
    BY Zenon, <1>0, <1>1 DEF LockIn, TypeOK
  <2>2. restarts' \in 0..MaxRestarts /\ 0 \in Nat
    <3>1. restarts \in 0..MaxRestarts  BY Zenon, <1>0 DEF TypeOK
    <3>. QED  BY <1>1, <3>1, BoundAssumption
  <2>. QED  BY Zenon, <1>0, <1>1, <1>2, <2>1, <2>2 DEF TypeOK
<1>5. SwitchInv'
  BY Zenon, <1>0, <1>1, <1>2 DEF SwitchInv
<1>6. LockInv'
  <2>1. \A a \in {} : a \in chain' /\ Height[a] <= NewImmutable'
    OBVIOUS
  <2>2. TypeOK' /\ CpInv' /\ mode' = "idle" /\ LockIn({}, everLocked)
    BY Zenon, <1>1, <1>3, <1>4
  <2>. QED  BY <2>1, <2>2, LockInIdle
<1>. QED  BY Zenon, <1>3, <1>4, <1>5, <1>6 DEF FInv

LEMMA FInit ==
  ASSUME Init
  PROVE  FInv
<1>1. /\ top = Genesis /\ chain = {Genesis} /\ alt = {} /\ cps = {Genesis}
      /\ altcp = [b \in Block |-> None] /\ given = [b \in Block |-> None]
      /\ immutable = 0 /\ last_cull = 0 /\ invalid = {}
      /\ mode = "idle" /\ fork = Genesis
      /\ chosen = {} /\ left = {} /\ original = {}
      /\ pops = 0 /\ restarts = 0
      /\ locked = {} /\ everLocked = {} /\ byWeight = TRUE
  BY Zenon DEF Init
<1>2. Genesis \in Block /\ Height[Genesis] \in Nat /\ Height[Genesis] <= Height[Genesis]
  <2>1. Genesis \in Block  BY Zenon, TreeAssumption
  <2>. QED  BY <2>1, Heights
<1>3. TypeOK
  <2>1. /\ altcp \in [Block -> Signed \cup {None}]
        /\ given \in [Block -> Signed \cup {None}]
    BY <1>1
  <2>2. pops \in 0..MaxPops /\ restarts \in 0..MaxRestarts /\ 0 \in Nat
    BY <1>1, BoundAssumption
  <2>. QED  BY Zenon, <1>1, <1>2, <2>1, <2>2 DEF TypeOK
<1>4. CpInv
  BY Zenon, <1>1, <1>2 DEF CpInv, CheckpointSet, CheckpointsOnChain
<1>5. SwitchInv
  <2>1. \A b \in Block : altcp[b] = None /\ given[b] = None
    BY Zenon, <1>1
  <2>. QED  BY Zenon, <1>1, <1>2, <2>1 DEF SwitchInv
<1>6. LockInv
  BY Zenon, <1>1 DEF LockInv
<1>. QED  BY Zenon, <1>3, <1>4, <1>5, <1>6 DEF FInv

LEMMA Stutter ==
  ASSUME FInv, UNCHANGED vars
  PROVE  FInv'
<1>1. /\ chain' = chain /\ top' = top /\ alt' = alt /\ altcp' = altcp
      /\ cps' = cps /\ immutable' = immutable /\ last_cull' = last_cull
      /\ invalid' = invalid /\ mode' = mode /\ fork' = fork
      /\ chosen' = chosen /\ left' = left /\ original' = original
      /\ given' = given /\ pops' = pops /\ restarts' = restarts
      /\ locked' = locked /\ everLocked' = everLocked /\ byWeight' = byWeight
  BY Zenon DEF vars, chainVars, altVars, cpVars, switchVars, bounds, lockVars
<1>2. TypeOK'    BY Zenon, <1>1 DEF FInv, TypeOK
<1>3. CpInv'     BY Zenon, <1>1 DEF FInv, CpInv, CheckpointsOnChain
<1>4. SwitchInv' BY Zenon, <1>1 DEF FInv, SwitchInv
<1>5. LockInv'   BY Zenon, <1>1 DEF FInv, LockInv, NewImmutable
<1>. QED  BY Zenon, <1>2, <1>3, <1>4, <1>5 DEF FInv

LEMMA FNext ==
  ASSUME FInv, [Next]_vars
  PROVE  FInv'
<1>1. CASE UNCHANGED vars
  BY Zenon, <1>1, Stutter
<1>2. ASSUME NEW b \in Block \ {Genesis},
             \/ \E c \in Offered(b) : \/ AddToMainChain(b, c)
                                      \/ KeepMainChain(b, c)
                                      \/ BeginSwitch(b, c)
             \/ RefuseAlternative(b)
      PROVE  FInv'
  BY Zenon, <1>2, AddToMainChainStep, KeepMainChainStep, BeginSwitchStep,
     RefuseAlternativeStep
<1>3. CASE ConnectNext \/ ConnectFails \/ RestoreNext \/ RestoreFails
  BY Zenon, <1>3, ConnectNextStep, ConnectFailsStep, RestoreNextStep,
     RestoreFailsStep
<1>4. ASSUME NEW c \in Signed, FormCheckpoint(c)
      PROVE  FInv'
  BY Zenon, <1>4, FormCheckpointStep
<1>5. ASSUME NEW b \in chain, PopBlocks(b)
      PROVE  FInv'
  BY Zenon, <1>5, PopBlocksStep
<1>6. CASE Restart
  BY Zenon, <1>6, RestartStep
<1>. QED  BY Zenon, <1>1, <1>2, <1>3, <1>4, <1>5, <1>6 DEF Next

LEMMA ForkInvariant == Spec => []FInv
BY FInit, FNext, PTL DEF Spec

-----------------------------------------------------------------------------
(* Blocks in a row.                                                        *)

\* The blocks of S follow one another, the first of them on block f.
Linked(S, f) ==
  /\ \A x \in S : x # Genesis /\ Parent[x] \in S \cup {f}
  /\ \A x, y \in S : Height[x] = Height[y] => x = y

(* Connecting the lowest block of a row to the end of a path.              *)
LEMMA Connects ==
  ASSUME NEW S \in SUBSET Block, NEW t \in Block, Linked(S, t),
         NEW b \in S, \A c \in S : Height[b] <= Height[c]
  PROVE  /\ Height[b] = Height[t] + 1
         /\ Path(b) = Path(t) \cup {b} /\ Linked(S \ {b}, b)
<1>1. b \in Block \ {Genesis}
  BY Zenon DEF Linked
<1>2. \A x \in S : /\ x \in Block /\ Parent[x] \in Block /\ Parent[x] \in S \cup {t}
                   /\ Height[x] = Height[Parent[x]] + 1
                   /\ Height[x] \in Nat /\ Height[Parent[x]] \in Nat
  BY Zenon, TreeAssumption, Heights DEF Linked
<1>3. Parent[b] = t
  <2>1. ~(Height[b] <= Height[Parent[b]])  BY <1>1, <1>2
  <2>. QED  BY Zenon, <1>1, <1>2, <2>1
<1>4. Height[b] = Height[t] + 1  BY Zenon, <1>1, <1>2, <1>3
<1>5. Path(b) = Path(t) \cup {b}
  <2>1. Path(b) = {b} \cup Path(t)  BY Zenon, <1>1, <1>3, PathStep
  <2>. QED  BY Zenon, <2>1
<1>6. ASSUME NEW x \in S \ {b} PROVE Parent[x] # t
  <2>. SUFFICES ASSUME Parent[x] = t PROVE FALSE
    OBVIOUS
  <2>1. Height[x] = Height[b]  BY Zenon, <1>2, <1>4
  <2>. QED  BY Zenon, <1>1, <2>1 DEF Linked
<1>7. Linked(S \ {b}, b)  BY Zenon, <1>2, <1>6 DEF Linked
<1>. QED  BY Zenon, <1>4, <1>5, <1>7

(* What is above a block of a path is in a row on it.                      *)
LEMMA AboveLinked ==
  ASSUME NEW t \in Block, NEW f \in Path(t)
  PROVE  Linked({a \in Path(t) : Height[a] > Height[f]}, f)
<1>. DEFINE S == {a \in Path(t) : Height[a] > Height[f]}
<1>1. \A x \in Path(t) : x \in Block /\ Height[x] \in Nat
  BY Zenon, PathHeights
<1>2. ASSUME NEW x \in S PROVE x # Genesis /\ Parent[x] \in S \cup {f}
  <2>1. x # Genesis
    <3>. SUFFICES ASSUME x = Genesis PROVE FALSE
      OBVIOUS
    <3>. QED  BY <1>1, Heights
  <2>2. Parent[x] \in Path(t)
    BY Zenon, <2>1, PathFacts DEF HoldsPath
  <2>3. Height[x] = Height[Parent[x]] + 1
    BY Zenon, <1>1, <2>1, TreeAssumption
  <2>4. CASE Height[Parent[x]] = Height[f]
    BY Zenon, <2>2, <2>4, OnePerHeight, <2>1
  <2>5. CASE Height[Parent[x]] # Height[f]
    <3>1. Height[Parent[x]] > Height[f]  BY <1>1, <2>2, <2>3, <2>5
    <3>. QED  BY Zenon, <2>1, <2>2, <3>1
  <2>. QED  BY Zenon, <2>4, <2>5
<1>3. \A x, y \in S : Height[x] = Height[y] => x = y
  BY Zenon, OnePerHeight
<1>. QED  BY Zenon, <1>2, <1>3 DEF Linked

(* The chain that b completes is a row on the parent of its front block.   *)
LEMMA PrevsLinked ==
  ASSUME TypeOK, NEW b \in Block \ {Genesis}
  PROVE  Linked(Prevs(b) \cup {b}, Parent[Front(b)])
<1>. DEFINE p == Parent[b]
            S == Prevs(b) \cup {b}
            f == Front(b)
<1>0. alt \subseteq Block \ {Genesis}  BY Zenon DEF TypeOK
<1>1. p \in Block /\ Height[b] = Height[p] + 1
  BY Zenon, TreeAssumption
<1>2. \A x \in Path(p) : /\ x \in Block /\ Height[x] \in Nat /\ Height[p] \in Nat
                         /\ Height[x] <= Height[p]
  BY Zenon, <1>1, PathHeights
<1>3. CASE p \notin alt
  <2>1. Prevs(b) = {} /\ f = b  BY Zenon, <1>3, PrevsFacts DEF Front
  <2>. QED  BY Zenon, <2>1 DEF Linked
<1>4. CASE p \in alt
  <2>1. /\ Prevs(b) \subseteq alt /\ Prevs(b) \subseteq Path(p) /\ p \in Prevs(b)
    BY Zenon, <1>4, PrevsFacts
  <2>2. f \in Prevs(b) /\ \A a \in Prevs(b) : Height[f] <= Height[a]
    <3>1. f = Lowest(Prevs(b))  BY Zenon, <1>4 DEF Front
    <3>2. Prevs(b) \in SUBSET Block /\ Prevs(b) # {}  BY Zenon, <1>0, <2>1
    <3>. QED  BY Zenon, <3>1, <3>2, LowestExists
  <2>. HIDE DEF f
  <2>3. ASSUME NEW x \in Prevs(b), Parent[x] \notin Prevs(b) PROVE x = f
    <3>1. x \in Path(p) /\ x # Genesis /\ x \in Block  BY Zenon, <1>0, <2>1
    <3>2. Parent[x] \in Path(p) /\ Height[x] = Height[Parent[x]] + 1
      <4>1. HoldsPath(Path(p), p)  BY Zenon, <1>1, PathFacts
      <4>. QED  BY Zenon, <3>1, <4>1, TreeAssumption DEF HoldsPath
    <3>3. PICK y \in Path(p) : Height[Parent[x]] <= Height[y] /\ y \notin alt
      BY Zenon, <2>3, <3>2 DEF Prevs
    <3>4. ~(Height[x] <= Height[y])  BY Zenon, <3>3 DEF Prevs
    <3>5. y = Parent[x]
      <4>1. Height[y] = Height[Parent[x]]  BY <1>2, <3>1, <3>2, <3>3, <3>4
      <4>. QED  BY Zenon, <1>1, <3>2, <4>1, OnePerHeight
    <3>6. ~(Height[f] <= Height[Parent[x]])
      BY Zenon, <2>2, <3>2, <3>3, <3>5 DEF Prevs
    <3>7. Height[f] = Height[x]
      <4>1. Height[f] <= Height[x] /\ f \in Path(p)  BY Zenon, <2>1, <2>2
      <4>. QED  BY <1>2, <3>1, <3>2, <3>6, <4>1
    <3>. QED  BY Zenon, <1>1, <2>1, <2>2, <3>1, <3>7, OnePerHeight
  <2>4. \A x \in S : x # Genesis /\ Parent[x] \in S \cup {Parent[f]}
    BY Zenon, <1>0, <2>1, <2>3
  <2>5. \A x \in Prevs(b) : Height[x] # Height[b]
    BY <1>1, <1>2, <2>1
  <2>6. \A x, y \in S : Height[x] = Height[y] => x = y
    BY Zenon, <1>1, <2>1, <2>5, OnePerHeight
  <2>. QED  BY Zenon, <2>4, <2>6 DEF Linked, f
<1>. QED  BY Zenon, <1>3, <1>4


-----------------------------------------------------------------------------
(* The main chain, its path and what a rollback gives back.                *)

\* The main chain is a path, and a switch has a row of blocks to connect to it,
\* as a rollback would.
PathInv ==
  /\ ChainIsPath
  /\ mode # "idle" => Linked(left, top) /\ Linked(original, fork)

\* No block is on the main chain and alternative, but for those that a switch
\* has just connected.
AltInv ==
  /\ mode # "connect" => alt \cap chain = {}
  /\ mode = "connect" => /\ \A x \in chain : x \in alt => Height[x] > Height[fork]
                         /\ \A x \in chain : Height[x] > Height[fork] => x \in chosen
                         /\ left \subseteq chosen
  /\ alt \cap original = {}
  /\ mode = "idle" => original = {}

\* A switch disconnects at most one checkpoint, and the rollback has stored it
\* once it has connected the block; none is above the fork but that one.
RestoreInv ==
  /\ \A x, y \in original : given[x] # None /\ given[y] # None => x = y
  /\ mode = "restore" =>
        /\ original \ left \subseteq chain
        /\ \A c \in cps : Height[c] > Height[fork] => \E x \in original : c = given[x]
        /\ \A x \in original \ left : given[x] # None => given[x] \in cps

RInv == PathInv /\ AltInv /\ RestoreInv

LEMMA Popped ==
  ASSUME TypeOK, ChainIsPath, NEW b \in chain
  PROVE  PoppedTo(b) = Path(b)
<1>1. top \in Block /\ b \in Path(top)
  BY Zenon, Basics DEF ChainIsPath
<1>. QED  BY Zenon, <1>1, PathPrefix DEF PoppedTo, ChainIsPath

(* Nothing but the chain changes outside a switch.                         *)
LEMMA IdleStep ==
  ASSUME RInv, mode = "idle", mode' = "idle", ChainIsPath', alt' \cap chain' = {},
         UNCHANGED <<original, given>>
  PROVE  RInv'
<1>1. PathInv'  BY Zenon DEF PathInv
<1>2. "idle" # "connect" /\ "idle" # "restore"  OBVIOUS
<1>3. AltInv'  BY Zenon, <1>2 DEF RInv, AltInv
<1>4. RestoreInv'  BY Zenon, <1>2 DEF RInv, RestoreInv
<1>. QED  BY Zenon, <1>1, <1>3, <1>4 DEF RInv

(* The same at the end of a switch.                                        *)
LEMMA EndStep ==
  ASSUME EndSwitch, ChainIsPath', alt' \cap chain' = {}
  PROVE  RInv'
<1>1. mode' = "idle" /\ original' = {}  BY Zenon DEF EndSwitch
<1>2. "idle" # "connect" /\ "idle" # "restore"  OBVIOUS
<1>. QED  BY Zenon, <1>1, <1>2 DEF RInv, PathInv, AltInv, RestoreInv

LEMMA IdleAlt ==
  ASSUME RInv, mode = "idle"
  PROVE  ChainIsPath /\ alt \cap chain = {}
<1>1. mode # "connect"  OBVIOUS
<1>. QED  BY Zenon, <1>1 DEF RInv, PathInv, AltInv

LEMMA AddToMainChainRow ==
  ASSUME FInv, RInv, NEW b \in Block \ {Genesis}, NEW c, AddToMainChain(b, c)
  PROVE  RInv'
<1>1. /\ mode = "idle" /\ mode' = "idle" /\ alt' = alt /\ Parent[b] = top
      /\ original' = original /\ given' = given /\ b \notin alt
      /\ (chain' = chain /\ top' = top) \/ (chain' = chain \cup {b} /\ top' = b)
  BY Zenon DEF AddToMainChain, altVars, switchVars, chainVars, Extend, HaveBlock
<1>2. ChainIsPath /\ alt \cap chain = {}  BY Zenon, <1>1, IdleAlt
<1>3. ChainIsPath'
  <2>1. Path(b) = {b} \cup Path(top)  BY Zenon, <1>1, PathStep
  <2>. QED  BY Zenon, <1>1, <1>2, <2>1 DEF ChainIsPath
<1>4. alt' \cap chain' = {}  BY Zenon, <1>1, <1>2
<1>. QED  BY Zenon, <1>1, <1>3, <1>4, IdleStep

LEMMA OtherRow ==
  ASSUME FInv, RInv,
         \/ \E b \in Block \ {Genesis} :
              RefuseAlternative(b) \/ \E c \in Offered(b) : KeepMainChain(b, c)
         \/ \E c \in Signed : FormCheckpoint(c)
         \/ Restart
  PROVE  RInv'
<1>. DEFINE Same == /\ mode = "idle" /\ mode' = "idle" /\ chain' = chain /\ top' = top
                    /\ original' = original /\ given' = given
                    /\ alt' \subseteq alt \/ \E b : b \notin chain /\ alt' = alt \cup {b}
<1>1. Same
  <2>1. ASSUME NEW b \in Block \ {Genesis}, RefuseAlternative(b) PROVE Same
    BY Zenon, <2>1 DEF RefuseAlternative, Alternative, chainVars, switchVars, altVars
  <2>2. ASSUME NEW b \in Block \ {Genesis}, NEW c \in Offered(b), KeepMainChain(b, c)
        PROVE  Same
    BY Zenon, <2>2
       DEF KeepMainChain, Acceptable, Alternative, HaveBlock, StoreAlt, chainVars,
           switchVars
  <2>3. ASSUME NEW c \in Signed, FormCheckpoint(c) PROVE Same
    BY Zenon, <2>3 DEF FormCheckpoint, chainVars, switchVars, altVars
  <2>4. ASSUME Restart PROVE Same
    BY Zenon, <2>4 DEF Restart, chainVars, switchVars, altVars
  <2>. HIDE DEF Same
  <2>. QED  BY Zenon, <2>1, <2>2, <2>3, <2>4
<1>2. ChainIsPath /\ alt \cap chain = {}  BY Zenon, <1>1, IdleAlt
<1>3. ChainIsPath'  BY Zenon, <1>1, <1>2 DEF ChainIsPath
<1>4. alt' \cap chain' = {}  BY Zenon, <1>1, <1>2
<1>. QED  BY Zenon, <1>1, <1>3, <1>4, IdleStep

LEMMA PopBlocksRow ==
  ASSUME FInv, RInv, NEW b \in chain, PopBlocks(b)
  PROVE  RInv'
<1>1. /\ mode = "idle" /\ mode' = "idle" /\ chain' = PoppedTo(b) /\ top' = b
      /\ original' = original /\ given' = given /\ alt' = alt
  BY Zenon DEF PopBlocks, switchVars, altVars
<1>2. ChainIsPath /\ alt \cap chain = {} /\ TypeOK
  BY Zenon, <1>1, IdleAlt DEF FInv
<1>3. ChainIsPath'  BY Zenon, <1>1, <1>2, Popped DEF ChainIsPath
<1>4. alt' \cap chain' = {}  BY Zenon, <1>1, <1>2 DEF PoppedTo
<1>. QED  BY Zenon, <1>1, <1>3, <1>4, IdleStep


(* A checkpoint with another above it is immutable: at most one of those   *)
(* on the main chain is above the fork of an acceptable chain.             *)
LEMMA OneAbove ==
  ASSUME TypeOK, CpInv, NEW p \in cps, NEW q \in cps, NEW f \in Block,
         Height[f] + 1 > NewImmutable, Height[p] > Height[f]
  PROVE  ~(Height[p] < Height[q])
<1>. SUFFICES ASSUME Height[p] < Height[q] PROVE FALSE
  OBVIOUS
<1>. DEFINE h == Height[top] + 1
<1>1. h \in Nat /\ Height[Genesis] <= h  BY Basics
<1>2. /\ p \in Block /\ q \in Block /\ Height[p] \in Nat /\ Height[q] \in Nat
      /\ Height[f] \in Nat /\ Height[p] <= Height[top] /\ Height[q] <= Height[top]
  BY Zenon, Heights DEF CpInv, CheckpointSet, CheckpointsOnChain
<1>3. Height[p] <= h /\ Height[q] <= h  BY <1>2, Basics
<1>4. IsImmutable(cps, h, p)  BY Zenon, <1>3 DEF IsImmutable
<1>5. Height[p] <= ImmutableHeight(cps, h)
  BY Zenon, <1>1, <1>4, ImmutableCheckpoint DEF CpInv
<1>6. /\ ImmutableHeight(cps, h) \in Nat /\ NewImmutable \in Nat
      /\ ImmutableHeight(cps, h) <= NewImmutable
  BY Zenon, ImmutableIsNat
<1>. HIDE DEF h
<1>. QED  BY <1>2, <1>5, <1>6

LEMMA BeginSwitchRow ==
  ASSUME FInv, RInv, NEW b \in Block \ {Genesis}, NEW c \in Offered(b),
         BeginSwitch(b, c)
  PROVE  RInv'
<1>0. TypeOK /\ CpInv  BY Zenon DEF FInv
<1>1. /\ mode = "idle" /\ Acceptable(b) /\ alt' = alt \cup {b} /\ b \notin chain
      /\ mode' = "connect" /\ fork' = Parent[Front(b)]
      /\ chosen' = Prevs(b) \cup {b} /\ left' = Prevs(b) \cup {b}
      /\ original' = {a \in chain : Height[a] > Height[fork']}
      /\ chain' = PoppedTo(fork') /\ top' = fork'
  BY Zenon DEF BeginSwitch, StoreAlt, Acceptable, Alternative, HaveBlock
<1>2. ChainIsPath /\ alt \cap chain = {}  BY Zenon, <1>1, IdleAlt
<1>3. fork' \in chain /\ fork' \in Block /\ Height[fork'] + 1 > NewImmutable
  <2>1. Parent[Front(b)] \in chain /\ AltAllowed(Front(b))
    <3>1. CASE Parent[b] \in alt
      BY Zenon, <1>1, <3>1 DEF Acceptable, Connected
    <3>2. CASE Parent[b] \notin alt
      <4>1. Front(b) = b  BY Zenon, <3>2 DEF Front
      <4>. QED  BY Zenon, <1>1, <3>2, <4>1 DEF Acceptable, Alternative
    <3>. QED  BY Zenon, <3>1, <3>2
  <2>2. Height[Front(b)] = Height[Parent[Front(b)]] + 1
    BY Zenon, <1>0, FrontFacts
  <2>. QED  BY Zenon, <1>0, <1>1, <2>1, <2>2 DEF AltAllowed, TypeOK
<1>4. PathInv'
  <2>1. ChainIsPath'  BY Zenon, <1>0, <1>1, <1>2, <1>3, Popped DEF ChainIsPath
  <2>2. Linked(left', top')  BY Zenon, <1>0, <1>1, PrevsLinked
  <2>3. Linked(original', fork')
    BY Zenon, <1>0, <1>1, <1>2, <1>3, Basics, AboveLinked DEF ChainIsPath
  <2>. QED  BY Zenon, <2>1, <2>2, <2>3 DEF PathInv
<1>5. AltInv'
  <2>1. "connect" # "idle"  OBVIOUS
  <2>2. \A x \in chain' : x \in chain /\ Height[x] <= Height[fork']
    BY Zenon, <1>1 DEF PoppedTo
  <2>3. \A x \in chain' : x \notin alt'  BY Zenon, <1>1, <1>2, <2>2
  <2>4. \A x \in chain' : ~(Height[x] > Height[fork'])
    <3>1. \A x \in chain' : Height[x] \in Nat /\ Height[fork'] \in Nat
      BY Zenon, <1>0, <1>3, <2>2, Heights DEF TypeOK
    <3>. QED  BY <2>2, <3>1
  <2>5. alt' \cap original' = {}  BY Zenon, <1>1, <1>2
  <2>. QED  BY Zenon, <1>1, <2>1, <2>3, <2>4, <2>5 DEF AltInv
<1>6. RestoreInv'
  <2>1. "connect" # "restore"  OBVIOUS
  <2>2. ASSUME NEW x \in original', given'[x] # None
        PROVE  \E p \in cps : Height[p] = Height[x]
    <3>1. x \in Block /\ x # b /\ x \notin Prevs(b)
      BY Zenon, <1>0, <1>1, <1>2, FrontFacts DEF TypeOK
    <3>2. given'[x] = CASE x = b -> c
                        [] x \in Prevs(b) -> CheckpointOf(x)
                        [] x \in original' -> CheckpointAt(Height[x])
                        [] OTHER -> None
      BY Zenon, <3>1 DEF BeginSwitch
    <3>3. given'[x] = CheckpointAt(Height[x])  BY <3>1, <3>2
    <3>. QED  BY Zenon, <2>2, <3>3 DEF CheckpointAt
  <2>3. ASSUME NEW x \in original', NEW y \in original',
               given'[x] # None, given'[y] # None
        PROVE  ~(Height[x] < Height[y])
    <3>1. PICK p \in cps : Height[p] = Height[x]  BY Zenon, <2>2, <2>3
    <3>2. PICK q \in cps : Height[q] = Height[y]  BY Zenon, <2>2, <2>3
    <3>3. Height[p] > Height[fork']  BY Zenon, <1>1, <3>1
    <3>4. PICK f \in Block : f = fork'  BY Zenon, <1>3
    <3>5. Height[f] + 1 > NewImmutable /\ Height[p] > Height[f]
      BY Zenon, <1>3, <3>3, <3>4
    <3>6. ~(Height[p] < Height[q])  BY Zenon, <1>0, <3>5, OneAbove
    <3>. QED  BY Zenon, <3>1, <3>2, <3>6
  <2>4. ASSUME NEW x \in original', NEW y \in original',
               given'[x] # None, given'[y] # None
        PROVE  x = y
    <3>1. x \in chain /\ y \in chain /\ Height[x] \in Nat /\ Height[y] \in Nat
      BY Zenon, <1>0, <1>1, Heights DEF TypeOK
    <3>2. ~(Height[x] < Height[y]) /\ ~(Height[y] < Height[x])
      BY Zenon, <2>3, <2>4
    <3>3. Height[x] = Height[y]  BY <3>1, <3>2
    <3>. QED  BY Zenon, <1>0, <1>2, <3>1, <3>3, Basics, OnePerHeight DEF ChainIsPath
  <2>. QED  BY Zenon, <1>1, <2>1, <2>4 DEF RestoreInv
<1>. QED  BY Zenon, <1>4, <1>5, <1>6 DEF RInv

(* The next block of a switch or a rollback lengthens the path.            *)
LEMMA ConnectRow ==
  ASSUME FInv, RInv, mode # "idle", NEW b, b = NextToConnect, Extend(b, given[b])
  PROVE  /\ b \in left /\ b \in Block /\ Height[fork] < Height[b]
         /\ chain' = chain \cup {b} /\ top' = b
         /\ ChainIsPath' /\ Linked(left \ {b}, b)
<1>1. left \in SUBSET Block /\ left # {} /\ top \in Block /\ fork \in chain /\ TypeOK
  BY Zenon, Basics DEF FInv, TypeOK, SwitchInv
<1>2. ChainIsPath /\ Linked(left, top)  BY Zenon DEF RInv, PathInv
<1>3. chain' = chain \cup {b} /\ top' = b  BY Zenon DEF Extend
<1>4. /\ b \in left /\ Height[b] = Height[top] + 1
      /\ Path(b) = Path(top) \cup {b} /\ Linked(left \ {b}, b)
  <2>1. PICK S : S = left  BY Zenon
  <2>2. PICK t : t = top  BY Zenon
  <2>3. S \in SUBSET Block /\ S # {} /\ t \in Block /\ Linked(S, t) /\ b = Lowest(S)
    BY Zenon, <1>1, <1>2, <2>1, <2>2 DEF NextToConnect
  <2>4. b \in S /\ \A c \in S : Height[b] <= Height[c]
    BY Zenon, <2>3, LowestExists
  <2>5. /\ Height[b] = Height[t] + 1
        /\ Path(b) = Path(t) \cup {b} /\ Linked(S \ {b}, b)
    BY Zenon, <2>3, <2>4, Connects
  <2>. QED  BY Zenon, <2>1, <2>2, <2>4, <2>5
<1>5. ChainIsPath'  BY Zenon, <1>2, <1>3, <1>4 DEF ChainIsPath
<1>6. Height[fork] < Height[b]
  <2>1. Height[fork] <= Height[top]  BY Zenon, <1>1 DEF FInv, SwitchInv
  <2>. QED  BY <1>1, <1>4, <2>1, Basics
<1>. QED  BY Zenon, <1>1, <1>3, <1>4, <1>5, <1>6

LEMMA ConnectNextRow ==
  ASSUME FInv, RInv, ConnectNext
  PROVE  RInv'
<1>. DEFINE b == NextToConnect
<1>1. mode = "connect" /\ Extend(b, given[b])  BY Zenon DEF ConnectNext
<1>2. mode # "idle" /\ mode # "restore"  BY <1>1
<1>. HIDE DEF b
<1>3. /\ b \in left /\ b \in Block /\ Height[fork] < Height[b]
      /\ chain' = chain \cup {b} /\ top' = b
      /\ ChainIsPath' /\ Linked(left \ {b}, b)
  BY Zenon, <1>1, <1>2, ConnectRow DEF b
<1>4. /\ \A x \in chain : x \in alt => Height[x] > Height[fork]
      /\ \A x \in chain : Height[x] > Height[fork] => x \in chosen
      /\ left \subseteq chosen /\ alt \cap original = {}
  BY Zenon, <1>1 DEF RInv, AltInv
<1>5. CASE left = {b}
  <2>1. alt' = alt \ chosen /\ EndSwitch  BY Zenon, <1>5 DEF ConnectNext, b
  <2>2. alt' \cap chain' = {}  BY Zenon, <1>3, <1>4, <2>1
  <2>. QED  BY Zenon, <1>3, <2>1, <2>2, EndStep
<1>6. CASE left # {b}
  <2>1. /\ left' = left \ {b} /\ alt' = alt /\ mode' = mode /\ fork' = fork
        /\ chosen' = chosen /\ original' = original /\ given' = given
    BY Zenon, <1>6 DEF ConnectNext, b, altVars
  <2>2. PathInv'  BY Zenon, <1>2, <1>3, <2>1 DEF RInv, PathInv
  <2>3. Height[b] > Height[fork]
    <3>1. Height[b] \in Nat /\ Height[fork] \in Nat
      BY Zenon, <1>3, Heights, Basics DEF FInv
    <3>. QED  BY <1>3, <3>1
  <2>4. AltInv'
    <3>1. \A x \in chain' : x \in alt' => Height[x] > Height[fork']
      BY Zenon, <1>3, <1>4, <2>1, <2>3
    <3>2. \A x \in chain' : Height[x] > Height[fork'] => x \in chosen'
      BY Zenon, <1>3, <1>4, <2>1
    <3>. QED  BY Zenon, <1>1, <1>2, <1>4, <2>1, <3>1, <3>2 DEF AltInv
  <2>5. RestoreInv'  BY Zenon, <1>2, <2>1 DEF RInv, RestoreInv
  <2>. QED  BY Zenon, <2>2, <2>4, <2>5 DEF RInv
<1>. QED  BY Zenon, <1>5, <1>6

LEMMA ConnectFailsRow ==
  ASSUME FInv, RInv, ConnectFails
  PROVE  RInv'
<1>0. TypeOK /\ CpInv /\ fork \in chain  BY Zenon DEF FInv, TypeOK
<1>1. /\ mode = "connect" /\ chain' = PoppedTo(fork) /\ top' = fork
      /\ FailedAndDetached(NextToConnect, given[NextToConnect], Height[fork] + 1)
      /\ alt' \subseteq alt
  BY Zenon DEF ConnectFails
<1>2. mode # "idle" /\ "restore" # "connect" /\ "restore" # "idle"  BY <1>1
<1>3. ChainIsPath /\ Linked(original, fork)
  BY Zenon, <1>2 DEF RInv, PathInv
<1>4. ChainIsPath'  BY Zenon, <1>0, <1>1, <1>3, Popped DEF ChainIsPath
<1>5. alt' \cap chain' = {}
  <2>1. \A x \in chain' : x \in chain /\ ~(Height[x] > Height[fork])
    <3>1. \A x \in chain' : /\ x \in chain /\ Height[x] <= Height[fork]
                            /\ Height[x] \in Nat /\ Height[fork] \in Nat
      BY Zenon, <1>0, <1>1, Heights DEF PoppedTo, TypeOK
    <3>. QED  BY <3>1
  <2>. QED  BY Zenon, <1>1, <2>1 DEF RInv, AltInv
<1>6. CASE original = {}
  <2>1. EndSwitch  BY Zenon, <1>6 DEF ConnectFails
  <2>. QED  BY Zenon, <1>4, <1>5, <2>1, EndStep
<1>7. CASE original # {}
  <2>1. /\ mode' = "restore" /\ left' = original /\ fork' = fork
        /\ original' = original /\ given' = given
    BY Zenon, <1>7 DEF ConnectFails
  <2>2. PathInv'  BY Zenon, <1>1, <1>3, <1>4, <2>1 DEF PathInv
  <2>3. AltInv'  BY Zenon, <1>1, <1>2, <1>5, <2>1 DEF RInv, AltInv
  <2>4. \A d \in cps' : ~(Height[d] > Height[fork])
    <3>1. /\ CheckpointSet(cps')
          /\ \A d \in cps' : ~(Height[d] >= Height[fork] + 1)
      BY Zenon, <1>0, <1>1, <1>2, ConnectFailed DEF FInv
    <3>2. \A d \in cps' : Height[d] \in Nat
      BY Zenon, <3>1, Heights DEF CheckpointSet
    <3>. QED  BY <1>0, <3>1, <3>2, Basics
  <2>5. RestoreInv'  BY Zenon, <2>1, <2>4 DEF RInv, RestoreInv
  <2>. QED  BY Zenon, <2>2, <2>3, <2>5 DEF RInv
<1>. QED  BY Zenon, <1>6, <1>7


(* Connecting a block of the original chain stores its checkpoint and      *)
(* keeps the others of that chain.                                         *)
LEMMA RestoreBlock ==
  ASSUME FInv, RInv, mode = "restore", NEW b, b = NextToConnect, Extend(b, given[b])
  PROVE  /\ b \in left /\ b \in original
         /\ \A d \in cps' : d \in cps \/ d = given[b]
         /\ \A x \in (original \ left) \cup {b} : given[x] # None => given[x] \in cps'
<1>0. /\ TypeOK /\ CpInv /\ SwitchInv /\ mode # "idle" /\ CheckpointSet(cps)
      /\ given \in [Block -> Signed \cup {None}] /\ original \subseteq Block
  BY Zenon DEF FInv, CpInv, TypeOK
<1>1. b \in left /\ b \in Block /\ Height[fork] < Height[b]
  BY Zenon, <1>0, ConnectRow
<1>2. b \in original /\ Linked(original, fork)
  BY Zenon, <1>0, <1>1 DEF SwitchInv, RInv, PathInv
<1>3. \A x \in original : given[x] # None =>
         /\ given[x] \in Signed /\ Height[given[x]] = Height[x]
         /\ Height[x] \in Nat /\ Height[fork] \in Nat /\ Height[fork] < Height[x]
  BY Zenon, <1>0, Heights, Basics DEF SwitchInv
<1>4. \A x \in original \ left : given[x] # None => given[x] \in cps
  BY Zenon DEF RInv, RestoreInv
<1>5. CASE Height[b] < CHECKPOINT_STORE_PERSISTENTLY_INTERVAL
  <2>1. cps' = cps  BY Zenon, <1>5 DEF Extend, CheckpointsBlockAdd, CpsAdded
  <2>2. given[b] = None
    <3>. SUFFICES ASSUME given[b] # None PROVE FALSE
      OBVIOUS
    <3>1. Height[b] >= CHECKPOINT_STORE_PERSISTENTLY_INTERVAL /\ Height[b] \in Nat
      BY Zenon, <1>2, <1>3, StoredAssumption
    <3>. QED  BY <1>5, <3>1, IntervalAssumption
  <2>. QED  BY Zenon, <1>1, <1>2, <1>4, <2>1, <2>2
<1>6. CASE ~(Height[b] < CHECKPOINT_STORE_PERSISTENTLY_INTERVAL)
  <2>1. cps' = Store(cps \ Culled(b), given[b])
    BY Zenon, <1>6 DEF Extend, CheckpointsBlockAdd, CpsAdded
  <2>2. ASSUME NEW x \in original \ left, given[x] # None
        PROVE  given[x] \in cps \ Culled(b) /\ Height[given[x]] # Height[b]
    <3>1. given[x] \in cps  BY Zenon, <1>4, <2>2
    <3>2. /\ Height[given[x]] = Height[x] /\ Height[x] \in Nat
          /\ Height[fork] \in Nat /\ Height[fork] < Height[x]
      BY Zenon, <1>3, <2>2
    <3>3. Height[x] # Height[b]
      BY Zenon, <1>1, <1>2 DEF Linked
    <3>4. ASSUME given[x] \in Culled(b) PROVE FALSE
      <4>1. Height[b] + 1 \in Nat /\ Height[Genesis] <= Height[b] + 1
        BY <1>1, Heights
      <4>2. PICK p \in cps : Height[p] = CullEnd(b)
        BY Zenon, <1>0, <4>1, ImmutableCheckpoint DEF CullEnd
      <4>3. p \in Block /\ Height[p] \in Nat /\ p # None
        BY Zenon, <1>0, Heights, TreeAssumption DEF CheckpointSet
      <4>4. Height[given[x]] < Height[p]  BY Zenon, <3>4, <4>2 DEF Culled
      <4>5. Height[p] > Height[fork]  BY <3>2, <4>3, <4>4
      <4>6. PICK y \in original : p = given[y]
        BY Zenon, <4>5 DEF RInv, RestoreInv
      <4>7. p = given[x]  BY Zenon, <2>2, <4>3, <4>6 DEF RInv, RestoreInv
      <4>. QED  BY <4>3, <4>4, <4>7
    <3>. QED  BY Zenon, <3>1, <3>2, <3>3, <3>4
  <2>3. CASE given[b] = None
    <3>1. cps' = cps \ Culled(b)  BY Zenon, <2>1, <2>3 DEF Store
    <3>. QED  BY Zenon, <1>1, <1>2, <2>2, <2>3, <3>1
  <2>4. CASE given[b] # None
    <3>1. cps' = {d \in cps \ Culled(b) : Height[d] # Height[given[b]]} \cup {given[b]}
      BY Zenon, <2>1, <2>4 DEF Store
    <3>2. Height[given[b]] = Height[b]  BY Zenon, <1>2, <1>3, <2>4
    <3>. QED  BY Zenon, <1>1, <1>2, <2>2, <3>1, <3>2
  <2>. QED  BY Zenon, <2>3, <2>4
<1>. QED  BY Zenon, <1>5, <1>6

LEMMA RestoreNextRow ==
  ASSUME FInv, RInv, RestoreNext
  PROVE  RInv'
<1>. DEFINE b == NextToConnect
<1>1. mode = "restore" /\ Extend(b, given[b]) /\ alt' = alt
  BY Zenon DEF RestoreNext, altVars
<1>2. mode # "idle" /\ mode # "connect"  BY <1>1
<1>. HIDE DEF b
<1>3. /\ b \in left /\ chain' = chain \cup {b} /\ top' = b
      /\ ChainIsPath' /\ Linked(left \ {b}, b)
  BY Zenon, <1>1, <1>2, ConnectRow DEF b
<1>4. /\ b \in original /\ \A d \in cps' : d \in cps \/ d = given[b]
      /\ \A x \in (original \ left) \cup {b} : given[x] # None => given[x] \in cps'
  BY Zenon, <1>1, RestoreBlock DEF b
<1>5. alt' \cap chain' = {}  BY Zenon, <1>1, <1>2, <1>3, <1>4 DEF RInv, AltInv
<1>6. CASE left = {b}
  <2>1. EndSwitch  BY Zenon, <1>6 DEF RestoreNext, b
  <2>. QED  BY Zenon, <1>3, <1>5, <2>1, EndStep
<1>7. CASE left # {b}
  <2>1. /\ left' = left \ {b} /\ mode' = mode /\ fork' = fork
        /\ original' = original /\ given' = given
    BY Zenon, <1>7 DEF RestoreNext, b
  <2>2. PathInv'  BY Zenon, <1>2, <1>3, <2>1 DEF RInv, PathInv
  <2>3. AltInv'  BY Zenon, <1>1, <1>2, <1>5, <2>1 DEF RInv, AltInv
  <2>4. original \ (left \ {b}) \subseteq chain'
    BY Zenon, <1>1, <1>3 DEF RInv, RestoreInv
  <2>5. \A d \in cps' : Height[d] > Height[fork] => \E x \in original : d = given[x]
    BY Zenon, <1>1, <1>4 DEF RInv, RestoreInv
  <2>6. \A x \in original \ (left \ {b}) : given[x] # None => given[x] \in cps'
    BY Zenon, <1>4
  <2>7. RestoreInv'  BY Zenon, <2>1, <2>4, <2>5, <2>6 DEF RInv, RestoreInv
  <2>. QED  BY Zenon, <2>2, <2>3, <2>7 DEF RInv
<1>. QED  BY Zenon, <1>6, <1>7

LEMMA RestoreFailsRow ==
  ASSUME FInv, RInv, RestoreFails
  PROVE  RInv'
<1>1. mode = "restore" /\ chain' = chain /\ top' = top /\ alt' = alt /\ EndSwitch
  BY Zenon DEF RestoreFails, chainVars, altVars
<1>2. mode # "connect"  BY <1>1
<1>3. ChainIsPath'  BY Zenon, <1>1 DEF RInv, PathInv, ChainIsPath
<1>4. alt' \cap chain' = {}  BY Zenon, <1>1, <1>2 DEF RInv, AltInv
<1>. QED  BY Zenon, <1>1, <1>3, <1>4, EndStep

LEMMA RInit ==
  ASSUME Init
  PROVE  RInv
<1>1. /\ top = Genesis /\ chain = {Genesis} /\ alt = {} /\ mode = "idle"
      /\ original = {}
  BY Zenon DEF Init
<1>2. mode # "connect" /\ mode # "restore"  BY <1>1
<1>3. ChainIsPath  BY Zenon, <1>1, GenesisPath DEF ChainIsPath
<1>. QED  BY Zenon, <1>1, <1>2, <1>3 DEF RInv, PathInv, AltInv, RestoreInv

LEMMA RNext ==
  ASSUME FInv, RInv, [Next]_vars
  PROVE  RInv'
<1>1. CASE UNCHANGED vars
  <2>1. /\ chain' = chain /\ top' = top /\ alt' = alt /\ cps' = cps /\ mode' = mode
        /\ fork' = fork /\ chosen' = chosen /\ left' = left
        /\ original' = original /\ given' = given
    BY Zenon, <1>1 DEF vars
  <2>2. PathInv'  BY Zenon, <2>1 DEF RInv, PathInv, ChainIsPath
  <2>3. AltInv'  BY Zenon, <2>1 DEF RInv, AltInv
  <2>4. RestoreInv'  BY Zenon, <2>1 DEF RInv, RestoreInv
  <2>. QED  BY Zenon, <2>2, <2>3, <2>4 DEF RInv
<1>2. ASSUME NEW b \in Block \ {Genesis}, NEW c \in Offered(b),
             AddToMainChain(b, c) \/ BeginSwitch(b, c)
      PROVE  RInv'
  BY Zenon, <1>2, AddToMainChainRow, BeginSwitchRow
<1>3. CASE \/ \E b \in Block \ {Genesis} :
                RefuseAlternative(b) \/ \E c \in Offered(b) : KeepMainChain(b, c)
           \/ \E c \in Signed : FormCheckpoint(c)
           \/ Restart
  BY Zenon, <1>3, OtherRow
<1>4. CASE ConnectNext \/ ConnectFails \/ RestoreNext \/ RestoreFails
  BY Zenon, <1>4, ConnectNextRow, ConnectFailsRow, RestoreNextRow, RestoreFailsRow
<1>5. ASSUME NEW b \in chain, PopBlocks(b)
      PROVE  RInv'
  BY Zenon, <1>5, PopBlocksRow
<1>. QED  BY Zenon, <1>1, <1>2, <1>3, <1>4, <1>5 DEF Next

LEMMA RowInvariant == Spec => []RInv
<1>1. FInv /\ RInv /\ [Next]_vars => RInv'  BY RNext
<1>. QED  BY <1>1, RInit, ForkInvariant, PTL DEF Spec

(* The last step of a rollback has the original chain and its checkpoints. *)
LEMMA RollbackEnds ==
  ASSUME FInv, RInv, RestoreNext, mode' = "idle"
  PROVE  /\ original \subseteq chain' /\ top' = Highest(original)
         /\ \A x \in original : given[x] # None => given[x] \in cps'
<1>. DEFINE b == NextToConnect
<1>1. mode = "restore" /\ Extend(b, given[b])  BY Zenon DEF RestoreNext
<1>2. mode # "idle"  BY <1>1
<1>3. left = {b}  BY Zenon, <1>2 DEF RestoreNext
<1>. HIDE DEF b
<1>4. /\ b \in Block /\ chain' = chain \cup {b} /\ top' = b
      /\ \A a \in chain' : Height[a] <= Height[b]
  BY Zenon, <1>1, <1>2, ConnectBlock DEF b
<1>5. /\ b \in original
      /\ \A x \in (original \ left) \cup {b} : given[x] # None => given[x] \in cps'
  BY Zenon, <1>1, RestoreBlock DEF b
<1>6. original \subseteq chain'
  BY Zenon, <1>1, <1>3, <1>4 DEF RInv, RestoreInv
<1>7. b = Highest(original)
  <2>1. \A x \in original : Height[x] <= Height[b]  BY Zenon, <1>4, <1>6
  <2>. DEFINE t == Highest(original)
  <2>2. t \in original /\ \A x \in original : Height[x] <= Height[t]
    BY Zenon, <1>5, <2>1 DEF Highest
  <2>3. Height[t] = Height[b]
    <3>1. Height[t] <= Height[b] /\ Height[b] <= Height[t]
      BY Zenon, <1>5, <2>1, <2>2
    <3>2. Height[t] \in Nat /\ Height[b] \in Nat
      BY Zenon, <1>4, <2>2, Heights DEF FInv, TypeOK
    <3>. HIDE DEF t
    <3>. QED  BY <3>1, <3>2
  <2>4. Linked(original, fork)  BY Zenon, <1>2 DEF RInv, PathInv
  <2>. QED  BY Zenon, <1>5, <2>2, <2>3, <2>4 DEF Linked
<1>. QED  BY Zenon, <1>3, <1>4, <1>5, <1>6, <1>7

-----------------------------------------------------------------------------
(* The theorems.                                                           *)

\* Every block tree: the top block and the block a switch forks from are on
\* the chain whatever pop_block_from_blockchain removes.
THEOREM ForkTypes == Spec => []TypeOK
<1>1. FInv => TypeOK  BY Zenon DEF FInv
<1>. QED  BY <1>1, ForkInvariant, PTL

\* No stored checkpoint is above the chain, whatever checkpoints::block_add
\* culls and blockchain_detached removes on the way.
THEOREM CheckpointsFollow == Spec => []CheckpointsOnChain
<1>1. FInv => CheckpointsOnChain  BY Zenon DEF FInv, CpInv
<1>. QED  BY <1>1, ForkInvariant, PTL

\* A block at or below the second last checkpoint that the quorums made is not
\* replaced by handle_alternative_block, in the middle of a switch or after it.
THEOREM LockedInBlocksStay == Spec => []LockedIn
<1>1. FInv => LockedIn  BY Zenon DEF FInv, LockInv, LockedIn
<1>. QED  BY <1>1, ForkInvariant, PTL

\* The main chain is the path from its top block to Genesis at every step of
\* switch_to_alternative_blockchain and rollback_blockchain_switching too.
THEOREM ChainStaysPath == Spec => []ChainIsPath
<1>1. RInv => ChainIsPath  BY Zenon DEF RInv, PathInv
<1>. QED  BY <1>1, RowInvariant, PTL

\* rollback_blockchain_switching gives back the main chain that the switch has
\* disconnected and the checkpoint that the detached hooks have removed with
\* it, unless a block of it fails to connect again.
THEOREM RollbackGivesBack == Spec => RollbackRestores
<1>. DEFINE A == mode = "restore" /\ mode' = "idle" /\ ~RestoreFails =>
                    /\ original \subseteq chain'
                    /\ top' = Highest(original)
                    /\ \A b \in original : given[b] # None => given[b] \in cps'
<1>1. ASSUME FInv, RInv, [Next]_vars PROVE [A]_vars
  <2>. SUFFICES ASSUME Next, mode = "restore", mode' = "idle", ~RestoreFails PROVE A
    BY Zenon, <1>1
  <2>1. mode # "idle" /\ mode # "connect"  OBVIOUS
  <2>2. RestoreNext
    BY Zenon, <2>1
       DEF Next, AddToMainChain, KeepMainChain, BeginSwitch, RefuseAlternative,
           Acceptable, Alternative, ConnectNext, ConnectFails, FormCheckpoint,
           PopBlocks, Restart
  <2>. QED  BY Zenon, <1>1, <2>2, RollbackEnds
<1>. HIDE DEF A
<1>2. FInv /\ RInv /\ [Next]_vars => [A]_vars  BY <1>1
<1>3. Spec => [][A]_vars
  BY <1>2, ForkInvariant, RowInvariant, PTL DEF Spec
<1>. QED  BY <1>3 DEF A, RollbackRestores
=============================================================================
