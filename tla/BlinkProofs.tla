---------------------------- MODULE BlinkProofs -----------------------------
(***************************************************************************)
(* Proofs about Blink, for any number of members, nodes, threads and       *)
(* restarts and any set of blinks.                                         *)
(***************************************************************************)
EXTENDS BlinkSteps

INSTANCE FiniteSetTheorems

-----------------------------------------------------------------------------
(* Counting.                                                               *)

LEMMA MinVotes ==
  /\ BLINK_MIN_VOTES \in Nat /\ BLINK_MIN_VOTES > 0
  /\ BLINK_SUBQUORUM_SIZE \in Nat
  /\ BLINK_SUBQUORUM_SIZE < 2 * BLINK_MIN_VOTES
BY QuorumAssumption

LEMMA QuorumFacts ==
  ASSUME NEW b, HasQuorums(b), NEW q \in Subquorum
  PROVE  /\ Validators(b, q) \in Seq(Member)
         /\ Len(Validators(b, q)) \in Nat
         /\ Len(Validators(b, q)) <= BLINK_SUBQUORUM_SIZE
         /\ DOMAIN Validators(b, q) = 1..Len(Validators(b, q))
         /\ \A i \in DOMAIN Validators(b, q) : Validators(b, q)[i] \in Member
<1>1. Validators(b, q) \in Seq(Member)
  BY Zenon, QuorumAssumption DEF HasQuorums, Validators
<1>2. Len(Validators(b, q)) \in BLINK_MIN_VOTES..BLINK_SUBQUORUM_SIZE
  BY Zenon DEF HasQuorums
<1>. QED  BY <1>1, <1>2, MinVotes

(* Multiples of k that differ by less than 2k are equal or adjacent.       *)
LEMMA Adjacent ==
  ASSUME NEW k \in Nat, k >= 4, NEW x \in Nat, NEW y \in Nat,
         x <= y, y <= x + 4
  PROVE  y - (y % k) = x - (x % k) \/ y - (y % k) = x - (x % k) + k
<1>. DEFINE p == x \div k
            r == y \div k
            u == x % k
            v == y % k
<1>1. p \in Int /\ r \in Int /\ u \in 0..k-1 /\ v \in 0..k-1
      /\ x = k * p + u /\ y = k * r + v
  OBVIOUS
<1>. HIDE DEF p, r, u, v
<1>2. k * (r - p) = (y - v) - (x - u)
  BY <1>1
<1>3. k * (r - p) < k * 2 /\ k * (r - p) > k * (-1)
  BY <1>1, <1>2
<1>4. r - p < 2 /\ r - p > -1
  BY <1>1, <1>3
<1>5. r - p = 0 \/ r - p = 1
  BY <1>1, <1>4
<1>6. k * 0 = 0 /\ k * 1 = k  OBVIOUS
<1>7. k * (r - p) = 0 \/ k * (r - p) = k
  BY Zenon, <1>5, <1>6
<1>8. y - v = x - u \/ y - v = x - u + k
  BY <1>1, <1>2, <1>7
<1>. QED  BY Zenon, <1>8 DEF u, v

(* Blinks that are accepted at the same time share a subquorum.            *)
LEMMA SharedSubquorum ==
  ASSUME NEW b \in Blinks, NEW c \in Blinks, Acceptable(b), Acceptable(c),
         b.height <= c.height
  PROVE  \E q, r \in Subquorum :
            QuorumHeight(b.height, q) = QuorumHeight(c.height, r)
<1>. DEFINE k == BLINK_QUORUM_INTERVAL
            lag == BLINK_QUORUM_LAG
            x == b.height
            y == c.height
<1>1. x \in Nat /\ y \in Nat  BY InstanceAssumption
<1>2. k \in Nat /\ k >= 4 /\ lag \in Nat /\ LocalHeight \in Nat
  BY Zenon, IntervalAssumption
<1>3. x >= LocalHeight - 2 /\ y <= LocalHeight + 2
  BY <1>1, <1>2 DEF Acceptable, InWindow
<1>4. y <= x + 4  BY <1>1, <1>2, <1>3
<1>. HIDE DEF x, y
<1>5. y - (y % k) = x - (x % k) \/ y - (y % k) = x - (x % k) + k
  <2>1. x <= y  BY Zenon DEF x, y
  <2>. QED  BY Zenon, <1>1, <1>2, <1>4, <2>1, Adjacent
<1>6. 0 \in Subquorum /\ 1 \in Subquorum  BY DEF Subquorum
<1>7. x - (x % k) \in Int /\ y - (y % k) \in Int  BY <1>1, <1>2
<1>8. CASE y - (y % k) = x - (x % k)
  <2>1. QuorumHeight(x, 0) = QuorumHeight(y, 0)
    BY Zenon, <1>8 DEF QuorumHeight
  <2>. QED  BY Zenon, <1>6, <2>1 DEF x, y
<1>9. CASE y - (y % k) = x - (x % k) + k
  <2>1. x - (x % k) - lag + 1 * k = y - (y % k) - lag + 0 * k
    BY <1>2, <1>7, <1>9
  <2>2. QuorumHeight(x, 1) = QuorumHeight(y, 0)
    BY Zenon, <2>1 DEF QuorumHeight
  <2>. QED  BY Zenon, <1>6, <2>2 DEF x, y
<1>. QED  BY Zenon, <1>5, <1>8, <1>9


LEMMA CountFacts ==
  ASSUME NEW b, HasQuorums(b), NEW q \in Subquorum, NEW V, NEW ok
  PROVE  /\ SigCount(V, b, q, ok) = Cardinality(Places(V, b, q, ok))
         /\ IsFiniteSet(Places(V, b, q, ok))
         /\ SigCount(V, b, q, ok) \in Nat
         /\ Places(V, b, q, ok) \subseteq 1..Len(Validators(b, q))
<1>1. SigCount(V, b, q, ok) = Cardinality(Places(V, b, q, ok))
  BY Zenon DEF SigCount, Places, SigOf
<1>2. Places(V, b, q, ok) \subseteq 1..Len(Validators(b, q))
  BY Zenon, QuorumFacts DEF Places
<1>3. IsFiniteSet(1..Len(Validators(b, q)))
  <2>1. Len(Validators(b, q)) \in Int /\ 1 \in Int  BY QuorumFacts
  <2>. QED  BY Zenon, <2>1, FS_Interval
<1>4. IsFiniteSet(Places(V, b, q, ok))
  BY Zenon, <1>2, <1>3, FS_Subset
<1>. QED  BY Zenon, <1>1, <1>2, <1>4, FS_CardinalityType

LEMMA MoreVotes ==
  ASSUME NEW b, HasQuorums(b), NEW V, NEW W, V \subseteq W
  PROVE  /\ Approved(V, b) => Approved(W, b)
         /\ Rejected(V, b) => Rejected(W, b)
<1>1. ASSUME NEW q \in Subquorum, NEW ok
      PROVE  /\ SigCount(V, b, q, ok) \in Nat /\ SigCount(W, b, q, ok) \in Nat
             /\ SigCount(V, b, q, ok) <= SigCount(W, b, q, ok)
  <2>1. Places(V, b, q, ok) \subseteq Places(W, b, q, ok)
    BY Zenon DEF Places
  <2>2. Cardinality(Places(V, b, q, ok)) <= Cardinality(Places(W, b, q, ok))
    BY Zenon, <2>1, CountFacts, FS_Subset
  <2>3. /\ SigCount(V, b, q, ok) = Cardinality(Places(V, b, q, ok))
        /\ SigCount(V, b, q, ok) \in Nat
    BY Zenon, CountFacts
  <2>4. /\ SigCount(W, b, q, ok) = Cardinality(Places(W, b, q, ok))
        /\ SigCount(W, b, q, ok) \in Nat
    BY Zenon, CountFacts
  <2>. QED  BY Zenon, <2>2, <2>3, <2>4
<1>2. ASSUME NEW q \in Subquorum, SigCount(V, b, q, TRUE) >= BLINK_MIN_VOTES
      PROVE  SigCount(W, b, q, TRUE) >= BLINK_MIN_VOTES
  <2>. DEFINE x == SigCount(V, b, q, TRUE)
              y == SigCount(W, b, q, TRUE)
  <2>1. x <= y /\ x \in Nat /\ y \in Nat /\ x >= BLINK_MIN_VOTES
    BY Zenon, <1>1, <1>2
  <2>. HIDE DEF x, y
  <2>2. y >= BLINK_MIN_VOTES  BY <2>1, MinVotes
  <2>. QED  BY Zenon, <2>2 DEF y
<1>3. ASSUME NEW q \in Subquorum,
             SigCount(V, b, q, FALSE) + Unfilled(b, q)
               > BLINK_SUBQUORUM_SIZE - BLINK_MIN_VOTES
      PROVE  SigCount(W, b, q, FALSE) + Unfilled(b, q)
               > BLINK_SUBQUORUM_SIZE - BLINK_MIN_VOTES
  <2>. DEFINE x == SigCount(V, b, q, FALSE)
              y == SigCount(W, b, q, FALSE)
              u == Unfilled(b, q)
  <2>1. u \in Int  BY QuorumFacts, MinVotes DEF Unfilled
  <2>2. x <= y /\ x \in Nat /\ y \in Nat
        /\ x + u > BLINK_SUBQUORUM_SIZE - BLINK_MIN_VOTES
    BY Zenon, <1>1, <1>3
  <2>. HIDE DEF x, y, u
  <2>3. y + u > BLINK_SUBQUORUM_SIZE - BLINK_MIN_VOTES
    BY <2>1, <2>2, MinVotes
  <2>. QED  BY Zenon, <2>3 DEF y, u
<1>. QED  BY Zenon, <1>2, <1>3 DEF Approved, Rejected

(* A blink without signatures is not approved.                             *)
LEMMA ApprovedHasSig ==
  ASSUME NEW b, NEW V, Approved(V, b)
  PROVE  \E m : SigOf(b, m, TRUE) \in V
<1>. SUFFICES ASSUME \A m : SigOf(b, m, TRUE) \notin V PROVE FALSE
  BY Zenon
<1>1. 0 \in Subquorum  BY DEF Subquorum
<1>2. SigCount(V, b, 0, TRUE) = Cardinality({})
  <2>1. Places(V, b, 0, TRUE) = {}  BY Zenon DEF Places
  <2>2. SigCount(V, b, 0, TRUE) = Cardinality(Places(V, b, 0, TRUE))
    BY Zenon DEF SigCount, Places, SigOf
  <2>. QED  BY Zenon, <2>1, <2>2
<1>3. SigCount(V, b, 0, TRUE) = 0
  BY Zenon, <1>2, FS_EmptySet
<1>4. 0 >= BLINK_MIN_VOTES
  BY Zenon, <1>1, <1>3 DEF Approved
<1>. QED  BY <1>4, MinVotes

LEMMA MoreApprovals ==
  ASSUME NEW b, HasQuorums(b), NEW V, NEW W, Approved(V, b),
         \A m : SigOf(b, m, TRUE) \in V => SigOf(b, m, TRUE) \in W
  PROVE  Approved(W, b)
<1>. DEFINE U == {s \in V : \E m : s = SigOf(b, m, TRUE)}
<1>1. ASSUME NEW q PROVE SigCount(V, b, q, TRUE) = SigCount(U, b, q, TRUE)
  <2>1. Places(V, b, q, TRUE) = Places(U, b, q, TRUE)  BY Zenon DEF Places
  <2>2. /\ SigCount(V, b, q, TRUE) = Cardinality(Places(V, b, q, TRUE))
        /\ SigCount(U, b, q, TRUE) = Cardinality(Places(U, b, q, TRUE))
    BY Zenon DEF SigCount, Places, SigOf
  <2>. QED  BY Zenon, <2>1, <2>2
<1>2. Approved(U, b)  BY Zenon, <1>1 DEF Approved
<1>3. U \subseteq W  BY Zenon
<1>. QED  BY Zenon, <1>2, <1>3, MoreVotes

LEMMA NotBoth ==
  ASSUME NEW b, HasQuorums(b), NEW V, OncePerMember(V),
         Approved(V, b), Rejected(V, b)
  PROVE  FALSE
<1>1. PICK q \in Subquorum :
        SigCount(V, b, q, FALSE) + Unfilled(b, q)
          > BLINK_SUBQUORUM_SIZE - BLINK_MIN_VOTES
  BY Zenon DEF Rejected
<1>2. SigCount(V, b, q, TRUE) >= BLINK_MIN_VOTES
  BY Zenon DEF Approved
<1>. DEFINE P == Places(V, b, q, TRUE)
            N == Places(V, b, q, FALSE)
            L == Len(Validators(b, q))
<1>3. P \cap N = {}
  <2>. SUFFICES ASSUME NEW i \in P, i \in N PROVE FALSE
    BY Zenon
  <2>. DEFINE s == SigOf(b, Validators(b, q)[i], TRUE)
              r == SigOf(b, Validators(b, q)[i], FALSE)
  <2>1. s \in V /\ r \in V  BY Zenon DEF Places
  <2>2. s.blink = r.blink /\ s.member = r.member /\ s.ok # r.ok
    BY DEF SigOf
  <2>. QED  BY Zenon, <2>1, <2>2 DEF OncePerMember
<1>. HIDE DEF P, N, L
<1>4. IsFiniteSet(P) /\ IsFiniteSet(N) /\ P \cup N \subseteq 1..L
      /\ SigCount(V, b, q, TRUE) = Cardinality(P)
      /\ SigCount(V, b, q, FALSE) = Cardinality(N)
      /\ Cardinality(P) \in Nat /\ Cardinality(N) \in Nat
  <2>1. /\ IsFiniteSet(P) /\ P \subseteq 1..L /\ Cardinality(P) \in Nat
        /\ SigCount(V, b, q, TRUE) = Cardinality(P)
    BY Zenon, CountFacts DEF P, L
  <2>2. /\ IsFiniteSet(N) /\ N \subseteq 1..L /\ Cardinality(N) \in Nat
        /\ SigCount(V, b, q, FALSE) = Cardinality(N)
    BY Zenon, CountFacts DEF N, L
  <2>. QED  BY Zenon, <2>1, <2>2
<1>5. L \in Nat /\ L <= BLINK_SUBQUORUM_SIZE
  BY Zenon, QuorumFacts DEF L
<1>6. IsFiniteSet(1..L) /\ Cardinality(1..L) = L
  <2>1. L \in Int /\ 1 \in Int  BY <1>5
  <2>2. IsFiniteSet(1..L) /\ Cardinality(1..L) = IF 1 > L THEN 0 ELSE L - 1 + 1
    BY Zenon, <2>1, FS_Interval
  <2>. QED  BY <1>5, <2>2
<1>7. Cardinality(P \cup N) = Cardinality(P) + Cardinality(N) - Cardinality(P \cap N)
  BY Zenon, <1>4, FS_Union
<1>8. Cardinality(P \cap N) = 0  BY Zenon, <1>3, FS_EmptySet
<1>9. Cardinality(P \cup N) <= Cardinality(1..L)
  BY Zenon, <1>4, <1>6, FS_Subset
<1>10. Unfilled(b, q) = BLINK_SUBQUORUM_SIZE - L  BY Zenon DEF Unfilled, L
<1>11. /\ Cardinality(N) + (BLINK_SUBQUORUM_SIZE - L)
            > BLINK_SUBQUORUM_SIZE - BLINK_MIN_VOTES
       /\ Cardinality(P) >= BLINK_MIN_VOTES
  BY Zenon, <1>1, <1>2, <1>4, <1>10
<1>12. Cardinality(P) \in Nat /\ Cardinality(N) \in Nat  BY Zenon, <1>4
<1>. QED  BY <1>5, <1>6, <1>7, <1>8, <1>9, <1>11, <1>12, MinVotes

(* A subquorum all of whose members have signed is not undecided.          *)
LEMMA AllVoted ==
  ASSUME NEW b, HasQuorums(b), NEW V,
         \A q \in Subquorum : \A i \in DOMAIN Validators(b, q) :
            \E ok \in BOOLEAN : SigOf(b, Validators(b, q)[i], ok) \in V
  PROVE  Approved(V, b) \/ Rejected(V, b)
<1>. SUFFICES ASSUME ~Rejected(V, b), NEW q \in Subquorum
              PROVE  SigCount(V, b, q, TRUE) >= BLINK_MIN_VOTES
  BY Zenon DEF Approved
<1>. DEFINE P == Places(V, b, q, TRUE)
            N == Places(V, b, q, FALSE)
            L == Len(Validators(b, q))
<1>1. ~(SigCount(V, b, q, FALSE) + Unfilled(b, q)
          > BLINK_SUBQUORUM_SIZE - BLINK_MIN_VOTES)
  BY Zenon DEF Rejected
<1>2. 1..L \subseteq P \cup N
  <2>1. DOMAIN Validators(b, q) = 1..L  BY Zenon, QuorumFacts
  <2>2. \A i \in DOMAIN Validators(b, q) :
          \/ SigOf(b, Validators(b, q)[i], TRUE) \in V
          \/ SigOf(b, Validators(b, q)[i], FALSE) \in V
    BY Zenon
  <2>. QED  BY Zenon, <2>1, <2>2 DEF Places
<1>0. ASSUME NEW ok
      PROVE  /\ IsFiniteSet(Places(V, b, q, ok)) /\ Cardinality(Places(V, b, q, ok)) \in Nat
             /\ SigCount(V, b, q, ok) = Cardinality(Places(V, b, q, ok))
  BY Zenon, CountFacts
<1>3. /\ IsFiniteSet(P) /\ Cardinality(P) \in Nat
      /\ SigCount(V, b, q, TRUE) = Cardinality(P)
  BY Zenon, <1>0
<1>4. /\ IsFiniteSet(N) /\ Cardinality(N) \in Nat
      /\ SigCount(V, b, q, FALSE) = Cardinality(N)
  BY Zenon, <1>0
<1>. HIDE DEF P, N, L
<1>5. L \in Nat /\ L <= BLINK_SUBQUORUM_SIZE
  BY Zenon, QuorumFacts DEF L
<1>6. Cardinality(1..L) = L
  <2>1. L \in Int /\ 1 \in Int  BY <1>5
  <2>2. Cardinality(1..L) = IF 1 > L THEN 0 ELSE L - 1 + 1
    BY Zenon, <2>1, FS_Interval
  <2>. QED  BY <1>5, <2>2
<1>7. /\ IsFiniteSet(P \cup N)
      /\ Cardinality(P \cup N) = Cardinality(P) + Cardinality(N) - Cardinality(P \cap N)
  BY Zenon, <1>3, <1>4, FS_Union
<1>8. Cardinality(P \cap N) \in Nat
  <2>1. P \cap N \subseteq P  BY Zenon
  <2>. QED  BY Zenon, <1>3, <2>1, FS_Subset, FS_CardinalityType
<1>9. Cardinality(1..L) <= Cardinality(P \cup N)
  BY Zenon, <1>2, <1>7, FS_Subset
<1>10. Unfilled(b, q) = BLINK_SUBQUORUM_SIZE - L  BY Zenon DEF Unfilled, L
<1>11. ~(Cardinality(N) + (BLINK_SUBQUORUM_SIZE - L)
           > BLINK_SUBQUORUM_SIZE - BLINK_MIN_VOTES)
  BY Zenon, <1>1, <1>4, <1>10
<1>12. Cardinality(P) \in Nat /\ Cardinality(N) \in Nat  BY Zenon, <1>3, <1>4
<1>13. L <= Cardinality(P) + Cardinality(N) - Cardinality(P \cap N)
  BY Zenon, <1>6, <1>7, <1>9
<1>14. Cardinality(P) >= BLINK_MIN_VOTES
  BY <1>5, <1>8, <1>11, <1>12, <1>13, MinVotes
<1>. QED  BY Zenon, <1>3, <1>14

(* The members of a subquorum that approved an approved blink.             *)
LEMMA Approvers ==
  ASSUME NEW b, HasQuorums(b), NEW q \in Subquorum, NEW V, Approved(V, b)
  PROVE  \E P : /\ IsFiniteSet(P) /\ P \subseteq 1..Len(Validators(b, q))
               /\ Cardinality(P) \in Nat /\ Cardinality(P) >= BLINK_MIN_VOTES
               /\ \A i \in P : /\ Validators(b, q)[i] \in Member
                               /\ SigOf(b, Validators(b, q)[i], TRUE) \in V
<1>. DEFINE P == Places(V, b, q, TRUE)
<1>1. /\ IsFiniteSet(P) /\ P \subseteq 1..Len(Validators(b, q))
      /\ SigCount(V, b, q, TRUE) = Cardinality(P)
      /\ SigCount(V, b, q, TRUE) \in Nat
  BY Zenon, CountFacts
<1>2. SigCount(V, b, q, TRUE) >= BLINK_MIN_VOTES
  BY Zenon DEF Approved
<1>3. \A i \in P : /\ Validators(b, q)[i] \in Member
                  /\ SigOf(b, Validators(b, q)[i], TRUE) \in V
  BY Zenon, QuorumFacts DEF Places
<1>. QED  BY Zenon, <1>1, <1>2, <1>3

(* Two blinks that share a subquorum share a member that approved both.    *)
LEMMA Overlap ==
  ASSUME NEW b, NEW c, HasQuorums(b), HasQuorums(c),
         NEW q \in Subquorum, NEW r \in Subquorum,
         QuorumHeight(b.height, q) = QuorumHeight(c.height, r),
         NEW V, Approved(V, b), Approved(V, c)
  PROVE  \E m \in Member : SigOf(b, m, TRUE) \in V /\ SigOf(c, m, TRUE) \in V
<1>. DEFINE v == Validators(b, q)
            L == Len(v)
<1>1. v = Validators(c, r)
  BY Zenon DEF Validators
<1>2. PICK P : /\ IsFiniteSet(P) /\ P \subseteq 1..L
               /\ Cardinality(P) \in Nat /\ Cardinality(P) >= BLINK_MIN_VOTES
               /\ \A i \in P : v[i] \in Member /\ SigOf(b, v[i], TRUE) \in V
  BY Zenon, Approvers
<1>3. PICK N : /\ IsFiniteSet(N) /\ N \subseteq 1..L
               /\ Cardinality(N) \in Nat /\ Cardinality(N) >= BLINK_MIN_VOTES
               /\ \A i \in N : v[i] \in Member /\ SigOf(c, v[i], TRUE) \in V
  BY Zenon, <1>1, Approvers
<1>5. L \in Nat /\ L <= BLINK_SUBQUORUM_SIZE
  BY Zenon, QuorumFacts
<1>. HIDE DEF v, L
<1>6. IsFiniteSet(1..L) /\ Cardinality(1..L) = L
  <2>1. L \in Int /\ 1 \in Int  BY <1>5
  <2>2. IsFiniteSet(1..L) /\ Cardinality(1..L) = IF 1 > L THEN 0 ELSE L - 1 + 1
    BY Zenon, <2>1, FS_Interval
  <2>. QED  BY <1>5, <2>2
<1>7. Cardinality(P \cup N) = Cardinality(P) + Cardinality(N) - Cardinality(P \cap N)
  BY Zenon, <1>2, <1>3, FS_Union
<1>8. Cardinality(P \cup N) <= Cardinality(1..L)
  <2>1. P \cup N \subseteq 1..L  BY Zenon, <1>2, <1>3
  <2>. QED  BY Zenon, <1>6, <2>1, FS_Subset
<1>9. P \cap N # {}
  <2>1. SUFFICES ASSUME P \cap N = {} PROVE FALSE  OBVIOUS
  <2>2. Cardinality(P \cap N) = 0  BY Zenon, <2>1, FS_EmptySet
  <2>3. /\ Cardinality(P) >= BLINK_MIN_VOTES /\ Cardinality(N) >= BLINK_MIN_VOTES
        /\ Cardinality(P) \in Nat /\ Cardinality(N) \in Nat
    BY Zenon, <1>2, <1>3
  <2>. QED  BY <1>5, <1>6, <1>7, <1>8, <2>2, <2>3, MinVotes
<1>10. PICK i : i \in P /\ i \in N  BY Zenon, <1>9
<1>. QED  BY Zenon, <1>2, <1>3, <1>10

LEMMA Counting == CountingLaws
BY Zenon, ApprovedHasSig, MoreVotes, MoreApprovals, NotBoth DEF CountingLaws

(* How many threads are in a handler when a job starts, ends or goes on.   *)
LEMMA JobStarts ==
  ASSUME NEW J, IsFiniteSet(J), NEW k
  PROVE  IsFiniteSet(J \cup {k}) /\ Cardinality(J \cup {k}) <= Cardinality(J) + 1
<1>1. Cardinality(J) \in Nat  BY Zenon, FS_CardinalityType
<1>2. /\ IsFiniteSet(J \cup {k})
      /\ Cardinality(J \cup {k}) = IF k \in J THEN Cardinality(J) ELSE Cardinality(J) + 1
  BY Zenon, FS_AddElement
<1>. QED  BY <1>1, <1>2

LEMMA JobEnds ==
  ASSUME NEW J, IsFiniteSet(J), NEW j
  PROVE  /\ IsFiniteSet(J \ {j}) /\ Cardinality(J \ {j}) <= Cardinality(J)
         /\ j \in J => Cardinality(J \ {j}) + 1 = Cardinality(J)
<1>1. Cardinality(J) \in Nat  BY Zenon, FS_CardinalityType
<1>2. /\ IsFiniteSet(J \ {j})
      /\ Cardinality(J \ {j}) = IF j \in J THEN Cardinality(J) - 1 ELSE Cardinality(J)
  BY Zenon, FS_RemoveElement
<1>. QED  BY <1>1, <1>2

LEMMA JobGoesOn ==
  ASSUME NEW J, IsFiniteSet(J), NEW j \in J, NEW k
  PROVE  /\ IsFiniteSet((J \ {j}) \cup {k})
         /\ Cardinality((J \ {j}) \cup {k}) <= Cardinality(J)
<1>. DEFINE D == J \ {j}
<1>1. IsFiniteSet(D) /\ Cardinality(D) + 1 = Cardinality(J)
  BY Zenon, JobEnds
<1>. HIDE DEF D
<1>2. IsFiniteSet(D \cup {k}) /\ Cardinality(D \cup {k}) <= Cardinality(D) + 1
  BY Zenon, <1>1, JobStarts
<1>3. IsFiniteSet(D \cup {k}) /\ Cardinality(D \cup {k}) <= Cardinality(J)
  BY Zenon, <1>1, <1>2
<1>. QED  BY Zenon, <1>3 DEF D

-----------------------------------------------------------------------------
(* The types hold.                                                         *)

LEMMA TypesStep ==
  ASSUME Types, NEW n \in Node, Steps(n)
  PROVE  Types'
<1>1. Shape' /\ Frame(n)  BY Zenon, StepFrame
<1>2. ASSUME NEW m \in Node \ {n} PROVE Bounds(m)'
  <2>1. /\ votes'[m] = votes[m] /\ relay'[m] = relay[m] /\ pool'[m] = pool[m]
        /\ jobs'[m] = jobs[m] /\ restarts'[m] = restarts[m]
    BY Zenon, <1>1 DEF Frame
  <2>. QED  BY Zenon, <2>1 DEF Types, Bounds, OncePerMember
<1>3. Bounds(n)'
  <2>0. /\ Threads[n] \in Nat /\ MaxRestarts[n] \in Nat /\ restarts[n] \in Nat
        /\ IsFiniteSet(jobs[n]) /\ Cardinality(jobs[n]) <= Threads[n]
        /\ Cardinality(jobs[n]) \in Nat
    BY InstanceAssumption, FS_CardinalityType DEF Types, Shape, Bounds
  <2>. DEFINE Few == IsFiniteSet(jobs'[n]) /\ Cardinality(jobs'[n]) <= Threads[n]
              Pool == /\ relay'[n] \subseteq pool'[n] /\ IsFiniteSet(pool'[n])
                      /\ Cardinality(pool'[n]) <= 1
              Votes == OncePerMember(votes'[n])
              Again == restarts'[n] <= MaxRestarts[n]
  <2>1. SUFFICES Few /\ Pool /\ Votes /\ Again
    BY Zenon DEF Bounds, OncePerMember
  <2>2. /\ votes'[n] = votes[n] => Votes
        /\ restarts'[n] = restarts[n] => Again
        /\ pool'[n] = pool[n] /\ relay'[n] = relay[n] => Pool
    BY Zenon DEF Types, Bounds
  <2>3. ASSUME NEW k, jobs'[n] = jobs[n] \cup {k}, Cardinality(jobs[n]) < Threads[n]
        PROVE  Few
    <3>1. IsFiniteSet(jobs'[n]) /\ Cardinality(jobs'[n]) <= Cardinality(jobs[n]) + 1
      BY Zenon, <2>0, <2>3, JobStarts
    <3>2. Cardinality(jobs'[n]) \in Nat  BY Zenon, <3>1, FS_CardinalityType
    <3>. QED  BY <2>0, <2>3, <3>1, <3>2
  <2>4. ASSUME NEW j, jobs'[n] = jobs[n] \ {j} PROVE Few
    <3>1. IsFiniteSet(jobs'[n]) /\ Cardinality(jobs'[n]) <= Cardinality(jobs[n])
      BY Zenon, <2>0, <2>4, JobEnds
    <3>2. Cardinality(jobs'[n]) \in Nat  BY Zenon, <3>1, FS_CardinalityType
    <3>. QED  BY <2>0, <3>1, <3>2
  <2>5. ASSUME NEW j \in jobs[n], NEW k, jobs'[n] = (jobs[n] \ {j}) \cup {k}
        PROVE  Few
    <3>0. PICK J : J = jobs[n]  BY Zenon
    <3>1. IsFiniteSet(jobs'[n]) /\ Cardinality(jobs'[n]) <= Cardinality(jobs[n])
      <4>1. j \in J /\ IsFiniteSet(J)  BY Zenon, <2>0, <3>0
      <4>2. /\ IsFiniteSet((J \ {j}) \cup {k})
            /\ Cardinality((J \ {j}) \cup {k}) <= Cardinality(J)
        BY Zenon, <4>1, JobGoesOn
      <4>. QED  BY Zenon, <2>5, <3>0, <4>2
    <3>2. Cardinality(jobs'[n]) \in Nat  BY Zenon, <3>1, FS_CardinalityType
    <3>. QED  BY <2>0, <3>1, <3>2
  <2>6. ASSUME NEW t, pool'[n] = {t}, relay'[n] \subseteq {t} PROVE Pool
    <3>1. IsFiniteSet({t}) /\ Cardinality({t}) = 1  BY Zenon, FS_Singleton
    <3>. QED  BY <2>6, <3>1
  <2>. HIDE DEF Few, Pool, Votes, Again
  <2>7. ASSUME NEW j \in jobs[n], NEW pc, NEW ok, Turns(n, j, pc, ok)
        PROVE  Few /\ Votes /\ Again
    BY Zenon, <2>2, <2>5, <2>7 DEF Turns
  <2>8. ASSUME NEW b \in Blinks, Stores(n, b) PROVE Few /\ Pool /\ Votes /\ Again
    BY Zenon, <2>2, <2>3, <2>8 DEF Stores
  <2>9. ASSUME NEW s \in sent, Waits(n, s) PROVE Few /\ Pool /\ Votes /\ Again
    BY Zenon, <2>2, <2>3, <2>9 DEF Waits
  <2>10. ASSUME NEW j \in jobs[n], Verifies(n, j) PROVE Few /\ Pool /\ Votes /\ Again
    BY Zenon, <2>2, <2>7, <2>10 DEF Verifies
  <2>11. ASSUME NEW j \in jobs[n], Adds(n, j) PROVE Few /\ Pool /\ Votes /\ Again
    BY Zenon, <2>2, <2>6, <2>7, <2>11 DEF Adds, Puts
  <2>12. ASSUME NEW j \in jobs[n], SetsAside(n, j) PROVE Few /\ Pool /\ Votes /\ Again
    BY Zenon, <2>2, <2>4, <2>12 DEF SetsAside
  <2>13. ASSUME NEW j \in jobs[n], Records(n, j) PROVE Few /\ Pool /\ Votes /\ Again
    BY Zenon, <2>2, <2>7, <2>13 DEF Records
  <2>14. ASSUME NEW j \in jobs[n], Relays(n, j) PROVE Few /\ Pool /\ Votes /\ Again
    <3>1. Few /\ Votes /\ Again  BY Zenon, <2>2, <2>4, <2>14 DEF Relays
    <3>2. Pool  BY Zenon, <2>14 DEF Relays, Types, Bounds, Pool
    <3>. QED  BY Zenon, <3>1, <3>2
  <2>15. ASSUME Receives(n) PROVE Few /\ Pool /\ Votes /\ Again
    <3>1. Few  BY Zenon, <2>0, <2>15 DEF Receives, Few
    <3>2. Votes /\ Again  BY Zenon, <2>2, <2>15 DEF Receives
    <3>3. \/ pool'[n] = pool[n] /\ relay'[n] = relay[n]
          \/ \E t : pool'[n] = {t} /\ relay'[n] = {t}
      BY Zenon, <2>15 DEF Receives, Puts
    <3>4. Pool  BY Zenon, <2>2, <2>6, <3>3
    <3>. QED  BY Zenon, <3>1, <3>2, <3>4
  <2>16. ASSUME Resets(n) PROVE Few /\ Pool /\ Votes /\ Again
    <3>1. Pool  BY Zenon, <2>2, <2>16 DEF Resets
    <3>2. Votes  BY Zenon, <2>16 DEF Resets, Votes, OncePerMember
    <3>3. Few
      <4>1. IsFiniteSet({}) /\ Cardinality({}) = 0  BY Zenon, FS_EmptySet
      <4>. QED  BY <2>0, <2>16, <4>1 DEF Resets, Few
    <3>4. Again  BY <2>0, <2>16 DEF Resets, Again
    <3>. QED  BY Zenon, <3>1, <3>2, <3>3, <3>4
  <2>17. ASSUME NEW b, NEW N, NEW D, NEW R, Counts(n, b, N, D, R)
         PROVE  Few /\ Pool /\ Votes /\ Again
    <3>1. Pool /\ Again  BY Zenon, <2>2, <2>17 DEF Counts
    <3>2. Votes  BY Zenon, <2>17 DEF Counts, Votes
    <3>3. Few
      <4>1. R = {} \/ R = {RecordJob(b)}  BY Zenon, <2>17 DEF Counts
      <4>2. CASE D = {}
        <5>1. /\ Cardinality(jobs[n]) < Threads[n]
              /\ jobs'[n] = jobs[n] \/ jobs'[n] = jobs[n] \cup {RecordJob(b)}
          <6>1. jobs'[n] = (jobs[n] \ D) \cup R  BY Zenon, <2>17 DEF Counts
          <6>2. Cardinality(jobs[n]) < Threads[n]
            BY Zenon, <2>17, <4>2 DEF Counts
          <6>. QED  BY Zenon, <4>1, <4>2, <6>1, <6>2
        <5>. QED  BY Zenon, <2>0, <2>3, <5>1 DEF Few
      <4>3. ASSUME NEW j \in jobs[n], D = {j} PROVE Few
        <5>1. \/ jobs'[n] = jobs[n] \ {j}
              \/ jobs'[n] = (jobs[n] \ {j}) \cup {RecordJob(b)}
          BY Zenon, <2>17, <4>1, <4>3 DEF Counts
        <5>. QED  BY Zenon, <2>4, <2>5, <5>1
      <4>. QED  BY Zenon, <2>17, <4>2, <4>3 DEF Counts
    <3>. QED  BY Zenon, <3>1, <3>2, <3>3
  <2>18. ASSUME NEW j \in jobs[n], Enters(n, j) PROVE Few /\ Pool /\ Votes /\ Again
    BY Zenon, <2>2, <2>7, <2>18 DEF Enters
  <2>. QED
    BY Zenon, <2>8, <2>9, <2>10, <2>11, <2>12, <2>13, <2>14, <2>15, <2>16, <2>17, <2>18
       DEF Steps
<1>4. \A m \in Node : Bounds(m)'
  BY Zenon, <1>2, <1>3
<1>. QED  BY Zenon, <1>1, <1>4 DEF Types

-----------------------------------------------------------------------------
(* The theorems.                                                           *)

LEMMA InitInv ==
  ASSUME Init PROVE Inv
<1>1. PICK h \in OneApproval : sent = PeerSigs(h)
  BY Zenon DEF Init
<1>2. /\ h \in [Peer -> SUBSET Blinks] /\ \A p \in Peer : \A b, c \in h[p] : b = c
  BY Zenon DEF OneApproval
<1>3. \A s \in sent : /\ s \in Sig /\ InWindow(s.blink) /\ HasQuorums(s.blink)
                      /\ s.member \in Peer
                      /\ s.ok <=> s.blink \in h[s.member]
  BY Zenon, <1>1 DEF PeerSigs
<1>4. \A n \in Node : /\ known[n] = {} /\ pending[n] = {} /\ votes[n] = {} /\ jobs[n] = {}
                      /\ pool[n] = {} /\ relay[n] = {} /\ blinked[n] = {} /\ restarts[n] = 0
                      /\ incoming[n] = {}
  BY DEF Init
<1>5. Types
  <2>1. Shape  BY <1>3 DEF Init, Shape
  <2>2. ASSUME NEW n \in Node PROVE Bounds(n)
    <3>1. IsFiniteSet({}) /\ Cardinality({}) = 0  BY Zenon, FS_EmptySet
    <3>2. OncePerMember(votes[n])  BY Zenon, <1>4 DEF OncePerMember
    <3>3. Threads[n] \in Nat /\ MaxRestarts[n] \in Nat  BY InstanceAssumption
    <3>4. Cardinality(pool[n]) <= 1 /\ Cardinality(jobs[n]) <= Threads[n]
      <4>1. pool[n] = {} /\ jobs[n] = {}  BY Zenon, <1>4
      <4>. QED  BY <3>1, <3>3, <4>1
    <3>5. restarts[n] <= MaxRestarts[n]  BY <1>4, <3>3
    <3>. QED  BY Zenon, <1>4, <3>1, <3>2, <3>4, <3>5 DEF Bounds
  <2>. QED  BY Zenon, <2>1, <2>2 DEF Types
<1>6. SigInv
  BY Zenon, <1>3, <1>4 DEF SigInv, Signatures, Acceptable
<1>7. FirstInv
  <2>. DEFINE f == [m \in Member |-> IF m \in Peer THEN h[m] ELSE {}]
  <2>1. /\ f \in [Member -> SUBSET Blinks]
        /\ \A m \in Peer : f[m] = h[m]
        /\ \A n \in Node : f[n] = {}
    BY <1>2, InstanceAssumption DEF Member
  <2>. HIDE DEF f
  <2>2. \A m \in Member : \A b, c \in f[m] : b = c
    BY Zenon, <1>2, <2>1 DEF Member
  <2>3. \A s \in sent : s.ok => s.blink \in f[s.member]
    BY Zenon, <1>3, <2>1
  <2>4. First(f)
    BY Zenon, <1>4, <2>1, <2>2, <2>3 DEF First, Bound
  <2>. QED  BY Zenon, <2>1, <2>4 DEF FirstInv
<1>8. RelayInv
  <2>1. ASSUME NEW n \in Node, NEW b \in Blinks, Approved(votes[n], b) PROVE FALSE
    <3>1. \E m : SigOf(b, m, TRUE) \in votes[n]  BY Zenon, <2>1, ApprovedHasSig
    <3>. QED  BY Zenon, <1>4, <3>1
  <2>. QED  BY Zenon, <2>1 DEF RelayInv, HandledAt
<1>9. OnceInv
  <2>1. OncePerMember(sent)
    <3>. SUFFICES ASSUME NEW s \in sent, NEW r \in sent,
                         s.blink = r.blink, s.member = r.member
                  PROVE  s = r
      BY Zenon DEF OncePerMember
    <3>1. s.ok \in BOOLEAN /\ r.ok \in BOOLEAN /\ (s.ok <=> r.ok)
      BY Zenon, <1>3, SigFields
    <3>2. s = SigOf(s.blink, s.member, s.ok) /\ r = SigOf(r.blink, r.member, r.ok)
      BY Zenon, <1>3, SigFields
    <3>3. s.ok = r.ok  BY Zenon, <3>1
    <3>. QED  BY Zenon, <3>2, <3>3
  <2>2. \A n \in Node : \A s \in sent : s.member # n
    BY Zenon, <1>3, InstanceAssumption
  <2>3. \A n \in Node : SignsOnce(n)
    BY Zenon, <1>4, <2>2 DEF SignsOnce
  <2>. QED  BY Zenon, <2>1, <2>3 DEF OnceInv
<1>10. SaidInv
  <2>1. ASSUME NEW b \in Blinks, NEW p \in Peer, Acceptable(b), InQuorum(p, b)
        PROVE  \E s \in sent : s.blink = b /\ s.member = p
    <3>1. p \in Member  BY Zenon DEF Member
    <3>2. PICK ok \in BOOLEAN : ok <=> b \in h[p]  BY Zenon
    <3>. DEFINE s == SigOf(b, p, ok)
    <3>3. s \in Sig /\ s.blink = b /\ s.member = p /\ s.ok = ok
      BY Zenon, <3>1, SigOfFields
    <3>. HIDE DEF s
    <3>4. s \in sent
      BY Zenon, <1>1, <2>1, <3>2, <3>3 DEF PeerSigs, Acceptable
    <3>. QED  BY Zenon, <3>3, <3>4
  <2>. QED  BY Zenon, <1>4, <2>1 DEF SaidInv, PeersSaid, Said
<1>11. LearnInv
  BY Zenon, <1>4 DEF LearnInv, Learns
<1>. QED  BY Zenon, <1>5, <1>6, <1>7, <1>8, <1>9, <1>10, <1>11 DEF Inv

LEMMA NextInv ==
  ASSUME Inv, [Next]_vars PROVE Inv'
<1>1. CASE Next
  <2>1. PICK n \in Node : Steps(n)
    BY Zenon, <1>1, Counting, NextSteps DEF Inv
  <2>. QED  BY Zenon, <2>1, Counting, TypesStep, SigInvStep, FirstInvStep, RelayInvStep,
               OnceInvStep, SaidInvStep, LearnInvStep DEF Inv
<1>2. CASE UNCHANGED vars
  <2>1. /\ known' = known /\ pending' = pending /\ votes' = votes /\ jobs' = jobs
        /\ pool' = pool /\ relay' = relay /\ blinked' = blinked /\ sent' = sent
        /\ restarts' = restarts /\ incoming' = incoming
    BY Zenon, <1>2 DEF vars
  <2>2. Types' /\ SigInv'
    BY Zenon, <2>1 DEF Inv, Types, Shape, Bounds, SigInv, Signatures
  <2>3. FirstInv'
    BY Zenon, <2>1 DEF Inv, FirstInv, First, Bound, JobBound, Firsts
  <2>4. RelayInv'
    <3>1. \A n, t : Handled(n, t)' <=> Handled(n, t)
      BY Zenon, <2>1 DEF Handled, Recording, Relaying, Adding
    <3>2. \A n, b : Approved(votes[n], b)' <=> Approved(votes[n], b)
      BY Zenon, <2>1 DEF Approved, SigCount, Validators
    <3>. QED  BY Zenon, <3>1, <3>2 DEF Inv, RelayInv, HandledAt
  <2>5. OnceInv'
    BY Zenon, <2>1 DEF Inv, OnceInv, SignsOnce
  <2>6. SaidInv'
    BY Zenon, <2>1 DEF Inv, SaidInv, PeersSaid, Said
  <2>7. LearnInv'
    BY Zenon, <2>1 DEF Inv, LearnInv, Learns, ApprovedTx
  <2>. QED  BY Zenon, <2>2, <2>3, <2>4, <2>5, <2>6, <2>7 DEF Inv
<1>. QED  BY Zenon, <1>1, <1>2

LEMMA SpecInv == Spec => []Inv
BY InitInv, NextInv, PTL DEF Spec

(* The members of the quorum have their types; a blink_tx holds at most    *)
(* one signature of a member (add_prechecked_signature), the pool no two   *)
(* transactions that spend the same output (add_tx), and no more threads   *)
(* are in a handler than there are.                                        *)
THEOREM BlinkTypes == Spec => []TypeOK
<1>1. ASSUME Inv PROVE TypeOK
  <2>1. ASSUME NEW n \in Node PROVE restarts[n] \in 0..MaxRestarts[n]
    <3>1. restarts[n] \in Nat /\ restarts[n] <= MaxRestarts[n]
      BY Zenon, <1>1 DEF Inv, Types, Shape, Bounds
    <3>2. MaxRestarts[n] \in Nat  BY InstanceAssumption
    <3>. QED  BY <3>1, <3>2
  <2>. QED  BY Zenon, <1>1, <2>1 DEF Inv, Types, Shape, Bounds, OncePerMember, TypeOK
<1>. QED  BY <1>1, SpecInv, PTL

(* handle_blink takes every pending signature of the blink along, and      *)
(* handle_blink_signature looks the blink up again under the exclusive     *)
(* lock: whatever the threads, no signature stays in pending_sigs when the *)
(* blink is there.                                                         *)
THEOREM SignaturesAreCounted == Spec => []NoForgottenSignature
<1>1. ASSUME Inv PROVE NoForgottenSignature
  BY Zenon, <1>1 DEF Inv, SigInv, Signatures, NoForgottenSignature
<1>. QED  BY <1>1, SpecInv, PTL

(* Two approved blinks share a subquorum, so a member approved both of     *)
(* them first.                                                             *)
LEMMA OneApproved ==
  ASSUME Inv PROVE NoConflictingBlinks
<1>1. PICK f : First(f)
  BY Zenon DEF Inv, FirstInv
<1>2. ASSUME NEW b \in Blinks, Approved(sent, b)
      PROVE  Acceptable(b) /\ HasQuorums(b) /\ Approved(Firsts(f), b)
  <2>1. PICK m : SigOf(b, m, TRUE) \in sent
    BY Zenon, <1>2, ApprovedHasSig
  <2>2. SigOf(b, m, TRUE).blink = b  BY Zenon DEF SigOf
  <2>3. Acceptable(b) /\ HasQuorums(b)
    BY Zenon, <2>1, <2>2 DEF Inv, SigInv, Acceptable
  <2>4. Types  BY Zenon DEF Inv
  <2>. QED  BY Zenon, <1>1, <1>2, <2>3, <2>4, Counting, ApprovedFirst
<1>3. ASSUME NEW b \in Blinks, NEW c \in Blinks, Approved(sent, b), Approved(sent, c),
             b.height <= c.height
      PROVE  b = c
  <2>1. /\ Acceptable(b) /\ HasQuorums(b) /\ Approved(Firsts(f), b)
        /\ Acceptable(c) /\ HasQuorums(c) /\ Approved(Firsts(f), c)
    BY Zenon, <1>2, <1>3
  <2>2. PICK q \in Subquorum, r \in Subquorum :
          QuorumHeight(b.height, q) = QuorumHeight(c.height, r)
    BY Zenon, <1>3, <2>1, SharedSubquorum
  <2>. DEFINE V == Firsts(f)
  <2>3. PICK m \in Member : SigOf(b, m, TRUE) \in V /\ SigOf(c, m, TRUE) \in V
    <3>. HIDE DEF V
    <3>1. Approved(V, b) /\ Approved(V, c)  BY Zenon, <2>1 DEF V
    <3>. QED  BY Zenon, <2>1, <2>2, <3>1, Overlap
  <2>4. b \in f[m] /\ c \in f[m]
    BY Zenon, <2>3 DEF Firsts, SigOf
  <2>. QED  BY Zenon, <1>1, <2>4 DEF First
<1>4. \A b, c \in Blinks : b.height <= c.height \/ c.height <= b.height
  BY InstanceAssumption
<1>. QED  BY Zenon, <1>3, <1>4 DEF NoConflictingBlinks

(* A majority in each subquorum prevents conflicting, signed blinks, for   *)
(* quorums of any size, heights of adjacent intervals and nodes that       *)
(* restart: two approved blinks share a subquorum, so a member approved    *)
(* both of them first, which its pool (add_tx) does not let it do.         *)
THEOREM ConflictsAreNotApproved == Spec => []NoConflictingBlinks
BY OneApproved, SpecInv, PTL

(* Unless a node restarts, a member signs a blink once (handle_blink       *)
(* ignores a known one), so what one node finds approved by its votes no   *)
(* other can find rejected, and the other way round.                       *)
THEOREM VerdictsNeverDiffer == Spec => []VerdictsAgree
<1>1. ASSUME Inv PROVE VerdictsAgree
  <2>. SUFFICES ASSUME \A n \in Node : restarts[n] = 0, NEW n \in Node, NEW b \in known[n]
                PROVE  /\ ~(Approved(votes[n], b) /\ Rejected(sent, b))
                       /\ ~(Rejected(votes[n], b) /\ Approved(sent, b))
    BY Zenon DEF VerdictsAgree
  <2>1. HasQuorums(b) /\ votes[n] \subseteq sent
    BY Zenon, <1>1 DEF Inv, SigInv, Signatures, Acceptable
  <2>2. OncePerMember(sent)
    BY Zenon, <1>1 DEF Inv, OnceInv
  <2>3. ~(Approved(sent, b) /\ Rejected(sent, b))
    BY Zenon, <2>1, <2>2, Counting, Exclusive
  <2>4. /\ Approved(votes[n], b) => Approved(sent, b)
        /\ Rejected(votes[n], b) => Rejected(sent, b)
    BY Zenon, <2>1, Counting, Monotone
  <2>. QED  BY Zenon, <2>3, <2>4
<1>. QED  BY <1>1, SpecInv, PTL

(* An approved blink's transaction does not stay in the pool with          *)
(* do_not_relay: process_blink_signatures calls set_relayable after        *)
(* add_existing_blink, and add_new_blink refuses a known blink.            *)
THEOREM ApprovedBlinksAreRelayed == Spec => []ApprovedIsRelayed
<1>1. ASSUME Inv PROVE ApprovedIsRelayed
  <2>. SUFFICES ASSUME NEW n \in Node, NEW b \in known[n], Approved(votes[n], b),
                       b.tx \in pool[n],
                       \A j \in jobs[n] : j.pc \in {"record", "relay"} => j.blink.tx # b.tx
                PROVE  b.tx \in relay[n]
    BY Zenon DEF ApprovedIsRelayed
  <2>1. b \in Blinks  BY Zenon, <1>1 DEF Inv, Types, Shape
  <2>2. Handled(n, b.tx)  BY Zenon, <1>1, <2>1 DEF Inv, RelayInv, HandledAt
  <2>. QED  BY Zenon, <2>2 DEF Handled, Relaying
<1>. QED  BY <1>1, SpecInv, PTL

(* No lock and no missing answer keeps a blink quorum from its verdict:    *)
(* when the nodes have handled all there is to handle, no thread waits     *)
(* (add_new_blink always releases m_transactions_lock), every member's     *)
(* signature has reached every node (handle_blink, handle_blink_signature, *)
(* also after a restart), and a subquorum whose places are all signed or   *)
(* unfilled has BLINK_MIN_VOTES approvals or too many rejections for that. *)
THEOREM QuorumsDecide == Spec => []Decided
<1>1. ASSUME Inv PROVE Decided
  <2>. SUFFICES ASSUME \A m \in Node : ~HasWork(m)
                PROVE  \A n \in Node :
                         /\ jobs[n] = {}
                         /\ \A b \in Blinks :
                               Acceptable(b) /\ InQuorum(n, b) =>
                                 /\ b \in known[n]
                                 /\ Approved(votes[n], b) \/ Rejected(votes[n], b)
    BY Zenon DEF Decided, Acceptable
  <2>1. ASSUME NEW m \in Node PROVE jobs[m] = {}
    <3>1. \A j \in jobs[m] : ~Ready(m, j)  BY Zenon DEF HasWork
    <3>2. ~PoolLocked(m)
      <4>1. ASSUME NEW j \in jobs[m], j.pc \in {"add", "enter"} PROVE FALSE
        <5>1. Ready(m, j)  BY <4>1 DEF Ready
        <5>. QED  BY Zenon, <3>1, <5>1
      <4>. QED  BY Zenon, <4>1 DEF PoolLocked
    <3>. QED  BY Zenon, <3>1, <3>2 DEF Ready
  <2>2. ASSUME NEW m \in Node PROVE ThreadFree(m)
    <3>1. Cardinality(jobs[m]) = 0  BY Zenon, <2>1, FS_EmptySet
    <3>2. Threads[m] \in Nat \ {0}  BY Zenon, InstanceAssumption
    <3>3. Cardinality(jobs[m]) < Threads[m]  BY <3>1, <3>2
    <3>. QED  BY Zenon, <3>3 DEF ThreadFree
  <2>3. ASSUME NEW m \in Node, NEW b \in Blinks, Acceptable(b), InQuorum(m, b)
        PROVE  b \in known[m] /\ \E s \in sent : s.blink = b /\ s.member = m
    <3>1. b \in known[m]
      BY Zenon, <2>2, <2>3 DEF HasWork, Takes, Acceptable
    <3>2. PICK v \in votes[m] : v.blink = b /\ v.member = m
      BY Zenon, <1>1, <2>1, <3>1 DEF Inv, SaidInv, Said
    <3>3. v \in sent  BY Zenon, <1>1 DEF Inv, SigInv, Signatures
    <3>. QED  BY Zenon, <3>1, <3>2, <3>3
  <2>4. ASSUME NEW m \in Member, NEW b \in Blinks, Acceptable(b), InQuorum(m, b)
        PROVE  \E s \in sent : s.blink = b /\ s.member = m
    <3>1. CASE m \in Node  BY Zenon, <2>3, <2>4, <3>1
    <3>2. CASE m \in Peer
      BY Zenon, <1>1, <2>4, <3>2 DEF Inv, SaidInv, PeersSaid
    <3>. QED  BY Zenon, <3>1, <3>2 DEF Member
  <2>5. ASSUME NEW n \in Node, NEW b \in Blinks, Acceptable(b), b \in known[n],
               NEW m \in Member, InQuorum(m, b)
        PROVE  \E ok \in BOOLEAN : SigOf(b, m, ok) \in votes[n]
    <3>1. PICK s \in sent : s.blink = b /\ s.member = m  BY Zenon, <2>4, <2>5
    <3>2. ~Wanted(n, s)  BY Zenon DEF HasWork
    <3>3. PICK v \in votes[n] : v.blink = s.blink /\ v.member = s.member
      BY Zenon, <2>2, <2>5, <3>1, <3>2 DEF Wanted, Acceptable
    <3>4. v \in Sig  BY Zenon, <1>1 DEF Inv, Types, Shape
    <3>5. v.ok \in BOOLEAN /\ v = SigOf(v.blink, v.member, v.ok)
      BY Zenon, <3>4, SigFields
    <3>. QED  BY Zenon, <3>1, <3>3, <3>5
  <2>6. ASSUME NEW n \in Node, NEW b \in Blinks, Acceptable(b), b \in known[n]
        PROVE  Approved(votes[n], b) \/ Rejected(votes[n], b)
    <3>1. HasQuorums(b)  BY Zenon, <2>6 DEF Acceptable
    <3>2. ASSUME NEW q \in Subquorum, NEW i \in DOMAIN Validators(b, q)
          PROVE  \E ok \in BOOLEAN : SigOf(b, Validators(b, q)[i], ok) \in votes[n]
      <4>1. Validators(b, q)[i] \in Member  BY Zenon, <3>1, QuorumFacts
      <4>2. InQuorum(Validators(b, q)[i], b)  BY Zenon DEF InQuorum
      <4>. QED  BY Zenon, <2>5, <2>6, <4>1, <4>2
    <3>. QED  BY Zenon, <3>1, <3>2, AllVoted
  <2>. QED  BY Zenon, <2>1, <2>3, <2>6
<1>. QED  BY <1>1, SpecInv, PTL

-----------------------------------------------------------------------------
(* Approval is final: Blink implements BlinkConsensus.                     *)

LEMMA OneApprovedTx ==
  ASSUME Inv PROVE OneTx
<1>1. NoConflictingBlinks  BY Zenon, OneApproved
<1>2. \A b \in Blinks : b.tx \in Tx  BY InstanceAssumption
<1>. QED  BY Zenon, <1>1, <1>2 DEF NoConflictingBlinks, ApprovedTx, OneTx


(* The quorums of conflicting transactions agree on at most one of them    *)
(* (service_node_rules.h), and nothing that the threads of a node, the     *)
(* network or a restart do, in any order, undoes that: add_existing_blink, *)
(* add_new_blink and add_blinks enter no other one in m_blinks, and add_tx *)
(* with remove_blink_conflicts replaces a transaction by no other one,     *)
(* although it evicts before m_blinks has the blink, and under another     *)
(* lock.                                                                   *)
THEOREM ApprovalsAreFinal == Spec => ApprovalIsFinal
<1>1. Init /\ Inv => Consensus!Init
  <2>. SUFFICES ASSUME Init, Inv PROVE Consensus!Init  OBVIOUS
  <2>1. ApprovedTx \in {{}} \cup {{t} : t \in Tx}
    <3>1. ApprovedTx \subseteq Tx /\ \A t, u \in ApprovedTx : t = u
      BY Zenon, OneApprovedTx DEF OneTx
    <3>2. CASE ApprovedTx = {}  BY Zenon, <3>2
    <3>3. ASSUME NEW t \in ApprovedTx PROVE ApprovedTx \in {{u} : u \in Tx}
      <4>1. ApprovedTx = {t} /\ t \in Tx  BY Zenon, <3>1
      <4>. QED  BY Zenon, <4>1
    <3>. QED  BY Zenon, <3>2, <3>3
  <2>. QED  BY Zenon, <2>1 DEF Init, Consensus!Init
<1>2. Inv /\ OneTx' /\ [Next]_vars => [Consensus!Next]_(Consensus!vars)
  <2>. SUFFICES ASSUME Inv, OneTx', [Next]_vars
                PROVE  [Consensus!Next]_(Consensus!vars)
    OBVIOUS
  <2>1. CASE Next
    <3>1. PICK n \in Node : Steps(n)
      BY Zenon, <2>1, Counting, NextSteps DEF Inv
    <3>. QED  BY Zenon, <3>1, Counting, OneApprovedTx, ConsensusStep
  <2>2. CASE UNCHANGED vars
    <3>1. sent' = sent /\ pool' = pool /\ blinked' = blinked
      BY Zenon, <2>2 DEF vars
    <3>2. ApprovedTx' = ApprovedTx  BY Zenon, <3>1 DEF ApprovedTx
    <3>. QED  BY Zenon, <3>1, <3>2 DEF Consensus!vars
  <2>. QED  BY Zenon, <2>1, <2>2
<1>3. Spec => []OneTx
  BY OneApprovedTx, SpecInv, PTL
<1>. QED
  BY <1>1, <1>2, <1>3, SpecInv, PTL DEF Spec, ApprovalIsFinal, Consensus!Spec
=============================================================================
