----------------------------- MODULE BlinkSteps -----------------------------
(***************************************************************************)
(* What a step of Blink does: what each action changes, that it keeps the  *)
(* conjuncts of the invariant, and that it is a step of BlinkConsensus.    *)
(* How signatures add up to a verdict is taken as CountingLaws, which      *)
(* BlinkProofs proves.                                                     *)
(***************************************************************************)
EXTENDS BlinkRefinement, TLAPS

-----------------------------------------------------------------------------
(* Counting signatures.                                                    *)

SigOf(b, m, ok) == [blink |-> b, member |-> m, ok |-> ok]

\* The places of subquorum q whose member voted ok for b.
Places(V, b, q, ok) ==
  {i \in DOMAIN Validators(b, q) : SigOf(b, Validators(b, q)[i], ok) \in V}

\* The blinks that handle_blink takes.
Acceptable(b) == InWindow(b) /\ HasQuorums(b)

\* No member has two signatures for a blink in V.
OncePerMember(V) ==
  \A s, r \in V : s.blink = r.blink /\ s.member = r.member => s = r

\* What the steps below use of counting.
CountingLaws ==
  /\ \A b, V : Approved(V, b) => \E m : SigOf(b, m, TRUE) \in V
  /\ \A b, V, W : HasQuorums(b) /\ V \subseteq W =>
        /\ Approved(V, b) => Approved(W, b)
        /\ Rejected(V, b) => Rejected(W, b)
  /\ \A b, V, W :
        /\ HasQuorums(b) /\ Approved(V, b)
        /\ \A m : SigOf(b, m, TRUE) \in V => SigOf(b, m, TRUE) \in W
        => Approved(W, b)
  /\ \A b, V : ~(HasQuorums(b) /\ OncePerMember(V) /\ Approved(V, b) /\ Rejected(V, b))

(* An approved blink has an approval.                                      *)
LEMMA HasApproval ==
  ASSUME CountingLaws, NEW b, NEW V, Approved(V, b)
  PROVE  \E m : SigOf(b, m, TRUE) \in V
BY Zenon DEF CountingLaws

(* More signatures, more votes.                                            *)
LEMMA Monotone ==
  ASSUME CountingLaws, NEW b, HasQuorums(b), NEW V, NEW W, V \subseteq W
  PROVE  /\ Approved(V, b) => Approved(W, b)
         /\ Rejected(V, b) => Rejected(W, b)
BY Zenon DEF CountingLaws

(* Only the approvals of a blink matter for its approval.                  *)
LEMMA ApprovedBy ==
  ASSUME CountingLaws, NEW b, HasQuorums(b), NEW V, NEW W, Approved(V, b),
         \A m : SigOf(b, m, TRUE) \in V => SigOf(b, m, TRUE) \in W
  PROVE  Approved(W, b)
BY Zenon DEF CountingLaws

(* When no member signs twice, a blink is not approved and rejected.       *)
LEMMA Exclusive ==
  ASSUME CountingLaws, NEW b, HasQuorums(b), NEW V, OncePerMember(V),
         Approved(V, b), Rejected(V, b)
  PROVE  FALSE
BY Zenon DEF CountingLaws

(* Only the signatures for the blink matter.                               *)
LEMMA SameVotes ==
  ASSUME NEW b, NEW V, NEW W,
         \A m, ok : SigOf(b, m, ok) \in V <=> SigOf(b, m, ok) \in W
  PROVE  (Approved(V, b) <=> Approved(W, b)) /\ (Rejected(V, b) <=> Rejected(W, b))
<1>1. ASSUME NEW q, NEW ok PROVE SigCount(V, b, q, ok) = SigCount(W, b, q, ok)
  <2>1. Places(V, b, q, ok) = Places(W, b, q, ok)
    BY Zenon DEF Places
  <2>2. /\ SigCount(V, b, q, ok) = Cardinality(Places(V, b, q, ok))
        /\ SigCount(W, b, q, ok) = Cardinality(Places(W, b, q, ok))
    BY Zenon DEF SigCount, Places, SigOf
  <2>. QED  BY Zenon, <2>1, <2>2
<1>. QED  BY Zenon, <1>1 DEF Approved, Rejected

-----------------------------------------------------------------------------
(* The types.                                                              *)

Pcs == {"verify", "add", "enter", "sign", "delay", "record", "relay"}

\* The variables are functions of the nodes.
Shape ==
  /\ known \in [Node -> SUBSET Blinks]
  /\ pending \in [Node -> SUBSET Sig]
  /\ votes \in [Node -> SUBSET Sig]
  /\ jobs \in [Node -> SUBSET Job] /\ incoming \in [Node -> SUBSET Incoming]
  /\ pool \in [Node -> SUBSET Tx] /\ relay \in [Node -> SUBSET Tx]
  /\ blinked \in [Node -> SUBSET Tx]
  /\ sent \subseteq Sig
  /\ restarts \in [Node -> Nat]

\* What TypeOK says of a node.
Bounds(n) ==
  /\ OncePerMember(votes[n])
  /\ relay[n] \subseteq pool[n] /\ IsFiniteSet(pool[n]) /\ Cardinality(pool[n]) <= 1
  /\ IsFiniteSet(jobs[n]) /\ Cardinality(jobs[n]) <= Threads[n]
  /\ restarts[n] <= MaxRestarts[n]

Types == Shape /\ \A n \in Node : Bounds(n)

LEMMA SigFields ==
  ASSUME NEW s \in Sig
  PROVE  /\ s.blink \in Blinks /\ s.member \in Member /\ s.ok \in BOOLEAN
         /\ s = SigOf(s.blink, s.member, s.ok)
<1>1. s.blink \in Blinks /\ s.member \in Member /\ s.ok \in BOOLEAN
  BY Zenon DEF Sig
<1>2. s = [blink |-> s.blink, member |-> s.member, ok |-> s.ok]
  BY Zenon DEF Sig
<1>. QED  BY Zenon, <1>1, <1>2 DEF SigOf

LEMMA SigOfFields ==
  ASSUME NEW b \in Blinks, NEW m \in Member, NEW ok \in BOOLEAN
  PROVE  /\ SigOf(b, m, ok) \in Sig
         /\ SigOf(b, m, ok).blink = b /\ SigOf(b, m, ok).member = m
         /\ SigOf(b, m, ok).ok = ok
BY DEF Sig, SigOf

NewJob(pc, b, S, ok) == [pc |-> pc, blink |-> b, sigs |-> S, ok |-> ok]

LEMMA JobFields ==
  ASSUME NEW j \in Job
  PROVE  /\ j.pc \in Pcs /\ j.blink \in Blinks /\ j.sigs \in SUBSET Sig
         /\ j.ok \in BOOLEAN
BY DEF Job, Pcs

LEMMA NewJobFields ==
  ASSUME NEW pc \in Pcs, NEW b \in Blinks, NEW S \in SUBSET Sig, NEW ok \in BOOLEAN
  PROVE  /\ NewJob(pc, b, S, ok) \in Job
         /\ NewJob(pc, b, S, ok).pc = pc /\ NewJob(pc, b, S, ok).blink = b
         /\ NewJob(pc, b, S, ok).sigs = S /\ NewJob(pc, b, S, ok).ok = ok
BY DEF Job, Pcs, NewJob

(* The steps of a job change its pc and perhaps its ok.                    *)
LEMMA JobStep ==
  ASSUME NEW j \in Job, NEW pc \in Pcs, NEW ok \in BOOLEAN
  PROVE  /\ [j EXCEPT !.pc = pc, !.ok = ok] = NewJob(pc, j.blink, j.sigs, ok)
         /\ [j EXCEPT !.pc = pc] = NewJob(pc, j.blink, j.sigs, j.ok)
<1>. DEFINE r == [j EXCEPT !.pc = pc, !.ok = ok]
            t == [j EXCEPT !.pc = pc]
<1>1. r \in Job /\ t \in Job
  BY Zenon DEF Job, Pcs
<1>2. /\ r.pc = pc /\ r.blink = j.blink /\ r.sigs = j.sigs /\ r.ok = ok
      /\ t.pc = pc /\ t.blink = j.blink /\ t.sigs = j.sigs /\ t.ok = j.ok
  BY Zenon DEF Job, Pcs
<1>. HIDE DEF r, t
<1>3. /\ r = [pc |-> r.pc, blink |-> r.blink, sigs |-> r.sigs, ok |-> r.ok]
      /\ t = [pc |-> t.pc, blink |-> t.blink, sigs |-> t.sigs, ok |-> t.ok]
  BY Zenon, <1>1 DEF Job
<1>. QED  BY Zenon, <1>2, <1>3 DEF r, t, NewJob

(* What an assignment at a node does.                                      *)
LEMMA AssignAt ==
  ASSUME NEW X, NEW f \in [Node -> X], NEW n \in Node, NEW v \in X, NEW g,
         g = [f EXCEPT ![n] = v]
  PROVE  /\ g \in [Node -> X] /\ g[n] = v
         /\ \A m \in Node \ {n} : g[m] = f[m]
OBVIOUS

-----------------------------------------------------------------------------
(* Where signatures and blinks are.                                        *)

\* The signatures that a node has recorded, keeps pending or is handling have
\* been sent; it has no vote for a blink that it does not know and no pending
\* signature for one that it does.
Signatures(n) ==
  /\ votes[n] \subseteq sent /\ pending[n] \subseteq sent
  /\ \A v \in votes[n] : v.blink \in known[n]
  /\ \A s \in pending[n] : s.blink \notin known[n]
  /\ \A b \in known[n] : Acceptable(b)
  /\ \A j \in jobs[n] :
        /\ j.pc # "delay" => j.blink \in known[n]
        /\ j.sigs \subseteq sent /\ \A s \in j.sigs : s.blink = j.blink

SigInv ==
  /\ \A s \in sent : Acceptable(s.blink)
  /\ \A n \in Node : Signatures(n)

-----------------------------------------------------------------------------
(* What the steps do, node by node.                                        *)

\* The other nodes are as before.
Frame(n) ==
  \A m \in Node \ {n} :
    /\ known'[m] = known[m] /\ pending'[m] = pending[m] /\ votes'[m] = votes[m]
    /\ jobs'[m] = jobs[m] /\ pool'[m] = pool[m] /\ relay'[m] = relay[m]
    /\ blinked'[m] = blinked[m] /\ restarts'[m] = restarts[m]
    /\ incoming'[m] = incoming[m]

RecordJob(b) == NewJob("record", b, {}, TRUE)

\* N are the signatures for b that are counted, D the job that ends.
Counts(n, b, N, D, R) ==
  /\ Shape' /\ Frame(n)
  /\ b \in known[n]
  /\ N \subseteq Sig /\ \A s \in N : s.blink = b
  /\ \/ D = {} /\ Cardinality(jobs[n]) < Threads[n]
     \/ \E j \in jobs[n] : D = {j} /\ j.pc \in {"sign", "delay"}
  /\ \A s \in N :
        \/ s \in sent
        \/ \E j \in D : j.pc = "sign" /\ s = SigOf(j.blink, n, j.ok)
  /\ \A j \in D : j.pc = "sign" =>
        \E v \in votes[n] \cup N : v.blink = j.blink /\ v.member = n
  /\ R \subseteq {RecordJob(b)}
  /\ OncePerMember(votes[n] \cup N)
  /\ Approved(votes[n] \cup N, b) => Approved(votes[n], b) \/ R = {RecordJob(b)}
  /\ R # {} => Approved(votes[n] \cup N, b)
  /\ votes'[n] = votes[n] \cup N
  /\ sent' = sent \cup N
  /\ jobs'[n] = (jobs[n] \ D) \cup R
  /\ known'[n] = known[n] /\ pending'[n] = pending[n] /\ pool'[n] = pool[n]
  /\ relay'[n] = relay[n] /\ blinked'[n] = blinked[n] /\ restarts'[n] = restarts[n]
  /\ incoming'[n] = incoming[n]

\* Some of the signatures S are recorded, and then one of each of their
\* members is.
Processed(n, b, S, D) ==
  \E N \in SUBSET S, R \in SUBSET {RecordJob(b)} :
    /\ \A s \in S : \E v \in votes[n] \cup N : v.blink = b /\ v.member = s.member
    /\ OncePerMember(votes[n] \cup N)
    /\ Approved(votes[n] \cup N, b) => Approved(votes[n], b) \/ R = {RecordJob(b)}
    /\ R # {} => Approved(votes[n] \cup N, b)
    /\ votes' = [votes EXCEPT ![n] = votes[n] \cup N]
    /\ sent' = sent \cup N
    /\ jobs' = [jobs EXCEPT ![n] = (jobs[n] \ D) \cup R]

(* Whatever signatures come, some of them can be added.                    *)
LEMMA AdditionsExist ==
  ASSUME NEW V, NEW S
  PROVE  \E N : N \in Additions(V, S)
<1>. DEFINE free == {s \in S : \A v \in V : v.blink = s.blink => v.member # s.member}
            one(m) == CHOOSE r : r \in free /\ r.member = m
            N == {s \in free : s = one(s.member)}
<1>. HIDE DEF free
<1>1. ASSUME NEW s \in free PROVE \E r \in N : r.member = s.member
  <2>1. \E r : r \in free /\ r.member = s.member  BY Zenon
  <2>2. one(s.member) \in free /\ one(s.member).member = s.member
    BY Zenon, <2>1
  <2>. QED  BY Zenon, <2>2
<1>2. \A r, t \in N : r.member = t.member => r = t
  BY Zenon
<1>. HIDE DEF N
<1>3. N \subseteq free  BY Zenon DEF N
<1>. QED  BY Zenon, <1>1, <1>2, <1>3 DEF Additions, free

(* process_blink_signatures counts some of the signatures, one for each    *)
(* member that had none, and notices the approval of the blink.            *)
LEMMA ProcessStep ==
  ASSUME CountingLaws, Shape, NEW n \in Node, NEW b \in Blinks, HasQuorums(b),
         NEW S \in SUBSET Sig, \A s \in S : s.blink = b,
         OncePerMember(votes[n]), NEW D, Process(n, b, S, jobs[n] \ D)
  PROVE  Processed(n, b, S, D)
<1>. DEFINE became(N) == /\ N # {}
                         /\ ~Approved(votes[n], b) /\ ~Rejected(votes[n], b)
                         /\ Approved(votes[n] \cup N, b)
            rec(N) == IF became(N) THEN {RecordJob(b)} ELSE {}
<1>1. PICK N \in Additions(votes[n], S) :
        /\ votes' = [votes EXCEPT ![n] = votes[n] \cup N]
        /\ sent' = sent \cup N
        /\ jobs' = [jobs EXCEPT ![n] = (jobs[n] \ D) \cup rec(N)]
  BY Zenon DEF Process, RecordJob, NewJob
<1>2. /\ N \subseteq S
      /\ \A s \in N : \A v \in votes[n] : v.blink = s.blink => v.member # s.member
      /\ \A r, s \in N : r.member = s.member => r = s
  BY Zenon DEF Additions
<1>3. OncePerMember(votes[n] \cup N)
  BY Zenon, <1>2 DEF OncePerMember
<1>4. rec(N) \in SUBSET {RecordJob(b)}
  BY Zenon
<1>5. ASSUME Approved(votes[n] \cup N, b), ~Approved(votes[n], b)
      PROVE  rec(N) = {RecordJob(b)}
  <2>1. N # {}
    <3>1. ASSUME N = {} PROVE votes[n] \cup N = votes[n]  BY Zenon, <3>1
    <3>. QED  BY Zenon, <1>5, <3>1
  <2>2. ~Rejected(votes[n], b)
    <3>1. SUFFICES ASSUME Rejected(votes[n], b) PROVE FALSE  OBVIOUS
    <3>2. votes[n] \subseteq votes[n] \cup N  BY Zenon
    <3>3. Rejected(votes[n] \cup N, b)  BY Zenon, <3>1, <3>2, Monotone
    <3>. QED  BY Zenon, <1>3, <1>5, <3>3, Exclusive
  <2>. QED  BY Zenon, <1>5, <2>1, <2>2
<1>6. ASSUME NEW s \in S
      PROVE  \E v \in votes[n] \cup N : v.blink = b /\ v.member = s.member
  <2>1. CASE \A v \in votes[n] : v.blink = s.blink => v.member # s.member
    <3>1. \E r \in N : r.member = s.member  BY Zenon, <2>1 DEF Additions
    <3>. QED  BY Zenon, <1>2, <3>1
  <2>2. CASE \E v \in votes[n] : v.blink = s.blink /\ v.member = s.member
    BY Zenon, <2>2
  <2>. QED  BY Zenon, <2>1, <2>2
<1>7. rec(N) # {} => Approved(votes[n] \cup N, b)
  BY Zenon
<1>. QED  BY Zenon, <1>1, <1>2, <1>3, <1>4, <1>5, <1>6, <1>7 DEF Processed

LEMMA CountsStep ==
  ASSUME CountingLaws, Types, SigInv, NEW n \in Node, NEW b \in known[n],
         NEW S \in SUBSET Sig, \A s \in S : s.blink = b, NEW D,
         \/ D = {} /\ Cardinality(jobs[n]) < Threads[n]
         \/ \E j \in jobs[n] : D = {j} /\ j.pc \in {"sign", "delay"},
         \A s \in S : \/ s \in sent
                      \/ \E j \in D : j.pc = "sign" /\ s = SigOf(j.blink, n, j.ok),
         \A j \in D : j.pc = "sign" => j.blink = b /\ \E s \in S : s.member = n,
         Process(n, b, S, jobs[n] \ D),
         UNCHANGED <<known, pending, incoming, pool, relay, blinked, restarts>>
  PROVE  \E N, R : Counts(n, b, N, D, R)
<1>1. Shape /\ b \in Blinks /\ HasQuorums(b) /\ OncePerMember(votes[n])
  BY Zenon DEF Types, Shape, Bounds, SigInv, Signatures, Acceptable
<1>2. jobs[n] \ D \in SUBSET Job /\ jobs[n] \in SUBSET Job /\ votes[n] \in SUBSET Sig
  BY Zenon DEF Types, Shape
<1>. Processed(n, b, S, D)
  BY Zenon, <1>1, ProcessStep
<1>3. PICK N \in SUBSET S, R \in SUBSET {RecordJob(b)} :
        /\ \A s \in S : \E v \in votes[n] \cup N : v.blink = b /\ v.member = s.member
        /\ OncePerMember(votes[n] \cup N)
        /\ Approved(votes[n] \cup N, b) => Approved(votes[n], b) \/ R = {RecordJob(b)}
        /\ R # {} => Approved(votes[n] \cup N, b)
        /\ votes' = [votes EXCEPT ![n] = votes[n] \cup N]
        /\ sent' = sent \cup N
        /\ jobs' = [jobs EXCEPT ![n] = (jobs[n] \ D) \cup R]
  BY Zenon DEF Processed
<1>4. RecordJob(b) \in Job
  BY Zenon, <1>1, NewJobFields DEF RecordJob, Pcs
<1>5. /\ votes' \in [Node -> SUBSET Sig] /\ votes'[n] = votes[n] \cup N
      /\ \A m \in Node \ {n} : votes'[m] = votes[m]
  <2>1. votes \in [Node -> SUBSET Sig]  BY Zenon DEF Types, Shape
  <2>2. votes[n] \cup N \in SUBSET Sig  BY Zenon, <1>2
  <2>. QED  BY Zenon, <1>3, <2>1, <2>2, AssignAt
<1>6. /\ jobs' \in [Node -> SUBSET Job] /\ jobs'[n] = (jobs[n] \ D) \cup R
      /\ \A m \in Node \ {n} : jobs'[m] = jobs[m]
  <2>1. jobs \in [Node -> SUBSET Job]  BY Zenon DEF Types, Shape
  <2>2. (jobs[n] \ D) \cup R \in SUBSET Job  BY Zenon, <1>2, <1>4
  <2>. QED  BY Zenon, <1>3, <2>1, <2>2, AssignAt
<1>7. Shape'
  BY Zenon, <1>3, <1>5, <1>6 DEF Types, Shape
<1>8. Frame(n)
  BY Zenon, <1>5, <1>6 DEF Frame
<1>9. /\ N \subseteq Sig /\ \A s \in N : s.blink = b
      /\ \A s \in N : \/ s \in sent
                      \/ \E j \in D : j.pc = "sign" /\ s = SigOf(j.blink, n, j.ok)
      /\ \A j \in D : j.pc = "sign" =>
            \E v \in votes[n] \cup N : v.blink = j.blink /\ v.member = n
  BY Zenon, <1>3
<1>10. Counts(n, b, N, D, R)
  BY Zenon, <1>3, <1>5, <1>6, <1>7, <1>8, <1>9 DEF Counts
<1>. QED  BY Zenon, <1>10

LEMMA SignEffect ==
  ASSUME CountingLaws, Types, SigInv, NEW n \in Node, NEW j \in jobs[n], Sign(n, j)
  PROVE  j.pc = "sign" /\ \E N, R : Counts(n, j.blink, N, {j}, R)
<1>1. j \in Job /\ j.pc = "sign"
  BY Zenon DEF Sign, Types, Shape
<1>2. j.blink \in known[n] /\ j.sigs \subseteq sent /\ \A s \in j.sigs : s.blink = j.blink
  BY Zenon, <1>1 DEF SigInv, Signatures
<1>3. j.blink \in Blinks /\ j.sigs \in SUBSET Sig /\ j.ok \in BOOLEAN /\ n \in Member
  BY Zenon, <1>1, JobFields DEF Member
<1>. DEFINE own == SigOf(j.blink, n, j.ok)
            S == IF \E s \in j.sigs : s.member = n THEN j.sigs ELSE j.sigs \cup {own}
<1>4. own \in Sig /\ own.blink = j.blink
  BY Zenon, <1>3 DEF SigOf, Sig
<1>5. /\ S \in SUBSET Sig /\ \A s \in S : s.blink = j.blink
      /\ \A s \in S : \/ s \in sent
                      \/ \E k \in {j} : k.pc = "sign" /\ s = SigOf(k.blink, n, k.ok)
      /\ \A k \in {j} : k.pc = "sign" => k.blink = j.blink /\ \E s \in S : s.member = n
  <2>1. own.member = n  BY Zenon DEF SigOf
  <2>2. \E s \in S : s.member = n  BY Zenon, <2>1
  <2>. QED  BY Zenon, <1>1, <1>2, <1>3, <1>4, <2>2
<1>6. /\ Process(n, j.blink, S, jobs[n] \ {j})
      /\ UNCHANGED <<known, pending, incoming, pool, relay, blinked, restarts>>
  BY Zenon DEF Sign, SigOf
<1>7. \E k \in jobs[n] : {j} = {k} /\ k.pc \in {"sign", "delay"}
  BY Zenon, <1>1
<1>. HIDE DEF S
<1>. QED  BY Zenon, <1>1, <1>2, <1>5, <1>6, <1>7, CountsStep

\* A thread waits to look the blink up again.
Waits(n, s) ==
  /\ Shape' /\ Frame(n) /\ sent' = sent
  /\ s \in sent /\ s.blink \notin known[n]
  /\ Cardinality(jobs[n]) < Threads[n]
  /\ jobs'[n] = jobs[n] \cup {NewJob("delay", s.blink, {s}, FALSE)}
  /\ known'[n] = known[n] /\ pending'[n] = pending[n] /\ votes'[n] = votes[n]
  /\ pool'[n] = pool[n] /\ relay'[n] = relay[n] /\ blinked'[n] = blinked[n]
  /\ restarts'[n] = restarts[n] /\ incoming'[n] = incoming[n]

LEMMA SignatureEffect ==
  ASSUME CountingLaws, Types, SigInv, NEW n \in Node, NEW s \in sent,
         HandleBlinkSignature(n, s)
  PROVE  (\E N, R : Counts(n, s.blink, N, {}, R)) \/ Waits(n, s)
<1>1. s \in Sig /\ s.blink \in Blinks
  BY Zenon, SigFields DEF Types, Shape
<1>2. /\ Cardinality(jobs[n]) < Threads[n]
      /\ UNCHANGED <<known, pending, incoming, pool, relay, blinked, restarts>>
  BY Zenon DEF HandleBlinkSignature, Wanted, ThreadFree
<1>3. CASE s.blink \in known[n]
  <2>1. Process(n, s.blink, {s}, jobs[n])
    BY Zenon, <1>3 DEF HandleBlinkSignature
  <2>2. jobs[n] \ {} = jobs[n]  BY Zenon
  <2>3. Process(n, s.blink, {s}, jobs[n] \ {})  BY Zenon, <2>1, <2>2
  <2>4. /\ {s} \in SUBSET Sig /\ \A r \in {s} : r.blink = s.blink
        /\ \A r \in {s} : \/ r \in sent
                          \/ \E j \in {} : j.pc = "sign" /\ r = SigOf(j.blink, n, j.ok)
        /\ \A j \in {} : j.pc = "sign" => j.blink = s.blink /\ \E r \in {s} : r.member = n
    BY Zenon, <1>1
  <2>. QED  BY Zenon, <1>2, <1>3, <2>3, <2>4, CountsStep
<1>4. CASE s.blink \notin known[n]
  <2>. DEFINE k == NewJob("delay", s.blink, {s}, FALSE)
  <2>1. jobs' = [jobs EXCEPT ![n] = jobs[n] \cup {k}] /\ UNCHANGED <<votes, sent>>
    BY Zenon, <1>4 DEF HandleBlinkSignature, NewJob
  <2>2. k \in Job
    <3>1. {s} \in SUBSET Sig /\ FALSE \in BOOLEAN /\ "delay" \in Pcs
      BY Zenon, <1>1 DEF Pcs
    <3>. QED  BY Zenon, <1>1, <3>1, NewJobFields
  <2>. HIDE DEF k
  <2>3. /\ jobs' \in [Node -> SUBSET Job] /\ jobs'[n] = jobs[n] \cup {k}
        /\ \A m \in Node \ {n} : jobs'[m] = jobs[m]
    BY <2>1, <2>2 DEF Types, Shape
  <2>4. Shape'  BY Zenon, <1>2, <2>1, <2>3 DEF Types, Shape
  <2>5. Frame(n)  BY Zenon, <1>2, <2>1, <2>3 DEF Frame
  <2>6. Waits(n, s)
    BY Zenon, <1>2, <1>4, <2>1, <2>3, <2>4, <2>5 DEF Waits, k
  <2>. QED  BY Zenon, <2>6
<1>. QED  BY Zenon, <1>3, <1>4

\* A signature for an unknown blink becomes pending.
SetsAside(n, j) ==
  /\ Shape' /\ Frame(n) /\ sent' = sent
  /\ j.pc = "delay" /\ j.blink \notin known[n]
  /\ pending'[n] = pending[n] \cup j.sigs
  /\ jobs'[n] = jobs[n] \ {j}
  /\ known'[n] = known[n] /\ votes'[n] = votes[n]
  /\ pool'[n] = pool[n] /\ relay'[n] = relay[n] /\ blinked'[n] = blinked[n]
  /\ restarts'[n] = restarts[n] /\ incoming'[n] = incoming[n]

LEMMA DelayEffect ==
  ASSUME CountingLaws, Types, SigInv, NEW n \in Node, NEW j \in jobs[n], Delay(n, j)
  PROVE  /\ j.pc = "delay"
         /\ (\E N, R : Counts(n, j.blink, N, {j}, R)) \/ SetsAside(n, j)
<1>1. /\ j \in Job /\ j.pc = "delay"
      /\ UNCHANGED <<known, incoming, pool, relay, blinked, restarts>>
  BY Zenon DEF Delay, Types, Shape
<1>2. /\ j.sigs \in SUBSET Sig /\ j.sigs \subseteq sent
      /\ \A s \in j.sigs : s.blink = j.blink
  BY Zenon, <1>1, JobFields DEF SigInv, Signatures
<1>3. CASE j.blink \in known[n]
  <2>1. Process(n, j.blink, j.sigs, jobs[n] \ {j}) /\ UNCHANGED pending
    BY Zenon, <1>3 DEF Delay, Unknown
  <2>2. \A s \in j.sigs : \/ s \in sent
                          \/ \E k \in {j} : k.pc = "sign" /\ s = SigOf(k.blink, n, k.ok)
    BY Zenon, <1>2
  <2>5. \A k \in {j} : k.pc = "sign" => k.blink = j.blink /\ \E s \in j.sigs : s.member = n
    <3>1. "delay" # "sign"  OBVIOUS
    <3>. QED  BY Zenon, <1>1, <3>1
  <2>3. \E k \in jobs[n] : {j} = {k} /\ k.pc \in {"sign", "delay"}
    BY Zenon, <1>1
  <2>4. UNCHANGED <<known, pending, incoming, pool, relay, blinked, restarts>>
    BY Zenon, <1>1, <2>1
  <2>. QED  BY Zenon, <1>1, <1>2, <1>3, <2>1, <2>2, <2>3, <2>4, <2>5, CountsStep
<1>4. CASE j.blink \notin known[n]
  <2>1. /\ pending' = [pending EXCEPT ![n] = pending[n] \cup j.sigs]
        /\ jobs' = [jobs EXCEPT ![n] = jobs[n] \ {j}]
        /\ UNCHANGED <<votes, sent>>
    BY Zenon, <1>4 DEF Delay, Unknown
  <2>2. /\ jobs' \in [Node -> SUBSET Job] /\ jobs'[n] = jobs[n] \ {j}
        /\ \A m \in Node \ {n} : jobs'[m] = jobs[m]
    BY <2>1 DEF Types, Shape
  <2>3. /\ pending' \in [Node -> SUBSET Sig] /\ pending'[n] = pending[n] \cup j.sigs
        /\ \A m \in Node \ {n} : pending'[m] = pending[m]
    BY <1>2, <2>1 DEF Types, Shape
  <2>4. Shape'  BY Zenon, <1>1, <2>1, <2>2, <2>3 DEF Types, Shape
  <2>5. Frame(n)  BY Zenon, <1>1, <2>1, <2>2, <2>3 DEF Frame
  <2>6. SetsAside(n, j)
    BY Zenon, <1>1, <1>4, <2>1, <2>2, <2>3, <2>4, <2>5 DEF SetsAside
  <2>. QED  BY Zenon, <1>1, <2>6
<1>. QED  BY Zenon, <1>3, <1>4

\* The node's pending signatures for b.
Mine(n, b) == {s \in pending[n] : s.blink = b}

\* A blink becomes known, with the signatures that were pending.
Stores(n, b) ==
  /\ Shape' /\ Frame(n) /\ sent' = sent
  /\ Acceptable(b) /\ b \notin known[n]
  /\ Cardinality(jobs[n]) < Threads[n]
  /\ known'[n] = known[n] \cup {b}
  /\ pending'[n] = pending[n] \ Mine(n, b)
  /\ jobs'[n] = jobs[n] \cup {NewJob("verify", b, Mine(n, b), FALSE)}
  /\ votes'[n] = votes[n]
  /\ pool'[n] = pool[n] /\ relay'[n] = relay[n] /\ blinked'[n] = blinked[n]
  /\ restarts'[n] = restarts[n] /\ incoming'[n] = incoming[n]

LEMMA BlinkEffect ==
  ASSUME Types, NEW n \in Node, NEW b \in Blinks, HandleBlink(n, b)
  PROVE  Stores(n, b)
<1>. DEFINE k == NewJob("verify", b, Mine(n, b), FALSE)
<1>1. /\ known' = [known EXCEPT ![n] = known[n] \cup {b}]
      /\ pending' = [pending EXCEPT ![n] = pending[n] \ Mine(n, b)]
      /\ jobs' = [jobs EXCEPT ![n] = jobs[n] \cup {k}]
      /\ UNCHANGED <<votes, incoming, pool, relay, blinked, sent, restarts>>
      /\ Acceptable(b) /\ b \notin known[n] /\ Cardinality(jobs[n]) < Threads[n]
  BY Zenon DEF HandleBlink, Takes, ThreadFree, Mine, NewJob, Acceptable
<1>2. k \in Job
  <2>1. Mine(n, b) \in SUBSET Sig /\ FALSE \in BOOLEAN /\ "verify" \in Pcs
    BY Zenon DEF Mine, Pcs, Types, Shape
  <2>. QED  BY Zenon, <2>1, NewJobFields
<1>. HIDE DEF k
<1>3. /\ jobs' \in [Node -> SUBSET Job] /\ jobs'[n] = jobs[n] \cup {k}
      /\ \A m \in Node \ {n} : jobs'[m] = jobs[m]
  BY <1>1, <1>2 DEF Types, Shape
<1>4. /\ pending' \in [Node -> SUBSET Sig] /\ pending'[n] = pending[n] \ Mine(n, b)
      /\ \A m \in Node \ {n} : pending'[m] = pending[m]
  BY <1>1 DEF Types, Shape
<1>5. /\ known' \in [Node -> SUBSET Blinks] /\ known'[n] = known[n] \cup {b}
      /\ \A m \in Node \ {n} : known'[m] = known[m]
  BY <1>1 DEF Types, Shape
<1>6. Shape'  BY Zenon, <1>1, <1>3, <1>4, <1>5 DEF Types, Shape
<1>7. Frame(n)  BY Zenon, <1>1, <1>3, <1>4, <1>5 DEF Frame
<1>. QED  BY Zenon, <1>1, <1>3, <1>4, <1>5, <1>6, <1>7 DEF Stores, k

\* A job goes on; the pool may change.
Turns(n, j, pc, ok) ==
  /\ Shape' /\ Frame(n) /\ sent' = sent
  /\ jobs'[n] = (jobs[n] \ {j}) \cup {NewJob(pc, j.blink, j.sigs, ok)}
  /\ known'[n] = known[n] /\ pending'[n] = pending[n] /\ votes'[n] = votes[n]
  /\ restarts'[n] = restarts[n] /\ incoming'[n] = incoming[n]

\* The pool is as before at the other nodes.
PoolFrame(n) ==
  /\ pool' \in [Node -> SUBSET Tx] /\ relay' \in [Node -> SUBSET Tx]
  /\ blinked' \in [Node -> SUBSET Tx]
  /\ \A m \in Node \ {n} : /\ pool'[m] = pool[m] /\ relay'[m] = relay[m]
                           /\ blinked'[m] = blinked[m]

LEMMA TurnStep ==
  ASSUME Types, NEW n \in Node, NEW j \in jobs[n], NEW pc \in Pcs, NEW ok \in BOOLEAN,
         jobs' = [jobs EXCEPT ![n] = (jobs[n] \ {j}) \cup {NewJob(pc, j.blink, j.sigs, ok)}],
         UNCHANGED <<known, pending, votes, incoming, sent, restarts>>, PoolFrame(n)
  PROVE  Turns(n, j, pc, ok)
<1>. DEFINE k == NewJob(pc, j.blink, j.sigs, ok)
<1>1. k \in Job
  <2>1. j \in Job  BY Zenon DEF Types, Shape
  <2>2. j.blink \in Blinks /\ j.sigs \in SUBSET Sig  BY Zenon, <2>1, JobFields
  <2>. QED  BY Zenon, <2>2, NewJobFields
<1>2. jobs' = [jobs EXCEPT ![n] = (jobs[n] \ {j}) \cup {k}]  BY Zenon
<1>. HIDE DEF k
<1>3. /\ jobs' \in [Node -> SUBSET Job] /\ jobs'[n] = (jobs[n] \ {j}) \cup {k}
      /\ \A m \in Node \ {n} : jobs'[m] = jobs[m]
  BY <1>1, <1>2 DEF Types, Shape
<1>4. Shape'  BY Zenon, <1>3 DEF Types, Shape, PoolFrame
<1>5. Frame(n)  BY Zenon, <1>3 DEF Frame, PoolFrame
<1>. QED  BY Zenon, <1>3, <1>4, <1>5 DEF Turns, k

LEMMA PoolUnchanged ==
  ASSUME Types, NEW n \in Node, UNCHANGED <<pool, relay, blinked>>
  PROVE  /\ PoolFrame(n)
         /\ pool'[n] = pool[n] /\ relay'[n] = relay[n] /\ blinked'[n] = blinked[n]
BY Zenon DEF Types, Shape, PoolFrame

\* add_new_blink before add_tx.
Verifies(n, j) ==
  /\ j.pc = "verify"
  /\ pool'[n] = pool[n] /\ relay'[n] = relay[n] /\ blinked'[n] = blinked[n]
  /\ \/ Turns(n, j, "sign", FALSE)
     \/ /\ j.blink.tx \notin blinked[n]
        /\ \E ok \in BOOLEAN : /\ ok <=> Approved(votes[n], j.blink)
                               /\ Turns(n, j, "add", ok)

LEMMA VerifyEffect ==
  ASSUME Types, NEW n \in Node, NEW j \in jobs[n], Verify(n, j)
  PROVE  Verifies(n, j)
<1>1. /\ j \in Job /\ j.pc = "verify"
      /\ UNCHANGED <<known, pending, votes, incoming, pool, relay, blinked, sent,
                     restarts>>
  BY Zenon DEF Verify, Types, Shape
<1>2. /\ PoolFrame(n)
      /\ pool'[n] = pool[n] /\ relay'[n] = relay[n] /\ blinked'[n] = blinked[n]
  BY Zenon, <1>1, PoolUnchanged
<1>3. CASE j.blink.tx \in blinked[n]
  <2>1. jobs' = [jobs EXCEPT ![n] =
                   (jobs[n] \ {j}) \cup {[j EXCEPT !.pc = "sign", !.ok = FALSE]}]
    BY Zenon, <1>3 DEF Verify
  <2>2. "sign" \in Pcs /\ FALSE \in BOOLEAN  BY Zenon DEF Pcs
  <2>3. [j EXCEPT !.pc = "sign", !.ok = FALSE] = NewJob("sign", j.blink, j.sigs, FALSE)
    BY Zenon, <1>1, <2>2, JobStep
  <2>4. jobs' = [jobs EXCEPT ![n] =
                   (jobs[n] \ {j}) \cup {NewJob("sign", j.blink, j.sigs, FALSE)}]
    BY Zenon, <2>1, <2>3
  <2>5. Turns(n, j, "sign", FALSE)
    BY Zenon, <1>1, <1>2, <2>2, <2>4, TurnStep
  <2>. QED  BY Zenon, <1>1, <1>2, <2>5 DEF Verifies
<1>4. CASE j.blink.tx \notin blinked[n]
  <2>1. Approved(votes[n], j.blink) \in BOOLEAN
    BY Zenon DEF Approved
  <2>2. PICK ok \in BOOLEAN : ok = Approved(votes[n], j.blink)
    BY Zenon, <2>1
  <2>3. jobs' = [jobs EXCEPT ![n] =
                   (jobs[n] \ {j}) \cup {[j EXCEPT !.pc = "add", !.ok = ok]}]
    BY Zenon, <1>4, <2>2 DEF Verify
  <2>4. "add" \in Pcs  BY Zenon DEF Pcs
  <2>5. [j EXCEPT !.pc = "add", !.ok = ok] = NewJob("add", j.blink, j.sigs, ok)
    BY Zenon, <1>1, <2>4, JobStep
  <2>6. jobs' = [jobs EXCEPT ![n] =
                   (jobs[n] \ {j}) \cup {NewJob("add", j.blink, j.sigs, ok)}]
    BY Zenon, <2>3, <2>5
  <2>7. Turns(n, j, "add", ok)
    BY Zenon, <1>1, <1>2, <2>4, <2>6, TurnStep
  <2>. QED  BY Zenon, <1>1, <1>2, <1>4, <2>2, <2>7 DEF Verifies
<1>. QED  BY Zenon, <1>3, <1>4

\* add_tx puts t into the pool.
Puts(n, t, doRelay) ==
  /\ pool'[n] = {t}
  /\ relay'[n] = IF doRelay THEN {t} ELSE {}

LEMMA AddTxEffect ==
  ASSUME Types, NEW n \in Node, NEW t \in Tx, NEW doRelay \in BOOLEAN,
         AddTx(n, t, doRelay)
  PROVE  /\ Puts(n, t, doRelay)
         /\ pool' \in [Node -> SUBSET Tx] /\ relay' \in [Node -> SUBSET Tx]
         /\ \A m \in Node \ {n} : pool'[m] = pool[m] /\ relay'[m] = relay[m]
<1>. DEFINE R == IF doRelay THEN {t} ELSE {}
<1>1. R \in SUBSET Tx  BY Zenon
<1>2. pool' = [pool EXCEPT ![n] = {t}] /\ relay' = [relay EXCEPT ![n] = R]
  BY Zenon DEF AddTx
<1>. HIDE DEF R
<1>3. /\ pool'[n] = {t} /\ relay'[n] = R
      /\ pool' \in [Node -> SUBSET Tx] /\ relay' \in [Node -> SUBSET Tx]
      /\ \A m \in Node \ {n} : pool'[m] = pool[m] /\ relay'[m] = relay[m]
  BY <1>1, <1>2 DEF Types, Shape
<1>. QED  BY Zenon, <1>3 DEF Puts, R

LEMMA BlinkedEffect ==
  ASSUME Types, NEW n \in Node, NEW t \in Tx,
         blinked' = [blinked EXCEPT ![n] = blinked[n] \cup {t}],
         UNCHANGED <<pool, relay>>
  PROVE  /\ PoolFrame(n)
         /\ pool'[n] = pool[n] /\ relay'[n] = relay[n]
         /\ blinked'[n] = blinked[n] \cup {t}
<1>1. /\ blinked' \in [Node -> SUBSET Tx] /\ blinked'[n] = blinked[n] \cup {t}
      /\ \A m \in Node \ {n} : blinked'[m] = blinked[m]
  BY DEF Types, Shape
<1>. QED  BY Zenon, <1>1 DEF Types, Shape, PoolFrame

\* add_new_blink, the call of add_tx.
Adds(n, j) ==
  /\ j.pc = "add"
  /\ blinked'[n] = blinked[n]
  /\ \/ /\ Turns(n, j, "sign", FALSE)
        /\ pool'[n] = pool[n] /\ relay'[n] = relay[n]
     \/ /\ Turns(n, j, "enter", TRUE)
        /\ j.ok /\ Puts(n, j.blink.tx, TRUE)
     \/ /\ Turns(n, j, "sign", TRUE)
        /\ ~j.ok /\ pool[n] = {} /\ Puts(n, j.blink.tx, FALSE)

LEMMA AddEffect ==
  ASSUME Types, NEW n \in Node, NEW j \in jobs[n], Add(n, j)
  PROVE  Adds(n, j)
<1>1. /\ j \in Job /\ j.pc = "add" /\ blinked' = blinked
      /\ UNCHANGED <<known, pending, votes, incoming, sent, restarts>>
  BY Zenon DEF Add, Types, Shape
<1>2. j.blink \in Blinks /\ j.ok \in BOOLEAN
  BY Zenon, <1>1, JobFields
<1>3. j.blink.tx \in Tx
  BY <1>2, InstanceAssumption
<1>4. "sign" \in Pcs /\ "enter" \in Pcs /\ FALSE \in BOOLEAN /\ TRUE \in BOOLEAN
  BY Zenon DEF Pcs
<1>5. ASSUME NEW pc \in Pcs, NEW ok \in BOOLEAN, PoolFrame(n),
             jobs' = [jobs EXCEPT ![n] =
                        (jobs[n] \ {j}) \cup {[j EXCEPT !.pc = pc, !.ok = ok]}]
      PROVE  Turns(n, j, pc, ok)
  <2>1. [j EXCEPT !.pc = pc, !.ok = ok] = NewJob(pc, j.blink, j.sigs, ok)
    BY Zenon, <1>1, JobStep
  <2>2. jobs' = [jobs EXCEPT ![n] =
                   (jobs[n] \ {j}) \cup {NewJob(pc, j.blink, j.sigs, ok)}]
    BY Zenon, <1>5, <2>1
  <2>3. PoolFrame(n) /\ UNCHANGED <<known, pending, votes, incoming, sent, restarts>>
    BY Zenon, <1>1, <1>5
  <2>. QED  BY Zenon, <2>2, <2>3, TurnStep
<1>6. /\ blinked'[n] = blinked[n] /\ blinked' \in [Node -> SUBSET Tx]
      /\ \A m \in Node \ {n} : blinked'[m] = blinked[m]
  BY Zenon, <1>1 DEF Types, Shape
<1>7. CASE DoubleSpend(n, j.ok)
  <2>1. /\ UNCHANGED <<pool, relay, blinked>>
        /\ jobs' = [jobs EXCEPT ![n] =
                      (jobs[n] \ {j}) \cup {[j EXCEPT !.pc = "sign", !.ok = FALSE]}]
    BY Zenon, <1>1, <1>7 DEF Add
  <2>2. PoolFrame(n) /\ pool'[n] = pool[n] /\ relay'[n] = relay[n]
    BY Zenon, <2>1, PoolUnchanged
  <2>3. Turns(n, j, "sign", FALSE)
    BY Zenon, <1>4, <1>5, <2>1, <2>2
  <2>. QED  BY Zenon, <1>1, <1>6, <2>2, <2>3 DEF Adds
<1>8. CASE ~DoubleSpend(n, j.ok)
  <2>. DEFINE pc == IF j.ok THEN "enter" ELSE "sign"
  <2>1. /\ AddTx(n, j.blink.tx, j.ok)
        /\ jobs' = [jobs EXCEPT ![n] =
                      (jobs[n] \ {j}) \cup {[j EXCEPT !.pc = pc, !.ok = TRUE]}]
    BY Zenon, <1>8 DEF Add
  <2>2. pc \in Pcs /\ (j.ok => pc = "enter") /\ (~j.ok => pc = "sign")
    BY Zenon, <1>4
  <2>. HIDE DEF pc
  <2>3. /\ Puts(n, j.blink.tx, j.ok)
        /\ pool' \in [Node -> SUBSET Tx] /\ relay' \in [Node -> SUBSET Tx]
        /\ \A m \in Node \ {n} : pool'[m] = pool[m] /\ relay'[m] = relay[m]
    BY Zenon, <1>2, <1>3, <2>1, AddTxEffect
  <2>4. PoolFrame(n)  BY Zenon, <1>6, <2>3 DEF PoolFrame
  <2>5. Turns(n, j, pc, TRUE)
    BY Zenon, <1>4, <1>5, <2>1, <2>2, <2>4
  <2>6. pool[n] = {} \/ j.ok  BY Zenon, <1>8 DEF DoubleSpend
  <2>7. CASE j.ok
    <3>1. Turns(n, j, "enter", TRUE)  BY Zenon, <2>2, <2>5, <2>7
    <3>2. Puts(n, j.blink.tx, TRUE)  BY Zenon, <2>3, <2>7 DEF Puts
    <3>. QED  BY Zenon, <1>1, <1>6, <2>7, <3>1, <3>2 DEF Adds
  <2>8. CASE ~j.ok
    <3>1. Turns(n, j, "sign", TRUE)  BY Zenon, <2>2, <2>5, <2>8
    <3>2. Puts(n, j.blink.tx, FALSE)  BY Zenon, <2>3, <2>8 DEF Puts
    <3>. QED  BY Zenon, <1>1, <1>6, <2>6, <2>8, <3>1, <3>2 DEF Adds
  <2>. QED  BY Zenon, <2>7, <2>8
<1>. QED  BY Zenon, <1>7, <1>8

\* add_new_blink enters the approved blink.
Enters(n, j) ==
  /\ j.pc = "enter"
  /\ Turns(n, j, "sign", j.ok)
  /\ pool'[n] = pool[n] /\ relay'[n] = relay[n]
  /\ blinked'[n] = blinked[n] \cup {j.blink.tx}

LEMMA EnterEffect ==
  ASSUME Types, NEW n \in Node, NEW j \in jobs[n], Enter(n, j)
  PROVE  Enters(n, j)
<1>1. /\ j \in Job /\ j.pc = "enter"
      /\ UNCHANGED <<known, pending, votes, incoming, sent, restarts>>
      /\ UNCHANGED <<pool, relay>>
      /\ blinked' = [blinked EXCEPT ![n] = blinked[n] \cup {j.blink.tx}]
      /\ jobs' = [jobs EXCEPT ![n] = (jobs[n] \ {j}) \cup {[j EXCEPT !.pc = "sign"]}]
  BY Zenon DEF Enter, Types, Shape
<1>2. j.blink \in Blinks /\ j.ok \in BOOLEAN /\ "sign" \in Pcs
  BY Zenon, <1>1, JobFields DEF Pcs
<1>3. j.blink.tx \in Tx
  BY <1>2, InstanceAssumption
<1>4. /\ PoolFrame(n) /\ pool'[n] = pool[n] /\ relay'[n] = relay[n]
      /\ blinked'[n] = blinked[n] \cup {j.blink.tx}
  <2>1. PICK t \in Tx : t = j.blink.tx  BY Zenon, <1>3
  <2>2. blinked' = [blinked EXCEPT ![n] = blinked[n] \cup {t}]
    BY Zenon, <1>1, <2>1
  <2>3. /\ PoolFrame(n) /\ pool'[n] = pool[n] /\ relay'[n] = relay[n]
        /\ blinked'[n] = blinked[n] \cup {t}
    BY Zenon, <1>1, <2>2, BlinkedEffect
  <2>. QED  BY Zenon, <2>1, <2>3
<1>5. [j EXCEPT !.pc = "sign"] = NewJob("sign", j.blink, j.sigs, j.ok)
  BY Zenon, <1>1, <1>2, JobStep
<1>6. jobs' = [jobs EXCEPT ![n] =
                 (jobs[n] \ {j}) \cup {NewJob("sign", j.blink, j.sigs, j.ok)}]
  BY Zenon, <1>1, <1>5
<1>7. Turns(n, j, "sign", j.ok)
  <2>1. PoolFrame(n) /\ UNCHANGED <<known, pending, votes, incoming, sent, restarts>>
    BY Zenon, <1>1, <1>4
  <2>. QED  BY Zenon, <1>2, <1>6, <2>1, TurnStep
<1>. QED  BY Zenon, <1>1, <1>4, <1>7 DEF Enters

\* add_existing_blink
Records(n, j) ==
  /\ j.pc = "record"
  /\ Turns(n, j, "relay", j.ok)
  /\ pool'[n] = pool[n] /\ relay'[n] = relay[n]
  /\ blinked'[n] = blinked[n] \cup {j.blink.tx}

LEMMA RecordEffect ==
  ASSUME Types, NEW n \in Node, NEW j \in jobs[n], Record(n, j)
  PROVE  Records(n, j)
<1>1. /\ j \in Job /\ j.pc = "record"
      /\ UNCHANGED <<known, pending, votes, incoming, sent, restarts>>
      /\ UNCHANGED <<pool, relay>>
      /\ blinked' = [blinked EXCEPT ![n] = blinked[n] \cup {j.blink.tx}]
      /\ jobs' = [jobs EXCEPT ![n] = (jobs[n] \ {j}) \cup {[j EXCEPT !.pc = "relay"]}]
  BY Zenon DEF Record, Types, Shape
<1>2. j.blink \in Blinks /\ j.ok \in BOOLEAN /\ "relay" \in Pcs
  BY Zenon, <1>1, JobFields DEF Pcs
<1>3. j.blink.tx \in Tx
  BY <1>2, InstanceAssumption
<1>4. /\ PoolFrame(n) /\ pool'[n] = pool[n] /\ relay'[n] = relay[n]
      /\ blinked'[n] = blinked[n] \cup {j.blink.tx}
  <2>1. PICK t \in Tx : t = j.blink.tx  BY Zenon, <1>3
  <2>2. blinked' = [blinked EXCEPT ![n] = blinked[n] \cup {t}]
    BY Zenon, <1>1, <2>1
  <2>3. /\ PoolFrame(n) /\ pool'[n] = pool[n] /\ relay'[n] = relay[n]
        /\ blinked'[n] = blinked[n] \cup {t}
    BY Zenon, <1>1, <2>2, BlinkedEffect
  <2>. QED  BY Zenon, <2>1, <2>3
<1>6. [j EXCEPT !.pc = "relay"] = NewJob("relay", j.blink, j.sigs, j.ok)
  BY Zenon, <1>1, <1>2, JobStep
<1>7. jobs' = [jobs EXCEPT ![n] =
                 (jobs[n] \ {j}) \cup {NewJob("relay", j.blink, j.sigs, j.ok)}]
  BY Zenon, <1>1, <1>6
<1>8. Turns(n, j, "relay", j.ok)
  <2>1. PoolFrame(n) /\ UNCHANGED <<known, pending, votes, incoming, sent, restarts>>
    BY Zenon, <1>1, <1>4
  <2>. QED  BY Zenon, <1>2, <1>7, <2>1, TurnStep
<1>. QED  BY Zenon, <1>1, <1>4, <1>8 DEF Records

\* set_relayable
Relays(n, j) ==
  /\ Shape' /\ Frame(n) /\ sent' = sent
  /\ j.pc = "relay" /\ \A k \in jobs[n] : k.pc # "add"
  /\ relay'[n] = relay[n] \cup (pool[n] \cap {j.blink.tx})
  /\ jobs'[n] = jobs[n] \ {j}
  /\ known'[n] = known[n] /\ pending'[n] = pending[n] /\ votes'[n] = votes[n]
  /\ pool'[n] = pool[n] /\ blinked'[n] = blinked[n] /\ restarts'[n] = restarts[n]
  /\ incoming'[n] = incoming[n]

LEMMA RelayEffect ==
  ASSUME Types, NEW n \in Node, NEW j \in jobs[n], RelayApproved(n, j)
  PROVE  Relays(n, j)
<1>1. /\ j.pc = "relay" /\ \A k \in jobs[n] : k.pc # "add"
      /\ relay' = [relay EXCEPT ![n] = relay[n] \cup (pool[n] \cap {j.blink.tx})]
      /\ jobs' = [jobs EXCEPT ![n] = jobs[n] \ {j}]
      /\ UNCHANGED <<known, pending, votes, incoming, pool, blinked, sent, restarts>>
  BY Zenon DEF RelayApproved, Ready, SetRelayable, PoolLocked
<1>2. /\ jobs' \in [Node -> SUBSET Job] /\ jobs'[n] = jobs[n] \ {j}
      /\ \A m \in Node \ {n} : jobs'[m] = jobs[m]
  BY <1>1 DEF Types, Shape
<1>3. /\ relay' \in [Node -> SUBSET Tx]
      /\ relay'[n] = relay[n] \cup (pool[n] \cap {j.blink.tx})
      /\ \A m \in Node \ {n} : relay'[m] = relay[m]
  BY <1>1 DEF Types, Shape
<1>4. Shape'  BY Zenon, <1>1, <1>2, <1>3 DEF Types, Shape
<1>5. Frame(n)  BY Zenon, <1>1, <1>2, <1>3 DEF Frame
<1>. QED  BY Zenon, <1>1, <1>2, <1>3, <1>4, <1>5 DEF Relays

\* A p2p thread goes on with a transaction from the network: what it takes
\* for an approved blink is one.
Receives(n) ==
  /\ Shape' /\ Frame(n) /\ sent' = sent
  /\ \A k \in incoming'[n] : k.approved =>
        k.tx \in ApprovedTx \/ \E m \in incoming[n] : m.approved /\ m.tx = k.tx
  /\ \/ pool'[n] = pool[n] /\ relay'[n] = relay[n] /\ blinked'[n] = blinked[n]
     \/ \E m \in incoming[n] : /\ Puts(n, m.tx, TRUE) /\ blinked'[n] = blinked[n]
                               /\ pool[n] = {} \/ m.approved
     \/ \E m \in incoming[n] : /\ pool'[n] = pool[n] /\ relay'[n] = relay[n]
                               /\ blinked'[n] = blinked[n] \cup {m.tx}
                               /\ m.approved
  /\ jobs'[n] = jobs[n] /\ known'[n] = known[n] /\ pending'[n] = pending[n]
  /\ votes'[n] = votes[n] /\ restarts'[n] = restarts[n]

LEMMA IncomingFields ==
  ASSUME NEW m \in Incoming
  PROVE  m.tx \in Tx /\ m.approved \in BOOLEAN
BY DEF Incoming

(* The steps of a p2p thread change the pc.                                *)
LEMMA IncomingStep ==
  ASSUME NEW m \in Incoming, NEW pc \in {"parse", "add", "blinks"}
  PROVE  /\ [m EXCEPT !.pc = pc] \in Incoming
         /\ [m EXCEPT !.pc = pc].tx = m.tx
         /\ [m EXCEPT !.pc = pc].approved = m.approved
BY DEF Incoming

LEMMA ReceiveStep ==
  ASSUME Types, NEW n \in Node, NEW X \in SUBSET Incoming,
         incoming' = [incoming EXCEPT ![n] = X],
         UNCHANGED <<known, pending, votes, jobs, sent, restarts>>, PoolFrame(n)
  PROVE  /\ Shape' /\ Frame(n) /\ sent' = sent /\ incoming'[n] = X
         /\ jobs'[n] = jobs[n] /\ known'[n] = known[n] /\ pending'[n] = pending[n]
         /\ votes'[n] = votes[n] /\ restarts'[n] = restarts[n]
<1>1. incoming \in [Node -> SUBSET Incoming]  BY Zenon DEF Types, Shape
<1>2. /\ incoming' \in [Node -> SUBSET Incoming] /\ incoming'[n] = X
      /\ \A m \in Node \ {n} : incoming'[m] = incoming[m]
  BY Zenon, <1>1, AssignAt
<1>3. Shape'  BY Zenon, <1>2 DEF Types, Shape, PoolFrame
<1>4. Frame(n)  BY Zenon, <1>2 DEF Frame, PoolFrame
<1>. QED  BY Zenon, <1>2, <1>3, <1>4

LEMMA NotifyEffect ==
  ASSUME Types, NEW n \in Node, NEW p \in P2pThread, NEW t \in Tx,
         NEW signed \in BOOLEAN, NotifyNewTransactions(n, p, t, signed)
  PROVE  Receives(n)
<1>. DEFINE k == [thread |-> p, pc |-> "parse", tx |-> t,
                  approved |-> signed /\ t \notin blinked[n]]
<1>1. /\ (t \in Spends /\ ~signed) \/ (\E b \in Blinks : b.tx = t /\ Approved(sent, b))
      /\ incoming' = [incoming EXCEPT ![n] = incoming[n] \cup {k}]
      /\ UNCHANGED <<known, pending, votes, jobs, sent, restarts>>
      /\ UNCHANGED <<pool, relay, blinked>>
  BY Zenon DEF NotifyNewTransactions
<1>2. k \in Incoming /\ k.tx = t /\ (k.approved => signed)
  BY DEF Incoming
<1>. HIDE DEF k
<1>3. k.approved => k.tx \in ApprovedTx
  BY Zenon, <1>1, <1>2 DEF ApprovedTx
<1>4. incoming[n] \cup {k} \in SUBSET Incoming
  BY Zenon, <1>2 DEF Types, Shape
<1>5. /\ PoolFrame(n)
      /\ pool'[n] = pool[n] /\ relay'[n] = relay[n] /\ blinked'[n] = blinked[n]
  BY Zenon, <1>1, PoolUnchanged
<1>6. /\ Shape' /\ Frame(n) /\ sent' = sent /\ incoming'[n] = incoming[n] \cup {k}
      /\ jobs'[n] = jobs[n] /\ known'[n] = known[n] /\ pending'[n] = pending[n]
      /\ votes'[n] = votes[n] /\ restarts'[n] = restarts[n]
  BY Zenon, <1>1, <1>4, <1>5, ReceiveStep
<1>. QED  BY Zenon, <1>3, <1>5, <1>6 DEF Receives

LEMMA ParseEffect ==
  ASSUME Types, NEW n \in Node, NEW m \in incoming[n], ParseIncomingTxs(n, m)
  PROVE  Receives(n)
<1>. DEFINE pc == IF m.tx \in pool[n] THEN "blinks" ELSE "add"
            k == [m EXCEPT !.pc = pc]
<1>1. /\ incoming' = [incoming EXCEPT ![n] = (incoming[n] \ {m}) \cup {k}]
      /\ UNCHANGED <<known, pending, votes, jobs, sent, restarts>>
      /\ UNCHANGED <<pool, relay, blinked>>
  BY Zenon DEF ParseIncomingTxs
<1>2. pc \in {"parse", "add", "blinks"} /\ m \in Incoming
  BY Zenon DEF Types, Shape
<1>. HIDE DEF pc
<1>3. k \in Incoming /\ k.tx = m.tx /\ k.approved = m.approved
  BY Zenon, <1>2, IncomingStep
<1>. HIDE DEF k
<1>4. (incoming[n] \ {m}) \cup {k} \in SUBSET Incoming
  BY Zenon, <1>3 DEF Types, Shape
<1>5. /\ PoolFrame(n)
      /\ pool'[n] = pool[n] /\ relay'[n] = relay[n] /\ blinked'[n] = blinked[n]
  BY Zenon, <1>1, PoolUnchanged
<1>6. /\ Shape' /\ Frame(n) /\ sent' = sent
      /\ incoming'[n] = (incoming[n] \ {m}) \cup {k}
      /\ jobs'[n] = jobs[n] /\ known'[n] = known[n] /\ pending'[n] = pending[n]
      /\ votes'[n] = votes[n] /\ restarts'[n] = restarts[n]
  BY Zenon, <1>1, <1>4, <1>5, ReceiveStep
<1>. QED  BY Zenon, <1>3, <1>5, <1>6 DEF Receives

LEMMA HandleParsedEffect ==
  ASSUME Types, NEW n \in Node, NEW m \in incoming[n], HandleParsedTxs(n, m)
  PROVE  Receives(n)
<1>. DEFINE k == [m EXCEPT !.pc = "blinks"]
<1>1. /\ incoming' = [incoming EXCEPT ![n] = (incoming[n] \ {m}) \cup {k}]
      /\ UNCHANGED <<known, pending, votes, jobs, sent, restarts>>
      /\ blinked' = blinked
      /\ IF DoubleSpend(n, m.approved) THEN UNCHANGED <<pool, relay>>
         ELSE AddTx(n, m.tx, TRUE)
  BY Zenon DEF HandleParsedTxs
<1>2. "blinks" \in {"parse", "add", "blinks"} /\ m \in Incoming
  BY Zenon DEF Types, Shape
<1>3. k \in Incoming /\ k.tx = m.tx /\ k.approved = m.approved
  BY Zenon, <1>2, IncomingStep
<1>. HIDE DEF k
<1>4. (incoming[n] \ {m}) \cup {k} \in SUBSET Incoming
  BY Zenon, <1>3 DEF Types, Shape
<1>5. /\ PoolFrame(n) /\ blinked'[n] = blinked[n]
      /\ \/ pool'[n] = pool[n] /\ relay'[n] = relay[n]
         \/ Puts(n, m.tx, TRUE) /\ (pool[n] = {} \/ m.approved)
  <2>1. CASE DoubleSpend(n, m.approved)
    <3>1. UNCHANGED <<pool, relay, blinked>>  BY Zenon, <1>1, <2>1
    <3>. QED  BY Zenon, <3>1, PoolUnchanged
  <2>2. CASE ~DoubleSpend(n, m.approved)
    <3>1. AddTx(n, m.tx, TRUE) /\ TRUE \in BOOLEAN /\ m.tx \in Tx
      BY Zenon, <1>1, <1>2, <2>2, IncomingFields
    <3>2. /\ Puts(n, m.tx, TRUE)
          /\ pool' \in [Node -> SUBSET Tx] /\ relay' \in [Node -> SUBSET Tx]
          /\ \A i \in Node \ {n} : pool'[i] = pool[i] /\ relay'[i] = relay[i]
      BY Zenon, <3>1, AddTxEffect
    <3>3. PoolFrame(n)  BY Zenon, <1>1, <3>2 DEF Types, Shape, PoolFrame
    <3>4. pool[n] = {} \/ m.approved  BY Zenon, <2>2 DEF DoubleSpend
    <3>. QED  BY Zenon, <1>1, <3>2, <3>3, <3>4
  <2>. QED  BY Zenon, <2>1, <2>2
<1>6. /\ Shape' /\ Frame(n) /\ sent' = sent
      /\ incoming'[n] = (incoming[n] \ {m}) \cup {k}
      /\ jobs'[n] = jobs[n] /\ known'[n] = known[n] /\ pending'[n] = pending[n]
      /\ votes'[n] = votes[n] /\ restarts'[n] = restarts[n]
  BY Zenon, <1>1, <1>4, <1>5, ReceiveStep
<1>. QED  BY Zenon, <1>3, <1>5, <1>6 DEF Receives

LEMMA AddBlinksEffect ==
  ASSUME Types, NEW n \in Node, NEW m \in incoming[n], AddBlinks(n, m)
  PROVE  Receives(n)
<1>1. /\ incoming' = [incoming EXCEPT ![n] = incoming[n] \ {m}]
      /\ UNCHANGED <<known, pending, votes, jobs, sent, restarts>>
      /\ UNCHANGED <<pool, relay>>
      /\ m.approved => blinked' = [blinked EXCEPT ![n] = blinked[n] \cup {m.tx}]
      /\ ~m.approved => blinked' = blinked
  BY Zenon DEF AddBlinks
<1>2. m.tx \in Tx /\ m.approved \in BOOLEAN
  BY Zenon, IncomingFields DEF Types, Shape
<1>3. incoming[n] \ {m} \in SUBSET Incoming
  BY Zenon DEF Types, Shape
<1>4. /\ PoolFrame(n) /\ pool'[n] = pool[n] /\ relay'[n] = relay[n]
      /\ blinked'[n] = blinked[n] \/ (m.approved /\ blinked'[n] = blinked[n] \cup {m.tx})
  <2>1. CASE m.approved  BY Zenon, <1>1, <1>2, <2>1, BlinkedEffect
  <2>2. CASE ~m.approved  BY Zenon, <1>1, <2>2, PoolUnchanged
  <2>. QED  BY Zenon, <2>1, <2>2
<1>5. /\ Shape' /\ Frame(n) /\ sent' = sent /\ incoming'[n] = incoming[n] \ {m}
      /\ jobs'[n] = jobs[n] /\ known'[n] = known[n] /\ pending'[n] = pending[n]
      /\ votes'[n] = votes[n] /\ restarts'[n] = restarts[n]
  BY Zenon, <1>1, <1>3, <1>4, ReceiveStep
<1>. QED  BY Zenon, <1>4, <1>5 DEF Receives

\* What a restart loses and keeps.
Resets(n) ==
  /\ Shape' /\ Frame(n) /\ sent' = sent
  /\ restarts[n] < MaxRestarts[n] /\ restarts'[n] = restarts[n] + 1
  /\ known'[n] = {} /\ pending'[n] = {} /\ votes'[n] = {} /\ jobs'[n] = {}
  /\ incoming'[n] = {} /\ blinked'[n] = {}
  /\ pool'[n] = pool[n] /\ relay'[n] = relay[n]

LEMMA RestartEffect ==
  ASSUME Types, NEW n \in Node, Restart(n)
  PROVE  Resets(n)
<1>1. /\ restarts[n] < MaxRestarts[n]
      /\ restarts' = [restarts EXCEPT ![n] = restarts[n] + 1]
      /\ known' = [known EXCEPT ![n] = {}] /\ pending' = [pending EXCEPT ![n] = {}]
      /\ votes' = [votes EXCEPT ![n] = {}] /\ jobs' = [jobs EXCEPT ![n] = {}]
      /\ incoming' = [incoming EXCEPT ![n] = {}]
      /\ blinked' = [blinked EXCEPT ![n] = {}]
      /\ UNCHANGED <<pool, relay, sent>>
  BY Zenon DEF Restart
<1>2. Shape'  BY <1>1 DEF Types, Shape
<1>3. Frame(n)  BY <1>1 DEF Frame, Types, Shape
<1>4. /\ restarts'[n] = restarts[n] + 1
      /\ known'[n] = {} /\ pending'[n] = {} /\ votes'[n] = {} /\ jobs'[n] = {}
      /\ incoming'[n] = {} /\ blinked'[n] = {}
  BY <1>1 DEF Types, Shape
<1>. QED  BY Zenon, <1>1, <1>2, <1>3, <1>4 DEF Resets

\* Every step is one of these.
Steps(n) ==
  \/ \E b \in Blinks : Stores(n, b)
  \/ \E b, N, D, R : Counts(n, b, N, D, R)
  \/ \E s \in sent : Waits(n, s)
  \/ \E j \in jobs[n] :
        \/ Verifies(n, j) \/ Adds(n, j) \/ Enters(n, j)
        \/ SetsAside(n, j) \/ Records(n, j) \/ Relays(n, j)
  \/ Receives(n)
  \/ Resets(n)

LEMMA NextSteps ==
  ASSUME CountingLaws, Types, SigInv, Next
  PROVE  \E n \in Node : Steps(n)
<1>1. ASSUME NEW n \in Node, Works(n) PROVE Steps(n)
  <2>1. ASSUME NEW b \in Blinks, HandleBlink(n, b) PROVE Steps(n)
    BY Zenon, <2>1, BlinkEffect DEF Steps
  <2>2. ASSUME NEW s \in sent, HandleBlinkSignature(n, s) PROVE Steps(n)
    BY Zenon, <2>2, SignatureEffect DEF Steps
  <2>3. ASSUME NEW j \in jobs[n], Verify(n, j) PROVE Steps(n)
    BY Zenon, <2>3, VerifyEffect DEF Steps
  <2>4. ASSUME NEW j \in jobs[n], Add(n, j) PROVE Steps(n)
    BY Zenon, <2>4, AddEffect DEF Steps
  <2>5. ASSUME NEW j \in jobs[n], Enter(n, j) PROVE Steps(n)
    BY Zenon, <2>5, EnterEffect DEF Steps
  <2>6. ASSUME NEW j \in jobs[n], Sign(n, j) PROVE Steps(n)
    BY Zenon, <2>6, SignEffect DEF Steps
  <2>7. ASSUME NEW j \in jobs[n], Delay(n, j) PROVE Steps(n)
    BY Zenon, <2>7, DelayEffect DEF Steps
  <2>8. ASSUME NEW j \in jobs[n], Record(n, j) PROVE Steps(n)
    BY Zenon, <2>8, RecordEffect DEF Steps
  <2>9. ASSUME NEW j \in jobs[n], RelayApproved(n, j) PROVE Steps(n)
    BY Zenon, <2>9, RelayEffect DEF Steps
  <2>. QED
    BY Zenon, <1>1, <2>1, <2>2, <2>3, <2>4, <2>5, <2>6, <2>7, <2>8, <2>9 DEF Works
<1>2. ASSUME NEW n \in Node, Hears(n) PROVE Steps(n)
  BY Zenon, <1>2, NotifyEffect, ParseEffect, HandleParsedEffect, AddBlinksEffect
     DEF Hears, Steps
<1>3. ASSUME NEW n \in Node, Restart(n) PROVE Steps(n)
  BY Zenon, <1>3, RestartEffect DEF Steps
<1>. QED  BY Zenon, <1>1, <1>2, <1>3 DEF Next

LEMMA StepFrame ==
  ASSUME NEW n \in Node, Steps(n)
  PROVE  Shape' /\ Frame(n) /\ sent \subseteq sent'
BY Zenon DEF Steps, Stores, Counts, Waits, Verifies, Adds, Turns, SetsAside, Records,
             Relays, Enters, Receives, Resets

-----------------------------------------------------------------------------
(* No signature is forgotten.                                              *)

LEMMA SigInvStep ==
  ASSUME Types, SigInv, NEW n \in Node, Steps(n)
  PROVE  SigInv'
<1>1. Frame(n) /\ sent \subseteq sent'  BY Zenon, StepFrame
<1>2. \A s \in sent' : Acceptable(s.blink)
  <2>1. ASSUME NEW b, NEW N, NEW D, NEW R, Counts(n, b, N, D, R)
        PROVE  \A s \in sent' : Acceptable(s.blink)
    <3>1. sent' = sent \cup N /\ b \in known[n] /\ \A s \in N : s.blink = b
      BY Zenon, <2>1 DEF Counts
    <3>2. Acceptable(b) /\ \A s \in sent : Acceptable(s.blink)
      BY Zenon, <3>1 DEF SigInv, Signatures
    <3>. QED  BY Zenon, <3>1, <3>2
  <2>2. (\E b, N, D, R : Counts(n, b, N, D, R)) \/ sent' = sent
    BY Zenon DEF Steps, Stores, Waits, Verifies, Adds, Turns, SetsAside, Records,
                 Relays, Enters, Receives, Resets
  <2>. QED  BY Zenon, <2>1, <2>2 DEF SigInv
<1>3. ASSUME NEW m \in Node \ {n} PROVE Signatures(m)'
  <2>1. /\ votes'[m] = votes[m] /\ pending'[m] = pending[m] /\ known'[m] = known[m]
        /\ jobs'[m] = jobs[m]
    BY Zenon, <1>1 DEF Frame
  <2>2. Signatures(m)  BY Zenon DEF SigInv
  <2>. QED  BY Zenon, <1>1, <2>1, <2>2 DEF Signatures, Acceptable, InWindow, HasQuorums
<1>4. Signatures(n)'
  <2>0. Signatures(n) /\ \A j \in jobs[n] : j \in Job
    BY Zenon DEF SigInv, Types, Shape
  <2>. DEFINE Kept == /\ known'[n] = known[n] /\ votes'[n] = votes[n]
                      /\ pending'[n] = pending[n]
              JobOK(k) == /\ k.pc # "delay" => k.blink \in known'[n]
                          /\ k.sigs \subseteq sent'
                          /\ \A s \in k.sigs : s.blink = k.blink
              JobsOK == \A k \in jobs'[n] : JobOK(k)
  <2>1. ASSUME Kept, JobsOK PROVE Signatures(n)'
    BY Zenon, <1>1, <2>0, <2>1 DEF Signatures, Acceptable, InWindow, HasQuorums
  <2>2. ASSUME NEW k \in jobs[n], known[n] \subseteq known'[n] PROVE JobOK(k)
    BY Zenon, <1>1, <2>0, <2>2 DEF Signatures
  <2>. HIDE DEF JobOK
  <2>3. ASSUME NEW j \in jobs[n], j.pc # "delay", NEW pc \in Pcs, NEW ok \in BOOLEAN,
               Turns(n, j, pc, ok)
        PROVE  Signatures(n)'
    <3>. DEFINE k == NewJob(pc, j.blink, j.sigs, ok)
    <3>1. Kept /\ jobs'[n] = (jobs[n] \ {j}) \cup {k}
      BY Zenon, <2>3 DEF Turns
    <3>2. j.blink \in Blinks /\ j.sigs \in SUBSET Sig
      BY Zenon, <2>0, JobFields
    <3>3. k.pc = pc /\ k.blink = j.blink /\ k.sigs = j.sigs
      BY Zenon DEF NewJob
    <3>. HIDE DEF k
    <3>4. JobOK(k)
      BY Zenon, <1>1, <2>0, <2>3, <3>1, <3>3 DEF Signatures, JobOK
    <3>. QED  BY Zenon, <2>1, <2>2, <3>1, <3>4
  <2>4. ASSUME NEW b \in Blinks, Stores(n, b) PROVE Signatures(n)'
    <3>. DEFINE k == NewJob("verify", b, Mine(n, b), FALSE)
    <3>1. /\ jobs'[n] = jobs[n] \cup {k}
          /\ known'[n] = known[n] \cup {b} /\ pending'[n] = pending[n] \ Mine(n, b)
          /\ votes'[n] = votes[n] /\ Acceptable(b)
      BY Zenon, <2>4 DEF Stores
    <3>2. Mine(n, b) \in SUBSET Sig /\ "verify" \in Pcs /\ FALSE \in BOOLEAN
      BY Zenon DEF Mine, Pcs, Types, Shape
    <3>3. k.pc = "verify" /\ k.blink = b /\ k.sigs = Mine(n, b)
      BY Zenon DEF NewJob
    <3>. HIDE DEF k
    <3>4. JobOK(k)
      BY Zenon, <1>1, <2>0, <3>1, <3>3 DEF Signatures, Mine, JobOK
    <3>5. \A i \in jobs'[n] : JobOK(i)
      BY Zenon, <2>2, <3>1, <3>4
    <3>. QED  BY Zenon, <1>1, <2>0, <3>1, <3>5
                 DEF JobOK, Signatures, Mine, Acceptable, InWindow, HasQuorums
  <2>5. ASSUME NEW s \in sent, Waits(n, s) PROVE Signatures(n)'
    <3>. DEFINE k == NewJob("delay", s.blink, {s}, FALSE)
    <3>1. Kept /\ jobs'[n] = jobs[n] \cup {k}  BY Zenon, <2>5 DEF Waits
    <3>2. {s} \in SUBSET Sig /\ s.blink \in Blinks /\ "delay" \in Pcs /\ FALSE \in BOOLEAN
      BY Zenon, SigFields DEF Pcs, Types, Shape
    <3>3. k.pc = "delay" /\ k.blink = s.blink /\ k.sigs = {s}
      BY Zenon DEF NewJob
    <3>. HIDE DEF k
    <3>4. JobOK(k)  BY Zenon, <1>1, <3>3 DEF JobOK
    <3>. QED  BY Zenon, <2>1, <2>2, <3>1, <3>4
  <2>6. ASSUME NEW j \in jobs[n], Verifies(n, j) PROVE Signatures(n)'
    <3>1. j.pc # "delay" /\ "sign" \in Pcs /\ "add" \in Pcs /\ FALSE \in BOOLEAN
      BY <2>6 DEF Verifies, Pcs
    <3>. QED  BY Zenon, <2>3, <2>6, <3>1 DEF Verifies
  <2>7. ASSUME NEW j \in jobs[n], Adds(n, j) PROVE Signatures(n)'
    <3>1. /\ j.pc # "delay" /\ "sign" \in Pcs /\ "enter" \in Pcs
          /\ FALSE \in BOOLEAN /\ TRUE \in BOOLEAN
      BY <2>7 DEF Adds, Pcs
    <3>. QED  BY Zenon, <2>3, <2>7, <3>1 DEF Adds
  <2>8. ASSUME NEW j \in jobs[n], Records(n, j) PROVE Signatures(n)'
    <3>1. j.pc # "delay" /\ "relay" \in Pcs
      BY <2>8 DEF Records, Pcs
    <3>2. j.ok \in BOOLEAN  BY Zenon, <2>0, JobFields
    <3>. QED  BY Zenon, <2>3, <2>8, <3>1, <3>2 DEF Records
  <2>9. ASSUME NEW j \in jobs[n], SetsAside(n, j) PROVE Signatures(n)'
    <3>1. JobsOK  BY Zenon, <2>2, <2>9 DEF SetsAside
    <3>. QED  BY Zenon, <1>1, <2>0, <2>9, <3>1
                 DEF SetsAside, JobOK, Signatures, Acceptable, InWindow, HasQuorums
  <2>10. ASSUME NEW j \in jobs[n], Relays(n, j) PROVE Signatures(n)'
    BY Zenon, <2>1, <2>2, <2>10 DEF Relays
  <2>11. ASSUME Receives(n) PROVE Signatures(n)'
    BY Zenon, <2>1, <2>2, <2>11 DEF Receives
  <2>12. ASSUME Resets(n) PROVE Signatures(n)'
    BY Zenon, <2>12 DEF Resets, Signatures
  <2>13. ASSUME NEW b, NEW N, NEW D, NEW R, Counts(n, b, N, D, R)
         PROVE  Signatures(n)'
    <3>1. /\ known'[n] = known[n] /\ pending'[n] = pending[n]
          /\ votes'[n] = votes[n] \cup N /\ sent' = sent \cup N
          /\ jobs'[n] = (jobs[n] \ D) \cup R /\ R \subseteq {RecordJob(b)}
          /\ b \in known[n] /\ \A s \in N : s.blink = b
      BY Zenon, <2>13 DEF Counts
    <3>2. b \in Blinks /\ {} \in SUBSET Sig /\ "record" \in Pcs /\ TRUE \in BOOLEAN
      BY Zenon, <3>1 DEF Types, Shape, Pcs
    <3>3. /\ RecordJob(b).pc = "record" /\ RecordJob(b).blink = b
          /\ RecordJob(b).sigs = {}
      BY Zenon DEF RecordJob, NewJob
    <3>4. JobOK(RecordJob(b))  BY Zenon, <3>1, <3>3 DEF JobOK
    <3>5. JobsOK  BY Zenon, <2>2, <3>1, <3>4
    <3>. QED  BY Zenon, <1>1, <2>0, <3>1, <3>5
                 DEF JobOK, Signatures, Acceptable, InWindow, HasQuorums
  <2>14. ASSUME NEW j \in jobs[n], Enters(n, j) PROVE Signatures(n)'
    <3>1. j.pc # "delay" /\ "sign" \in Pcs
      BY <2>14 DEF Enters, Pcs
    <3>2. j.ok \in BOOLEAN  BY Zenon, <2>0, JobFields
    <3>. QED  BY Zenon, <2>3, <2>14, <3>1, <3>2 DEF Enters
  <2>. QED
    BY Zenon, <2>4, <2>5, <2>6, <2>7, <2>8, <2>9, <2>10, <2>11, <2>12, <2>13, <2>14
       DEF Steps
<1>5. \A m \in Node : Signatures(m)'
  BY Zenon, <1>3, <1>4
<1>. QED  BY Zenon, <1>2, <1>5 DEF SigInv, Acceptable, InWindow, HasQuorums

-----------------------------------------------------------------------------
(* No two conflicting blinks are approved.                                 *)
(*                                                                         *)
(* A member approves a blink because its pool is empty, which happens once *)
(* even if it restarts, or because the blink is approved already.  f tells *)
(* the blinks that the members approved first.                             *)

Firsts(f) == {s \in sent : s.ok /\ s.blink \in f[s.member]}

Bound(f, b, m) == b \in f[m] \/ Approved(Firsts(f), b)

JobBound(f, j, n) ==
  /\ j.pc = "sign" /\ j.ok => Bound(f, j.blink, n)
  /\ j.pc \in {"add", "enter"} /\ j.ok => Approved(Firsts(f), j.blink)

First(f) ==
  /\ \A m \in Member : \A b, c \in f[m] : b = c
  /\ \A n \in Node : f[n] # {} => pool[n] # {}
  /\ \A s \in sent : s.ok => Bound(f, s.blink, s.member)
  /\ \A n \in Node : \A j \in jobs[n] : JobBound(f, j, n)

FirstInv == \E f \in [Member -> SUBSET Blinks] : First(f)

LEMMA ApprovedFirst ==
  ASSUME CountingLaws, Types, NEW f, First(f), NEW b \in Blinks, HasQuorums(b),
         Approved(sent, b)
  PROVE  Approved(Firsts(f), b)
<1>. SUFFICES ASSUME ~Approved(Firsts(f), b) PROVE FALSE  OBVIOUS
<1>1. ASSUME NEW m, SigOf(b, m, TRUE) \in sent PROVE SigOf(b, m, TRUE) \in Firsts(f)
  <2>. DEFINE s == SigOf(b, m, TRUE)
  <2>1. s.blink = b /\ s.member = m /\ s.ok = TRUE  BY Zenon DEF SigOf
  <2>2. Bound(f, b, m)  BY Zenon, <1>1, <2>1 DEF First
  <2>. QED  BY Zenon, <1>1, <2>1, <2>2 DEF Bound, Firsts
<1>. QED  BY Zenon, <1>1, ApprovedBy

LEMMA FirstsGrow ==
  ASSUME CountingLaws, Types, sent \subseteq sent', NEW f, NEW g,
         \A m \in Member : f[m] \subseteq g[m], NEW b, HasQuorums(b)
  PROVE  /\ Approved(Firsts(f), b) => Approved(Firsts(g)', b)
         /\ \A m \in Member : Bound(f, b, m) => Bound(g, b, m)'
<1>1. Firsts(f) \subseteq Firsts(g)'
  BY Zenon, SigFields DEF Firsts, Types, Shape
<1>2. Approved(Firsts(f), b) => Approved(Firsts(g)', b)
  BY Zenon, <1>1, Monotone
<1>. QED  BY Zenon, <1>2 DEF Bound, Approved, SigCount, Validators

(* When the first approvals grow, the new signatures and jobs decide.      *)
LEMMA FirstKept ==
  ASSUME CountingLaws, Types, SigInv, sent \subseteq sent', NEW f, NEW g, First(f),
         \A m \in Member : f[m] \subseteq g[m] /\ \A b, c \in g[m] : b = c,
         \A m \in Node : g[m] # {} => pool'[m] # {},
         \A s \in sent' \ sent : s.ok => Bound(g, s.blink, s.member)',
         \A m \in Node : \A k \in jobs'[m] \ jobs[m] : JobBound(g, k, m)'
  PROVE  First(g)'
<1>1. ASSUME NEW s \in sent, s.ok PROVE Bound(g, s.blink, s.member)'
  <2>1. s.member \in Member  BY Zenon, SigFields DEF Types, Shape
  <2>2. HasQuorums(s.blink)  BY Zenon DEF SigInv, Acceptable
  <2>3. Bound(f, s.blink, s.member)  BY Zenon, <1>1 DEF First
  <2>. QED  BY Zenon, <2>1, <2>2, <2>3, FirstsGrow
<1>2. ASSUME NEW m \in Node, NEW k \in jobs[m] PROVE JobBound(g, k, m)'
  <2>1. JobBound(f, k, m) /\ m \in Member  BY Zenon DEF First, Member
  <2>2. k.pc \in {"sign", "add", "enter"} => HasQuorums(k.blink)
    BY DEF SigInv, Signatures, Acceptable
  <2>3. k.pc \in {"sign", "add", "enter"} /\ Bound(f, k.blink, m) => Bound(g, k.blink, m)'
    BY Zenon, <2>1, <2>2, FirstsGrow
  <2>4. k.pc \in {"sign", "add", "enter"} /\ Approved(Firsts(f), k.blink)
          => Approved(Firsts(g)', k.blink)
    BY Zenon, <2>1, <2>2, FirstsGrow
  <2>. QED  BY Zenon, <2>1, <2>3, <2>4 DEF JobBound, Approved, SigCount, Validators
<1>3. \A s \in sent' : s.ok => Bound(g, s.blink, s.member)'
  BY Zenon, <1>1
<1>4. \A m \in Node : \A k \in jobs'[m] : JobBound(g, k, m)'
  BY Zenon, <1>2
<1>. QED  BY Zenon, <1>3, <1>4 DEF First

LEMMA FirstInvStep ==
  ASSUME CountingLaws, Types, SigInv, FirstInv, NEW n \in Node, Steps(n)
  PROVE  FirstInv'
<1>1. PICK f \in [Member -> SUBSET Blinks] : First(f)
  BY Zenon DEF FirstInv
<1>2. Frame(n) /\ sent \subseteq sent' /\ n \in Member
  BY Zenon, StepFrame DEF Member
<1>3. \A m \in Member : f[m] \subseteq f[m] /\ \A b, c \in f[m] : b = c
  BY Zenon, <1>1 DEF First
<1>. DEFINE Good(k) == JobBound(f, k, n)'
<1>4. ASSUME pool'[n] = {} => pool[n] = {},
             \A s \in sent' \ sent : s.ok => Bound(f, s.blink, s.member)',
             \A k \in jobs'[n] \ jobs[n] : Good(k)
      PROVE  FirstInv'
  <2>1. \A m \in Node : f[m] # {} => pool'[m] # {}
    BY Zenon, <1>1, <1>2, <1>4 DEF First, Frame
  <2>2. \A m \in Node : \A k \in jobs'[m] \ jobs[m] : JobBound(f, k, m)'
    <3>1. ASSUME NEW m \in Node, m # n PROVE jobs'[m] \ jobs[m] = {}
      BY Zenon, <1>2, <3>1 DEF Frame
    <3>. QED  BY Zenon, <1>4, <3>1
  <2>3. First(f)'
    BY Zenon, <1>1, <1>2, <1>3, <1>4, <2>1, <2>2, FirstKept
  <2>. QED  BY Zenon, <2>3 DEF FirstInv
<1>5. ASSUME pool'[n] = {} => pool[n] = {}, sent' = sent,
             \A k \in jobs'[n] \ jobs[n] : Good(k)
      PROVE  FirstInv'
  BY Zenon, <1>4, <1>5
<1>6. ASSUME NEW pc, NEW b, NEW S, NEW ok, ~ok \/ pc \notin {"sign", "add", "enter"}
      PROVE  Good(NewJob(pc, b, S, ok))
  <2>. DEFINE k == NewJob(pc, b, S, ok)
  <2>1. k.pc = pc /\ k.ok = ok  BY Zenon DEF NewJob
  <2>. HIDE DEF k
  <2>2. ~(k.pc = "sign" /\ k.ok) /\ ~(k.pc \in {"add", "enter"} /\ k.ok)
    BY Zenon, <1>6, <2>1
  <2>. QED  BY Zenon, <2>2 DEF JobBound, k
<1>7. ASSUME NEW j \in jobs[n], NEW pc, NEW ok, Turns(n, j, pc, ok),
             pool'[n] = {} => pool[n] = {}, Good(NewJob(pc, j.blink, j.sigs, ok))
      PROVE  FirstInv'
  BY Zenon, <1>5, <1>7 DEF Turns
<1>. HIDE DEF Good
<1>8. ASSUME NEW b \in Blinks, Stores(n, b) PROVE FirstInv'
  <2>1. jobs'[n] = jobs[n] \cup {NewJob("verify", b, Mine(n, b), FALSE)}
        /\ pool'[n] = pool[n] /\ sent' = sent
    BY Zenon, <1>8 DEF Stores
  <2>2. Good(NewJob("verify", b, Mine(n, b), FALSE))
    <3>1. PICK S : S = Mine(n, b)  BY Zenon
    <3>2. Good(NewJob("verify", b, S, FALSE))  BY Zenon, <1>6
    <3>. QED  BY Zenon, <3>1, <3>2
  <2>. QED  BY Zenon, <1>5, <2>1, <2>2
<1>9. ASSUME NEW s \in sent, Waits(n, s) PROVE FirstInv'
  <2>1. jobs'[n] = jobs[n] \cup {NewJob("delay", s.blink, {s}, FALSE)}
        /\ pool'[n] = pool[n] /\ sent' = sent
    BY Zenon, <1>9 DEF Waits
  <2>2. Good(NewJob("delay", s.blink, {s}, FALSE))  BY Zenon, <1>6
  <2>. QED  BY Zenon, <1>5, <2>1, <2>2
<1>10. ASSUME NEW j \in jobs[n], Verifies(n, j) PROVE FirstInv'
  <2>0. pool'[n] = pool[n] /\ j.pc = "verify"  BY Zenon, <1>10 DEF Verifies
  <2>1. CASE Turns(n, j, "sign", FALSE)
    BY Zenon, <1>6, <1>7, <2>0, <2>1
  <2>2. ASSUME NEW ok \in BOOLEAN, ok <=> Approved(votes[n], j.blink), Turns(n, j, "add", ok)
        PROVE  FirstInv'
    <3>. DEFINE k == NewJob("add", j.blink, j.sigs, ok)
    <3>1. k.pc = "add" /\ k.ok = ok /\ k.blink = j.blink  BY Zenon DEF NewJob
    <3>2. j \in Job /\ j.blink \in known[n]
      BY <2>0 DEF Types, Shape, SigInv, Signatures
    <3>3. j.blink \in Blinks /\ HasQuorums(j.blink) /\ votes[n] \subseteq sent
      BY Zenon, <3>2 DEF Types, Shape, SigInv, Signatures, Acceptable
    <3>4. ok => Approved(sent, j.blink)
      BY Zenon, <2>2, <3>3, Monotone
    <3>5. ok => Approved(Firsts(f), j.blink)
      BY Zenon, <1>1, <3>3, <3>4, ApprovedFirst
    <3>6. ok => Approved(Firsts(f)', j.blink)
      BY Zenon, <1>2, <1>3, <3>3, <3>5, FirstsGrow
    <3>7. ok => Approved(Firsts(f), j.blink)'
      BY Zenon, <3>6 DEF Approved, SigCount, Validators
    <3>8. JobBound(f, k, n)'
      <4>1. k.pc # "sign"  BY <3>1
      <4>. QED  BY Zenon, <3>1, <3>7, <4>1 DEF JobBound
    <3>9. Good(k)  BY Zenon, <3>8 DEF Good
    <3>. QED  BY Zenon, <1>7, <2>0, <2>2, <3>9
  <2>. QED  BY Zenon, <1>10, <2>1, <2>2 DEF Verifies
<1>11. ASSUME NEW j \in jobs[n], Adds(n, j) PROVE FirstInv'
  <2>0. j.pc = "add" /\ j.blink \in Blinks /\ HasQuorums(j.blink)
    <3>1. j.pc = "add" /\ j.blink \in known[n]
      BY <1>11 DEF Adds, SigInv, Signatures
    <3>. QED  BY Zenon, <3>1 DEF Types, Shape, SigInv, Signatures, Acceptable
  <2>1. CASE Turns(n, j, "sign", FALSE) /\ pool'[n] = pool[n]
    BY Zenon, <1>6, <1>7, <2>1
  <2>2. CASE Turns(n, j, "enter", TRUE) /\ j.ok /\ Puts(n, j.blink.tx, TRUE)
    <3>. DEFINE k == NewJob("enter", j.blink, j.sigs, TRUE)
    <3>1. Approved(Firsts(f), j.blink)
      BY Zenon, <1>1, <2>0, <2>2 DEF First, JobBound
    <3>2. Approved(Firsts(f)', j.blink)
      BY Zenon, <1>2, <1>3, <2>0, <3>1, FirstsGrow
    <3>3. Approved(Firsts(f), j.blink)'
      BY Zenon, <3>2 DEF Approved, SigCount, Validators
    <3>4. k.pc # "sign" /\ k.blink = j.blink  BY DEF NewJob
    <3>. HIDE DEF k
    <3>5. Good(k)  BY Zenon, <3>3, <3>4 DEF Good, JobBound
    <3>6. pool'[n] # {}  BY Zenon, <2>2 DEF Puts
    <3>. QED  BY Zenon, <1>7, <2>2, <3>5, <3>6 DEF k
  <2>3. CASE Turns(n, j, "sign", TRUE) /\ pool[n] = {} /\ Puts(n, j.blink.tx, FALSE)
    <3>. DEFINE k == NewJob("sign", j.blink, j.sigs, TRUE)
    <3>0. /\ k.blink = j.blink /\ k.pc = "sign" /\ k.pc \notin {"add", "enter"}
      BY DEF NewJob
    <3>. HIDE DEF k
    <3>. DEFINE g == [f EXCEPT ![n] = {j.blink}]
    <3>1. f[n] = {}  BY Zenon, <1>1, <2>3 DEF First
    <3>2. /\ g \in [Member -> SUBSET Blinks] /\ g[n] = {j.blink}
          /\ \A m \in Member \ {n} : g[m] = f[m]
      BY <1>1, <1>2, <2>0
    <3>. HIDE DEF g
    <3>3. \A m \in Member : f[m] \subseteq g[m] /\ \A b, c \in g[m] : b = c
      <4>1. ASSUME NEW m \in Member, m # n
            PROVE  f[m] \subseteq g[m] /\ \A b, c \in g[m] : b = c
        <5>1. g[m] = f[m]  BY Zenon, <3>2, <4>1
        <5>. QED  BY Zenon, <1>3, <5>1
      <4>2. f[n] \subseteq g[n] /\ \A b, c \in g[n] : b = c
        BY Zenon, <3>1, <3>2
      <4>. QED  BY Zenon, <4>1, <4>2
    <3>4. \A m \in Node : g[m] # {} => pool'[m] # {}
      <4>1. pool'[n] # {}  BY Zenon, <2>3 DEF Puts
      <4>2. ASSUME NEW m \in Node, m # n PROVE g[m] # {} => pool'[m] # {}
        <5>1. g[m] = f[m] /\ pool'[m] = pool[m]
          BY Zenon, <1>2, <3>2, <4>2 DEF Frame, Member
        <5>. QED  BY Zenon, <1>1, <5>1 DEF First
      <4>. QED  BY Zenon, <4>1, <4>2
    <3>5. sent' = sent /\ jobs'[n] = (jobs[n] \ {j}) \cup {k}
      BY Zenon, <2>3 DEF Turns, k
    <3>6. JobBound(g, k, n)'
      <4>1. Bound(g, j.blink, n)'  BY Zenon, <3>2 DEF Bound
      <4>2. Bound(g, k.blink, n)'  BY Zenon, <3>0, <4>1
      <4>. QED  BY Zenon, <3>0, <4>2 DEF JobBound
    <3>7. \A m \in Node : \A i \in jobs'[m] \ jobs[m] : JobBound(g, i, m)'
      <4>1. ASSUME NEW m \in Node, m # n PROVE jobs'[m] \ jobs[m] = {}
        BY Zenon, <1>2, <4>1 DEF Frame
      <4>2. \A i \in jobs'[n] \ jobs[n] : i = k  BY Zenon, <3>5
      <4>. QED  BY Zenon, <3>6, <4>1, <4>2
    <3>8. First(g)'
      BY Zenon, <1>1, <1>2, <3>3, <3>4, <3>5, <3>7, FirstKept
    <3>. QED  BY Zenon, <3>2, <3>8 DEF FirstInv
  <2>. QED  BY Zenon, <1>11, <2>1, <2>2, <2>3 DEF Adds
<1>12. ASSUME NEW j \in jobs[n], SetsAside(n, j) PROVE FirstInv'
  BY Zenon, <1>5, <1>12 DEF SetsAside
<1>13. ASSUME NEW j \in jobs[n], Records(n, j) PROVE FirstInv'
  <2>1. Good(NewJob("relay", j.blink, j.sigs, j.ok))  BY Zenon, <1>6
  <2>. QED  BY Zenon, <1>7, <1>13, <2>1 DEF Records
<1>14. ASSUME NEW j \in jobs[n], Relays(n, j) PROVE FirstInv'
  BY Zenon, <1>5, <1>14 DEF Relays
<1>15. ASSUME Receives(n) PROVE FirstInv'
  <2>1. pool'[n] = {} => pool[n] = {}  BY Zenon, <1>15 DEF Receives, Puts
  <2>. QED  BY Zenon, <1>5, <1>15, <2>1 DEF Receives
<1>16. ASSUME Resets(n) PROVE FirstInv'
  BY Zenon, <1>5, <1>16 DEF Resets
<1>17. ASSUME NEW b, NEW N, NEW D, NEW R, Counts(n, b, N, D, R) PROVE FirstInv'
  <2>1. /\ pool'[n] = pool[n] /\ sent' = sent \cup N
        /\ jobs'[n] = (jobs[n] \ D) \cup R /\ R \subseteq {RecordJob(b)}
        /\ D \subseteq jobs[n]
        /\ \A s \in N : \/ s \in sent
                        \/ \E j \in D : j.pc = "sign" /\ s = SigOf(j.blink, n, j.ok)
    BY Zenon, <1>17 DEF Counts
  <2>2. Good(RecordJob(b))
    <3>1. "record" \notin {"sign", "add", "enter"}  OBVIOUS
    <3>. QED  BY Zenon, <1>6, <3>1 DEF RecordJob
  <2>3. ASSUME NEW s \in sent' \ sent, s.ok PROVE Bound(f, s.blink, s.member)'
    <3>1. PICK j \in D : j.pc = "sign" /\ s = SigOf(j.blink, n, j.ok)
      BY Zenon, <2>1
    <3>2. s.blink = j.blink /\ s.member = n /\ s.ok = j.ok
      BY Zenon, <3>1 DEF SigOf
    <3>3. Bound(f, j.blink, n)
      BY Zenon, <1>1, <2>1, <2>3, <3>1, <3>2 DEF First, JobBound
    <3>4. HasQuorums(j.blink)
      <4>1. j.pc # "delay"  BY <3>1
      <4>. QED  BY Zenon, <2>1, <4>1 DEF SigInv, Signatures, Acceptable
    <3>5. Bound(f, j.blink, n)'
      BY Zenon, <1>2, <1>3, <3>3, <3>4, FirstsGrow
    <3>. QED  BY Zenon, <3>2, <3>5
  <2>. QED  BY Zenon, <1>4, <2>1, <2>2, <2>3
<1>18. ASSUME NEW j \in jobs[n], Enters(n, j) PROVE FirstInv'
  <2>. DEFINE k == NewJob("sign", j.blink, j.sigs, j.ok)
  <2>1. /\ k.blink = j.blink /\ k.pc \notin {"add", "enter"} /\ k.ok = j.ok
        /\ j.pc = "enter"
    BY <1>18 DEF NewJob, Enters
  <2>2. HasQuorums(j.blink)
    BY <2>1 DEF SigInv, Signatures, Acceptable
  <2>. HIDE DEF k
  <2>3. j.ok => Bound(f, j.blink, n)
    BY Zenon, <1>1, <2>1 DEF First, JobBound, Bound
  <2>4. j.ok => Bound(f, j.blink, n)'
    BY Zenon, <1>2, <1>3, <2>2, <2>3, FirstsGrow
  <2>5. k.ok => Bound(f, k.blink, n)'  BY Zenon, <2>1, <2>4
  <2>6. Good(k)  BY Zenon, <2>1, <2>5 DEF Good, JobBound
  <2>. QED  BY Zenon, <1>7, <1>18, <2>6 DEF Enters, k
<1>. QED
  BY Zenon, <1>8, <1>9, <1>10, <1>11, <1>12, <1>13, <1>14, <1>15, <1>16, <1>17, <1>18
     DEF Steps

-----------------------------------------------------------------------------
(* Approved blinks are relayed.                                            *)

Recording(n, t) == \E j \in jobs[n] : j.pc = "record" /\ j.blink.tx = t
Relaying(n, t) == \E j \in jobs[n] : j.pc \in {"record", "relay"} /\ j.blink.tx = t
Adding(n, t) == \E j \in jobs[n] : j.pc = "add" /\ ~j.ok /\ j.blink.tx = t

\* A verification that is about to store the transaction of an approved blink
\* with do_not_relay is followed by the call of set_relayable.
Handled(n, t) ==
  /\ t \in blinked[n] \/ Recording(n, t)
  /\ Adding(n, t) => Relaying(n, t)
  /\ t \in pool[n] => t \in relay[n] \/ Relaying(n, t)

HandledAt(n) == \A b \in Blinks : Approved(votes[n], b) => Handled(n, b.tx)

RelayInv == \A n \in Node : HandledAt(n)

LEMMA HandledKept ==
  ASSUME NEW n, NEW t, Handled(n, t), blinked[n] \subseteq blinked'[n],
         \A k \in jobs[n] \ jobs'[n] : k.pc \notin {"record", "relay"},
         \A k \in jobs'[n] \ jobs[n] :
            k.pc = "add" /\ ~k.ok /\ k.blink.tx = t => t \notin blinked[n],
         t \in pool'[n] =>
            \/ t \in pool[n] /\ relay[n] \subseteq relay'[n]
            \/ t \in relay'[n]
            \/ Adding(n, t)
  PROVE  Handled(n, t)'
<1>1. Recording(n, t) => Recording(n, t)'
  BY Zenon DEF Recording
<1>2. Relaying(n, t) => Relaying(n, t)'
  BY Zenon DEF Relaying
<1>3. Recording(n, t) => Relaying(n, t)
  BY Zenon DEF Recording, Relaying
<1>4. Adding(n, t)' => Relaying(n, t)
  <2>1. ASSUME NEW k \in jobs'[n], k.pc = "add", ~k.ok, k.blink.tx = t
        PROVE  Relaying(n, t)
    <3>1. CASE k \in jobs[n]
      BY Zenon, <2>1, <3>1 DEF Handled, Adding
    <3>2. CASE k \notin jobs[n]
      BY Zenon, <1>3, <2>1, <3>2 DEF Handled
    <3>. QED  BY Zenon, <3>1, <3>2
  <2>. QED  BY Zenon, <2>1 DEF Adding
<1>5. t \in blinked'[n] \/ Recording(n, t)'
  BY Zenon, <1>1 DEF Handled
<1>6. t \in pool'[n] => t \in relay'[n] \/ Relaying(n, t)'
  BY Zenon, <1>2 DEF Handled
<1>. QED  BY Zenon, <1>2, <1>4, <1>5, <1>6 DEF Handled

LEMMA RelayInvStep ==
  ASSUME CountingLaws, Types, SigInv, RelayInv, NEW n \in Node, Steps(n)
  PROVE  RelayInv'
<1>1. Frame(n)  BY Zenon, StepFrame
<1>2. ASSUME NEW m \in Node \ {n} PROVE HandledAt(m)'
  <2>1. /\ votes'[m] = votes[m] /\ relay'[m] = relay[m] /\ pool'[m] = pool[m]
        /\ jobs'[m] = jobs[m] /\ blinked'[m] = blinked[m]
    BY Zenon, <1>1 DEF Frame
  <2>2. \A b : Approved(votes[m], b)' <=> Approved(votes[m], b)
    BY Zenon, <2>1 DEF Approved, SigCount, Validators
  <2>3. HandledAt(m)  BY Zenon DEF RelayInv
  <2>4. \A t : Handled(m, t) => Handled(m, t)'
    BY Zenon, <2>1 DEF Handled, Recording, Relaying, Adding
  <2>. QED  BY Zenon, <2>2, <2>3, <2>4 DEF HandledAt
<1>3. HandledAt(n)'
  <2>. DEFINE Keeps == \A t : Handled(n, t) => Handled(n, t)'
  <2>1. ASSUME votes'[n] = votes[n], Keeps PROVE HandledAt(n)'
    <3>1. \A b : Approved(votes[n], b)' <=> Approved(votes[n], b)
      BY Zenon, <2>1 DEF Approved, SigCount, Validators
    <3>. QED  BY Zenon, <2>1, <3>1 DEF HandledAt, RelayInv
  <2>2. ASSUME blinked[n] \subseteq blinked'[n], pool'[n] = pool[n], relay'[n] = relay[n],
               \A k \in jobs[n] \ jobs'[n] : k.pc \notin {"record", "relay"},
               \A k \in jobs'[n] \ jobs[n] : k.pc = "add" => k.blink.tx \notin blinked[n]
        PROVE  Keeps
    BY Zenon, <2>2, HandledKept
  <2>3. ASSUME NEW b \in Blinks, Stores(n, b) PROVE HandledAt(n)'
    <3>. DEFINE k == NewJob("verify", b, Mine(n, b), FALSE)
    <3>1. /\ jobs'[n] = jobs[n] \cup {k} /\ pool'[n] = pool[n] /\ relay'[n] = relay[n]
          /\ votes'[n] = votes[n] /\ blinked'[n] = blinked[n]
      BY Zenon, <2>3 DEF Stores
    <3>2. k.pc = "verify"  BY Zenon DEF NewJob
    <3>. HIDE DEF k
    <3>3. k.pc # "add"  BY <3>2
    <3>4. /\ \A i \in jobs[n] \ jobs'[n] : i.pc \notin {"record", "relay"}
          /\ \A i \in jobs'[n] \ jobs[n] : i.pc # "add"
      BY Zenon, <3>1, <3>3
    <3>. QED  BY Zenon, <2>1, <2>2, <3>1, <3>4
  <2>4. ASSUME NEW s \in sent, Waits(n, s) PROVE HandledAt(n)'
    <3>. DEFINE k == NewJob("delay", s.blink, {s}, FALSE)
    <3>1. /\ jobs'[n] = jobs[n] \cup {k} /\ pool'[n] = pool[n] /\ relay'[n] = relay[n]
          /\ votes'[n] = votes[n] /\ blinked'[n] = blinked[n]
      BY Zenon, <2>4 DEF Waits
    <3>2. k.pc = "delay"  BY Zenon DEF NewJob
    <3>. HIDE DEF k
    <3>3. k.pc # "add"  BY <3>2
    <3>4. /\ \A i \in jobs[n] \ jobs'[n] : i.pc \notin {"record", "relay"}
          /\ \A i \in jobs'[n] \ jobs[n] : i.pc # "add"
      BY Zenon, <3>1, <3>3
    <3>. QED  BY Zenon, <2>1, <2>2, <3>1, <3>4
  <2>5. ASSUME NEW j \in jobs[n], Verifies(n, j) PROVE HandledAt(n)'
    <3>1. /\ j.pc \notin {"record", "relay"}
          /\ pool'[n] = pool[n] /\ relay'[n] = relay[n] /\ blinked'[n] = blinked[n]
      BY <2>5 DEF Verifies
    <3>2. ASSUME NEW pc, NEW ok, Turns(n, j, pc, ok),
                 pc = "add" => j.blink.tx \notin blinked[n]
          PROVE  HandledAt(n)'
      <4>. DEFINE k == NewJob(pc, j.blink, j.sigs, ok)
      <4>1. k.pc = pc /\ k.blink = j.blink  BY Zenon DEF NewJob
      <4>2. jobs'[n] = (jobs[n] \ {j}) \cup {k} /\ votes'[n] = votes[n]
        BY Zenon, <3>2 DEF Turns
      <4>. HIDE DEF k
      <4>3. \A i \in jobs'[n] \ jobs[n] : i.pc = "add" => i.blink.tx \notin blinked[n]
        BY Zenon, <3>2, <4>1, <4>2
      <4>4. \A i \in jobs[n] \ jobs'[n] : i.pc \notin {"record", "relay"}
        BY Zenon, <3>1, <4>2
      <4>. QED  BY Zenon, <2>1, <2>2, <3>1, <4>2, <4>3, <4>4
    <3>3. "sign" # "add"  OBVIOUS
    <3>. QED  BY Zenon, <2>5, <3>2, <3>3 DEF Verifies
  <2>6. ASSUME NEW j \in jobs[n], Adds(n, j) PROVE HandledAt(n)'
    <3>1. PICK pc \in {"sign", "enter"}, ok \in BOOLEAN : Turns(n, j, pc, ok)
      BY Zenon, <2>6 DEF Adds
    <3>. DEFINE k == NewJob(pc, j.blink, j.sigs, ok)
    <3>2. jobs'[n] = (jobs[n] \ {j}) \cup {k} /\ votes'[n] = votes[n]
      BY Zenon, <3>1 DEF Turns
    <3>3. k.pc # "add" /\ j.pc \notin {"record", "relay"} /\ j.pc = "add"
      <4>1. k.pc = pc /\ j.pc = "add"  BY Zenon, <2>6 DEF NewJob, Adds
      <4>. QED  BY <4>1
    <3>. HIDE DEF k
    <3>4. /\ \A i \in jobs[n] \ jobs'[n] : i.pc \notin {"record", "relay"}
          /\ \A i \in jobs'[n] \ jobs[n] : i.pc # "add"
      BY Zenon, <3>2, <3>3
    <3>5. blinked[n] \subseteq blinked'[n]  BY Zenon, <2>6 DEF Adds
    <3>6. ASSUME NEW t, t \in pool'[n]
          PROVE  \/ t \in pool[n] /\ relay[n] \subseteq relay'[n]
                 \/ t \in relay'[n]
                 \/ Adding(n, t)
      <4>1. CASE pool'[n] = pool[n] /\ relay'[n] = relay[n]
        BY Zenon, <3>6, <4>1
      <4>2. CASE Puts(n, j.blink.tx, TRUE)
        BY Zenon, <3>6, <4>2 DEF Puts
      <4>3. CASE ~j.ok /\ Puts(n, j.blink.tx, FALSE)
        BY Zenon, <3>3, <3>6, <4>3 DEF Puts, Adding
      <4>. QED  BY Zenon, <2>6, <4>1, <4>2, <4>3 DEF Adds
    <3>7. Keeps  BY Zenon, <3>4, <3>5, <3>6, HandledKept
    <3>. QED  BY Zenon, <2>1, <3>2, <3>7
  <2>7. ASSUME NEW j \in jobs[n], SetsAside(n, j) PROVE HandledAt(n)'
    <3>1. /\ jobs'[n] = jobs[n] \ {j} /\ pool'[n] = pool[n] /\ relay'[n] = relay[n]
          /\ votes'[n] = votes[n] /\ blinked'[n] = blinked[n] /\ j.pc = "delay"
      BY Zenon, <2>7 DEF SetsAside
    <3>2. j.pc \notin {"record", "relay"}  BY <3>1
    <3>. QED  BY Zenon, <2>1, <2>2, <3>1, <3>2
  <2>8. ASSUME NEW j \in jobs[n], Records(n, j) PROVE HandledAt(n)'
    <3>. DEFINE k == NewJob("relay", j.blink, j.sigs, j.ok)
    <3>1. /\ jobs'[n] = (jobs[n] \ {j}) \cup {k} /\ votes'[n] = votes[n]
          /\ pool'[n] = pool[n] /\ relay'[n] = relay[n]
          /\ blinked'[n] = blinked[n] \cup {j.blink.tx} /\ j.pc = "record"
      BY Zenon, <2>8 DEF Records, Turns
    <3>2. k.pc = "relay" /\ k.blink = j.blink  BY Zenon DEF NewJob
    <3>3. k.pc # "add"  BY Zenon, <3>2
    <3>. HIDE DEF k
    <3>4. ASSUME NEW t, Handled(n, t) PROVE Handled(n, t)'
      <4>1. Recording(n, t) => Recording(n, t)' \/ t \in blinked'[n]
        BY Zenon, <3>1 DEF Recording
      <4>2. Relaying(n, t) => Relaying(n, t)'
        <5>1. ASSUME NEW i \in jobs[n], i.pc \in {"record", "relay"}, i.blink.tx = t
              PROVE  Relaying(n, t)'
          <6>1. CASE i = j
            BY Zenon, <3>1, <3>2, <5>1, <6>1 DEF Relaying
          <6>2. CASE i # j
            BY Zenon, <3>1, <5>1, <6>2 DEF Relaying
          <6>. QED  BY Zenon, <6>1, <6>2
        <5>. QED  BY Zenon, <5>1 DEF Relaying
      <4>3. Adding(n, t)' => Adding(n, t)
        BY Zenon, <3>1, <3>3 DEF Adding
      <4>. QED  BY Zenon, <3>1, <3>4, <4>1, <4>2, <4>3 DEF Handled
    <3>. QED  BY Zenon, <2>1, <3>1, <3>4
  <2>9. ASSUME NEW j \in jobs[n], Relays(n, j) PROVE HandledAt(n)'
    <3>1. /\ j.pc = "relay" /\ \A k \in jobs[n] : k.pc # "add"
          /\ relay'[n] = relay[n] \cup (pool[n] \cap {j.blink.tx})
          /\ jobs'[n] = jobs[n] \ {j} /\ votes'[n] = votes[n]
          /\ pool'[n] = pool[n] /\ blinked'[n] = blinked[n]
      BY Zenon, <2>9 DEF Relays
    <3>2. j.pc # "record"  BY <3>1
    <3>3. ASSUME NEW t, Handled(n, t) PROVE Handled(n, t)'
      <4>1. Recording(n, t) => Recording(n, t)'
        BY Zenon, <3>1, <3>2 DEF Recording
      <4>2. ~Adding(n, t)'  BY Zenon, <3>1 DEF Adding
      <4>3. Relaying(n, t) => Relaying(n, t)' \/ t = j.blink.tx
        BY Zenon, <3>1 DEF Relaying
      <4>. QED  BY Zenon, <3>1, <3>3, <4>1, <4>2, <4>3 DEF Handled
    <3>. QED  BY Zenon, <2>1, <3>1, <3>3
  <2>10. ASSUME Receives(n) PROVE HandledAt(n)'
    <3>1. /\ jobs'[n] = jobs[n] /\ votes'[n] = votes[n] /\ blinked[n] \subseteq blinked'[n]
          /\ \/ pool'[n] = pool[n] /\ relay'[n] = relay[n]
             \/ \E x : pool'[n] = {x} /\ relay'[n] = {x}
      BY Zenon, <2>10 DEF Receives, Puts
    <3>2. /\ \A k \in jobs[n] \ jobs'[n] : k.pc \notin {"record", "relay"}
          /\ \A t : \A k \in jobs'[n] \ jobs[n] :
               k.pc = "add" /\ ~k.ok /\ k.blink.tx = t => t \notin blinked[n]
          /\ \A t : t \in pool'[n] =>
               \/ t \in pool[n] /\ relay[n] \subseteq relay'[n]
               \/ t \in relay'[n]
               \/ Adding(n, t)
      BY Zenon, <3>1
    <3>3. Keeps  BY Zenon, <3>1, <3>2, HandledKept
    <3>. QED  BY Zenon, <2>1, <3>1, <3>3
  <2>11. ASSUME Resets(n) PROVE HandledAt(n)'
    <3>1. \A s : s \notin votes'[n]  BY Zenon, <2>11 DEF Resets
    <3>2. ASSUME NEW b PROVE ~Approved(votes[n], b)'
      <4>1. ~Approved(votes'[n], b)  BY Zenon, <3>1, HasApproval
      <4>. QED  BY Zenon, <4>1 DEF Approved, SigCount, Validators
    <3>. QED  BY Zenon, <3>2 DEF HandledAt
  <2>12. ASSUME NEW b, NEW N, NEW D, NEW R, Counts(n, b, N, D, R) PROVE HandledAt(n)'
    <3>1. /\ jobs'[n] = (jobs[n] \ D) \cup R /\ R \subseteq {RecordJob(b)}
          /\ votes'[n] = votes[n] \cup N /\ \A s \in N : s.blink = b
          /\ pool'[n] = pool[n] /\ relay'[n] = relay[n] /\ blinked'[n] = blinked[n]
          /\ Approved(votes[n] \cup N, b) => Approved(votes[n], b) \/ R = {RecordJob(b)}
      BY Zenon, <2>12 DEF Counts
    <3>2. \A i \in jobs[n] \ jobs'[n] : i.pc \notin {"record", "relay"}
      <4>1. \A i \in D : i.pc \in {"sign", "delay"}  BY Zenon, <2>12 DEF Counts
      <4>2. \A i \in jobs[n] \ jobs'[n] : i \in D  BY Zenon, <3>1
      <4>. QED  BY <4>1, <4>2
    <3>3. RecordJob(b).pc = "record" /\ RecordJob(b).blink = b
      BY Zenon DEF RecordJob, NewJob
    <3>4. \A i \in jobs'[n] \ jobs[n] : i.pc # "add"
      <4>1. RecordJob(b).pc # "add"  BY <3>3
      <4>. QED  BY Zenon, <3>1, <4>1
    <3>5. Keeps  BY Zenon, <2>2, <3>1, <3>2, <3>4
    <3>6. ASSUME NEW c \in Blinks, Approved(votes'[n], c) PROVE Handled(n, c.tx)'
      <4>1. CASE Approved(votes[n], c)
        BY Zenon, <3>5, <4>1 DEF RelayInv, HandledAt
      <4>2. CASE c = b /\ R = {RecordJob(b)}
        <5>1. RecordJob(b) \in jobs'[n] /\ RecordJob(b).pc = "record"
              /\ RecordJob(b).blink.tx = c.tx
          BY Zenon, <3>1, <3>3, <4>2
        <5>2. Recording(n, c.tx)' /\ Relaying(n, c.tx)'
          BY Zenon, <5>1 DEF Recording, Relaying
        <5>. QED  BY Zenon, <5>2 DEF Handled
      <4>3. CASE c # b
        <5>1. ASSUME NEW m, NEW ok
              PROVE  SigOf(c, m, ok) \in votes'[n] <=> SigOf(c, m, ok) \in votes[n]
          <6>1. SigOf(c, m, ok).blink = c  BY Zenon DEF SigOf
          <6>. QED  BY Zenon, <3>1, <4>3, <6>1
        <5>2. Approved(votes[n], c)  BY Zenon, <3>6, <5>1, SameVotes
        <5>. QED  BY Zenon, <4>1, <5>2
      <4>. QED  BY Zenon, <3>1, <3>6, <4>1, <4>2, <4>3
    <3>7. \A c : Approved(votes[n], c)' <=> Approved(votes'[n], c)
      BY Zenon DEF Approved, SigCount, Validators
    <3>. QED  BY Zenon, <3>6, <3>7 DEF HandledAt
  <2>13. ASSUME NEW j \in jobs[n], Enters(n, j) PROVE HandledAt(n)'
    <3>. DEFINE k == NewJob("sign", j.blink, j.sigs, j.ok)
    <3>1. /\ jobs'[n] = (jobs[n] \ {j}) \cup {k} /\ votes'[n] = votes[n]
          /\ pool'[n] = pool[n] /\ relay'[n] = relay[n]
          /\ blinked[n] \subseteq blinked'[n] /\ j.pc = "enter" /\ k.pc = "sign"
      BY Zenon, <2>13 DEF Enters, Turns, NewJob
    <3>. HIDE DEF k
    <3>2. k.pc # "add" /\ j.pc \notin {"record", "relay"}  BY <3>1
    <3>3. /\ \A i \in jobs[n] \ jobs'[n] : i.pc \notin {"record", "relay"}
          /\ \A i \in jobs'[n] \ jobs[n] : i.pc # "add"
      BY Zenon, <3>1, <3>2
    <3>. QED  BY Zenon, <2>1, <2>2, <3>1, <3>3
  <2>. QED
    BY Zenon, <2>3, <2>4, <2>5, <2>6, <2>7, <2>8, <2>9, <2>10, <2>11, <2>12, <2>13
       DEF Steps
<1>. QED  BY Zenon, <1>2, <1>3 DEF RelayInv

-----------------------------------------------------------------------------
(* Verdicts agree.                                                         *)

\* The jobs that lead to the node's own signature.
Own(j) == j.pc \in {"verify", "add", "enter", "sign"}

SignsOnce(n) ==
  /\ \A s \in sent : s.member = n => s.blink \in known[n]
  /\ \A j, k \in jobs[n] : Own(j) /\ Own(k) /\ j.blink = k.blink => j = k
  /\ \A j \in jobs[n] : Own(j) => \A s \in sent : s.member = n => s.blink # j.blink

\* Without restarts, every member signs a blink once.
OnceInv ==
  (\A n \in Node : restarts[n] = 0) =>
      OncePerMember(sent) /\ \A n \in Node : SignsOnce(n)

LEMMA OnceInvStep ==
  ASSUME Types, SigInv, OnceInv, NEW n \in Node, Steps(n)
  PROVE  OnceInv'
<1>. SUFFICES ASSUME \A m \in Node : restarts'[m] = 0
              PROVE  OncePerMember(sent') /\ \A m \in Node : SignsOnce(m)'
  BY Zenon DEF OnceInv, OncePerMember
<1>1. Frame(n) /\ \A j \in jobs[n] : j \in Job  BY Zenon, StepFrame DEF Types, Shape
<1>2. ~Resets(n)
  <2>1. SUFFICES ASSUME Resets(n) PROVE FALSE  OBVIOUS
  <2>2. restarts[n] \in Nat /\ restarts'[n] = restarts[n] + 1 /\ restarts'[n] = 0
    BY Zenon, <2>1 DEF Resets, Types, Shape
  <2>. QED  BY <2>2
<1>3. restarts'[n] = restarts[n]
  BY Zenon, <1>2 DEF Steps, Stores, Counts, Waits, Verifies, Adds, Turns, SetsAside,
                     Records, Relays, Enters, Receives
<1>4. OncePerMember(sent) /\ \A m \in Node : SignsOnce(m)
  BY Zenon, <1>1, <1>3 DEF OnceInv, Frame
<1>. DEFINE Goal == OncePerMember(sent') /\ \A m \in Node : SignsOnce(m)'
<1>5. ASSUME sent' = sent, SignsOnce(n)' PROVE Goal
  <2>1. ASSUME NEW m \in Node \ {n} PROVE SignsOnce(m)'
    <3>1. known'[m] = known[m] /\ jobs'[m] = jobs[m] /\ SignsOnce(m)
      BY Zenon, <1>1, <1>4 DEF Frame
    <3>. QED  BY Zenon, <1>5, <3>1 DEF SignsOnce, Own
  <2>. QED  BY Zenon, <1>4, <1>5, <2>1
<1>6. ASSUME sent' = sent, known'[n] = known[n],
             \A k \in jobs'[n] : Own(k) => k \in jobs[n]
      PROVE  Goal
  <2>0. SignsOnce(n)  BY Zenon, <1>4
  <2>1. SignsOnce(n)'
    <3>1. \A s \in sent' : s.member = n => s.blink \in known'[n]
      BY Zenon, <1>6, <2>0 DEF SignsOnce
    <3>2. \A j, k \in jobs'[n] : Own(j) /\ Own(k) /\ j.blink = k.blink => j = k
      BY Zenon, <1>6, <2>0 DEF SignsOnce
    <3>3. \A j \in jobs'[n] : Own(j) => \A s \in sent' : s.member = n => s.blink # j.blink
      BY Zenon, <1>6, <2>0 DEF SignsOnce
    <3>. QED  BY Zenon, <3>1, <3>2, <3>3 DEF SignsOnce, Own
  <2>. QED  BY Zenon, <1>5, <1>6, <2>1
<1>. HIDE DEF Goal
<1>7. ASSUME NEW j \in jobs[n], Own(j), NEW pc, NEW ok, Turns(n, j, pc, ok)
      PROVE  Goal
  <2>. DEFINE k == NewJob(pc, j.blink, j.sigs, ok)
  <2>1. /\ jobs'[n] = (jobs[n] \ {j}) \cup {k} /\ sent' = sent /\ known'[n] = known[n]
        /\ k.blink = j.blink
    BY Zenon, <1>7 DEF Turns, NewJob
  <2>. HIDE DEF k
  <2>2. ASSUME NEW i \in jobs'[n], Own(i), i # k
        PROVE  i \in jobs[n] /\ i.blink # j.blink
    BY Zenon, <1>4, <1>7, <2>1, <2>2 DEF SignsOnce
  <2>3. ASSUME NEW i \in jobs'[n], NEW l \in jobs'[n], Own(i), Own(l), i.blink = l.blink
        PROVE  i = l
    <3>1. CASE i = k  BY Zenon, <2>1, <2>2, <2>3, <3>1
    <3>2. CASE i # k
      <4>1. l # k  BY Zenon, <2>1, <2>2, <2>3, <3>2
      <4>. QED  BY Zenon, <1>4, <2>2, <2>3, <3>2, <4>1 DEF SignsOnce
    <3>. QED  BY Zenon, <3>1, <3>2
  <2>4. ASSUME NEW i \in jobs'[n], Own(i), NEW s \in sent', s.member = n
        PROVE  s.blink # i.blink
    <3>1. CASE i = k
      <4>1. s.blink # j.blink  BY Zenon, <1>4, <1>7, <2>1, <2>4 DEF SignsOnce
      <4>. QED  BY Zenon, <2>1, <3>1, <4>1
    <3>2. CASE i # k  BY Zenon, <1>4, <2>1, <2>2, <2>4, <3>2 DEF SignsOnce
    <3>. QED  BY Zenon, <3>1, <3>2
  <2>5. \A s \in sent' : s.member = n => s.blink \in known'[n]
    BY Zenon, <1>4, <2>1 DEF SignsOnce
  <2>6. SignsOnce(n)'
    BY Zenon, <2>3, <2>4, <2>5 DEF SignsOnce, Own
  <2>. QED  BY Zenon, <1>5, <2>1, <2>6
<1>8. ASSUME NEW b \in Blinks, Stores(n, b) PROVE Goal
  <2>. DEFINE k == NewJob("verify", b, Mine(n, b), FALSE)
  <2>1. /\ jobs'[n] = jobs[n] \cup {k} /\ sent' = sent /\ known'[n] = known[n] \cup {b}
        /\ b \notin known[n] /\ k.blink = b
    BY Zenon, <1>8 DEF Stores, NewJob
  <2>. HIDE DEF k
  <2>2. ASSUME NEW i \in jobs[n], Own(i) PROVE i.blink # b
    <3>1. i.pc # "delay"  BY <2>2 DEF Own
    <3>. QED  BY Zenon, <2>1, <3>1 DEF SigInv, Signatures
  <2>3. ASSUME NEW i \in jobs'[n], NEW l \in jobs'[n], Own(i), Own(l), i.blink = l.blink
        PROVE  i = l
    <3>1. CASE i \in jobs[n] /\ l \in jobs[n]
      BY Zenon, <1>4, <2>3, <3>1 DEF SignsOnce
    <3>. QED  BY Zenon, <2>1, <2>2, <2>3, <3>1
  <2>4. ASSUME NEW i \in jobs'[n], Own(i), NEW s \in sent', s.member = n
        PROVE  s.blink # i.blink
    <3>0. s \in sent /\ SignsOnce(n)  BY Zenon, <1>4, <2>1
    <3>1. CASE i \in jobs[n]  BY Zenon, <2>4, <3>0, <3>1 DEF SignsOnce
    <3>2. CASE i = k  BY Zenon, <2>1, <2>4, <3>0, <3>2 DEF SignsOnce
    <3>. QED  BY Zenon, <2>1, <3>1, <3>2
  <2>5. \A s \in sent' : s.member = n => s.blink \in known'[n]
    BY Zenon, <1>4, <2>1 DEF SignsOnce
  <2>6. SignsOnce(n)'
    BY Zenon, <2>3, <2>4, <2>5 DEF SignsOnce, Own
  <2>. QED  BY Zenon, <1>5, <2>1, <2>6
<1>9. ASSUME NEW s \in sent, Waits(n, s) PROVE Goal
  <2>. DEFINE k == NewJob("delay", s.blink, {s}, FALSE)
  <2>1. /\ jobs'[n] = jobs[n] \cup {k} /\ sent' = sent /\ known'[n] = known[n]
        /\ k.pc = "delay"
    BY Zenon, <1>9 DEF Waits, NewJob
  <2>. HIDE DEF k
  <2>2. ~Own(k)  BY <2>1 DEF Own
  <2>. QED  BY Zenon, <1>6, <2>1, <2>2
<1>10. ASSUME NEW j \in jobs[n], Verifies(n, j) PROVE Goal
  <2>1. Own(j)  BY Zenon, <1>10 DEF Verifies, Own
  <2>. QED  BY Zenon, <1>7, <1>10, <2>1 DEF Verifies
<1>11. ASSUME NEW j \in jobs[n], Adds(n, j) PROVE Goal
  <2>1. Own(j)  BY Zenon, <1>11 DEF Adds, Own
  <2>. QED  BY Zenon, <1>7, <1>11, <2>1 DEF Adds
<1>12. ASSUME NEW j \in jobs[n], SetsAside(n, j) PROVE Goal
  BY Zenon, <1>6, <1>12 DEF SetsAside
<1>13. ASSUME NEW j \in jobs[n], Records(n, j) PROVE Goal
  <2>. DEFINE k == NewJob("relay", j.blink, j.sigs, j.ok)
  <2>1. /\ jobs'[n] = (jobs[n] \ {j}) \cup {k} /\ sent' = sent /\ known'[n] = known[n]
        /\ k.pc = "relay"
    BY Zenon, <1>13 DEF Records, Turns, NewJob
  <2>. HIDE DEF k
  <2>2. ~Own(k)  BY <2>1 DEF Own
  <2>. QED  BY Zenon, <1>6, <2>1, <2>2
<1>14. ASSUME NEW j \in jobs[n], Relays(n, j) PROVE Goal
  BY Zenon, <1>6, <1>14 DEF Relays
<1>15. ASSUME Receives(n) PROVE Goal
  BY Zenon, <1>6, <1>15 DEF Receives
<1>16. ASSUME NEW b, NEW N, NEW D, NEW R, Counts(n, b, N, D, R) PROVE Goal
  <2>1. /\ known'[n] = known[n] /\ sent' = sent \cup N
        /\ jobs'[n] = (jobs[n] \ D) \cup R /\ R \subseteq {RecordJob(b)}
        /\ \A i, j \in D : i = j
        /\ D \subseteq jobs[n]
    BY Zenon, <1>16 DEF Counts
  <2>2. ASSUME NEW s \in sent' \ sent
        PROVE  \E j \in D : j.pc = "sign" /\ s.blink = j.blink /\ s.member = n
                            /\ s = SigOf(j.blink, n, j.ok)
    <3>1. PICK j \in D : j.pc = "sign" /\ s = SigOf(j.blink, n, j.ok)
      BY Zenon, <1>16, <2>1 DEF Counts
    <3>2. s.blink = j.blink /\ s.member = n  BY Zenon, <3>1 DEF SigOf
    <3>. QED  BY Zenon, <3>1, <3>2
  <2>3. ASSUME NEW i \in jobs'[n], Own(i) PROVE i \in jobs[n] \ D
    <3>1. RecordJob(b).pc = "record"  BY Zenon DEF RecordJob, NewJob
    <3>2. ~Own(RecordJob(b))  BY <3>1 DEF Own
    <3>. QED  BY Zenon, <2>1, <2>3, <3>2
  <2>4. ASSUME NEW j, j.pc = "sign" PROVE Own(j)  BY Zenon, <2>4 DEF Own
  <2>5. ASSUME NEW s \in sent' \ sent, NEW r \in sent, r.blink = s.blink, r.member = s.member
        PROVE  FALSE
    <3>1. PICK j \in D : j.pc = "sign" /\ s.blink = j.blink /\ s.member = n
      BY Zenon, <2>2
    <3>2. Own(j) /\ j \in jobs[n]  BY Zenon, <2>1, <2>4, <3>1
    <3>. QED  BY Zenon, <1>4, <2>5, <3>1, <3>2 DEF SignsOnce
  <2>6. ASSUME NEW s \in sent' \ sent, NEW r \in sent' \ sent PROVE s = r
    BY Zenon, <2>1, <2>2
  <2>7. OncePerMember(sent')
    BY Zenon, <1>4, <2>5, <2>6 DEF OncePerMember
  <2>8. ASSUME NEW m \in Node, m # n PROVE SignsOnce(m)'
    <3>1. known'[m] = known[m] /\ jobs'[m] = jobs[m] /\ SignsOnce(m)
      BY Zenon, <1>1, <1>4, <2>8 DEF Frame
    <3>2. \A s \in sent' : s.member = m => s \in sent
      BY Zenon, <2>2, <2>8
    <3>. QED  BY Zenon, <3>1, <3>2 DEF SignsOnce, Own
  <2>9. SignsOnce(n)'
    <3>1. ASSUME NEW s \in sent', s.member = n PROVE s.blink \in known'[n]
      <4>1. CASE s \in sent  BY Zenon, <1>4, <2>1, <3>1, <4>1 DEF SignsOnce
      <4>2. CASE s \notin sent
        <5>1. PICK j \in D : j.pc = "sign" /\ s.blink = j.blink  BY Zenon, <2>2, <4>2
        <5>2. j.pc # "delay"  BY <5>1
        <5>. QED  BY Zenon, <2>1, <5>1, <5>2 DEF SigInv, Signatures
      <4>. QED  BY Zenon, <4>1, <4>2
    <3>2. ASSUME NEW i \in jobs'[n], Own(i), NEW s \in sent', s.member = n
          PROVE  s.blink # i.blink
      <4>1. CASE s \in sent  BY Zenon, <1>4, <2>3, <3>2, <4>1 DEF SignsOnce
      <4>2. CASE s \notin sent
        <5>1. PICK j \in D : j.pc = "sign" /\ s.blink = j.blink  BY Zenon, <2>2, <4>2
        <5>2. Own(j) /\ j \in jobs[n] /\ i \in jobs[n] /\ i # j
          BY Zenon, <2>1, <2>3, <2>4, <3>2, <5>1
        <5>. QED  BY Zenon, <1>4, <3>2, <5>1, <5>2 DEF SignsOnce
      <4>. QED  BY Zenon, <4>1, <4>2
    <3>3. \A i, l \in jobs'[n] : Own(i) /\ Own(l) /\ i.blink = l.blink => i = l
      BY Zenon, <1>4, <2>3 DEF SignsOnce
    <3>. QED  BY Zenon, <3>1, <3>2, <3>3 DEF SignsOnce, Own
  <2>. QED  BY Zenon, <2>7, <2>8, <2>9 DEF Goal
<1>17. ASSUME NEW j \in jobs[n], Enters(n, j) PROVE Goal
  <2>1. Own(j)  BY Zenon, <1>17 DEF Enters, Own
  <2>. QED  BY Zenon, <1>7, <1>17, <2>1 DEF Enters
<1>18. Goal
  BY Zenon, <1>2, <1>8, <1>9, <1>10, <1>11, <1>12, <1>13, <1>14, <1>15, <1>16, <1>17
     DEF Steps
<1>. QED  BY Zenon, <1>18 DEF Goal

-----------------------------------------------------------------------------
(* Every member says what it thinks of a blink.                            *)

\* A node has its own signature for a blink that it knows, or is about to.
Said(n) ==
  \A b \in known[n] :
    \/ \E j \in jobs[n] : Own(j) /\ j.blink = b
    \/ \E v \in votes[n] : v.blink = b /\ v.member = n

PeersSaid ==
  \A b \in Blinks, p \in Peer :
    Acceptable(b) /\ InQuorum(p, b) => \E s \in sent : s.blink = b /\ s.member = p

SaidInv == PeersSaid /\ \A n \in Node : Said(n)

LEMMA SaidInvStep ==
  ASSUME SaidInv, NEW n \in Node, Steps(n)
  PROVE  SaidInv'
<1>1. Frame(n) /\ sent \subseteq sent'  BY Zenon, StepFrame
<1>2. PeersSaid'
  <2>1. \A b : Acceptable(b)' <=> Acceptable(b)
    BY Zenon DEF Acceptable, InWindow, HasQuorums, Validators
  <2>2. \A b, p : InQuorum(p, b)' <=> InQuorum(p, b)
    BY Zenon DEF InQuorum, Validators
  <2>3. ASSUME NEW b \in Blinks, NEW p \in Peer, Acceptable(b), InQuorum(p, b)
        PROVE  \E s \in sent' : s.blink = b /\ s.member = p
    <3>1. \E s \in sent : s.blink = b /\ s.member = p
      BY Zenon, <2>3 DEF SaidInv, PeersSaid
    <3>. QED  BY Zenon, <1>1, <3>1
  <2>. QED  BY Zenon, <2>1, <2>2, <2>3 DEF PeersSaid
<1>3. ASSUME NEW m \in Node \ {n} PROVE Said(m)'
  <2>1. known'[m] = known[m] /\ jobs'[m] = jobs[m] /\ votes'[m] = votes[m] /\ Said(m)
    BY Zenon, <1>1 DEF Frame, SaidInv
  <2>. QED  BY Zenon, <2>1 DEF Said, Own
<1>4. Said(n)'
  <2>0. Said(n)  BY Zenon DEF SaidInv
  <2>. DEFINE Speaks(b) == \/ \E k \in jobs'[n] : Own(k) /\ k.blink = b
                           \/ \E v \in votes'[n] : v.blink = b /\ v.member = n
  <2>1. ASSUME \A b \in known'[n] \ known[n] : Speaks(b),
               votes[n] \subseteq votes'[n],
               \A j \in jobs[n] : Own(j) => Speaks(j.blink)
        PROVE  Said(n)'
    <3>1. ASSUME NEW b \in known[n] PROVE Speaks(b)
      <4>1. ASSUME NEW j \in jobs[n], Own(j), j.blink = b PROVE Speaks(b)
        <5>1. Speaks(j.blink)  BY Zenon, <2>1, <4>1
        <5>. QED  BY Zenon, <4>1, <5>1
      <4>2. ASSUME NEW v \in votes[n], v.blink = b, v.member = n PROVE Speaks(b)
        BY Zenon, <2>1, <4>2
      <4>. QED  BY Zenon, <2>0, <4>1, <4>2 DEF Said
    <3>2. \A b \in known'[n] : Speaks(b)  BY Zenon, <2>1, <3>1
    <3>. QED  BY Zenon, <3>2 DEF Said, Own
  <2>2. ASSUME NEW j \in jobs'[n], Own(j) PROVE Speaks(j.blink)
    BY Zenon, <2>2
  <2>. HIDE DEF Speaks
  <2>3. ASSUME known'[n] = known[n], votes'[n] = votes[n],
               \A j \in jobs[n] : Own(j) => j \in jobs'[n]
        PROVE  Said(n)'
    BY Zenon, <2>1, <2>2, <2>3
  <2>4. ASSUME NEW j \in jobs[n], NEW pc, pc \in {"add", "enter", "sign"},
               NEW ok, Turns(n, j, pc, ok)
        PROVE  Said(n)'
    <3>. DEFINE k == NewJob(pc, j.blink, j.sigs, ok)
    <3>1. /\ jobs'[n] = (jobs[n] \ {j}) \cup {k} /\ k.pc = pc /\ k.blink = j.blink
          /\ known'[n] = known[n] /\ votes'[n] = votes[n]
      BY Zenon, <2>4 DEF Turns, NewJob
    <3>. HIDE DEF k
    <3>2. Own(k)  BY Zenon, <2>4, <3>1 DEF Own
    <3>3. Speaks(j.blink)  BY Zenon, <2>2, <3>1, <3>2
    <3>4. \A i \in jobs[n] : Own(i) => Speaks(i.blink)
      BY Zenon, <2>2, <3>1, <3>3
    <3>. QED  BY Zenon, <2>1, <3>1, <3>4
  <2>5. ASSUME NEW b \in Blinks, Stores(n, b) PROVE Said(n)'
    <3>. DEFINE k == NewJob("verify", b, Mine(n, b), FALSE)
    <3>1. /\ jobs'[n] = jobs[n] \cup {k} /\ k.pc = "verify" /\ k.blink = b
          /\ known'[n] = known[n] \cup {b} /\ votes'[n] = votes[n]
      BY Zenon, <2>5 DEF Stores, NewJob
    <3>. HIDE DEF k
    <3>2. Own(k)  BY Zenon, <3>1 DEF Own
    <3>3. Speaks(b)  BY Zenon, <2>2, <3>1, <3>2
    <3>. QED  BY Zenon, <2>1, <2>2, <3>1, <3>3
  <2>6. ASSUME NEW s \in sent, Waits(n, s) PROVE Said(n)'
    BY Zenon, <2>3, <2>6 DEF Waits
  <2>7. ASSUME NEW j \in jobs[n], Verifies(n, j) PROVE Said(n)'
    BY Zenon, <2>4, <2>7 DEF Verifies
  <2>8. ASSUME NEW j \in jobs[n], Adds(n, j) PROVE Said(n)'
    BY Zenon, <2>4, <2>8 DEF Adds
  <2>9. ASSUME NEW j \in jobs[n], SetsAside(n, j) PROVE Said(n)'
    <3>1. j.pc = "delay"  BY Zenon, <2>9 DEF SetsAside
    <3>2. ~Own(j)  BY <3>1 DEF Own
    <3>. QED  BY Zenon, <2>3, <2>9, <3>2 DEF SetsAside
  <2>10. ASSUME NEW j \in jobs[n], Records(n, j) PROVE Said(n)'
    <3>1. j.pc = "record"  BY Zenon, <2>10 DEF Records
    <3>2. ~Own(j)  BY <3>1 DEF Own
    <3>. QED  BY Zenon, <2>3, <2>10, <3>2 DEF Records, Turns
  <2>11. ASSUME NEW j \in jobs[n], Relays(n, j) PROVE Said(n)'
    <3>1. j.pc = "relay"  BY Zenon, <2>11 DEF Relays
    <3>2. ~Own(j)  BY <3>1 DEF Own
    <3>. QED  BY Zenon, <2>3, <2>11, <3>2 DEF Relays
  <2>12. ASSUME Receives(n) PROVE Said(n)'
    BY Zenon, <2>3, <2>12 DEF Receives
  <2>13. ASSUME Resets(n) PROVE Said(n)'
    BY Zenon, <2>13 DEF Resets, Said
  <2>14. ASSUME NEW b, NEW N, NEW D, NEW R, Counts(n, b, N, D, R) PROVE Said(n)'
    <3>1. /\ jobs'[n] = (jobs[n] \ D) \cup R /\ known'[n] = known[n]
          /\ votes'[n] = votes[n] \cup N
          /\ \A j \in D : j.pc \in {"sign", "delay"}
          /\ \A j \in D : j.pc = "sign" =>
                \E v \in votes[n] \cup N : v.blink = j.blink /\ v.member = n
      BY Zenon, <2>14 DEF Counts
    <3>2. ASSUME NEW j \in D, Own(j) PROVE Speaks(j.blink)
      <4>1. j.pc = "sign"  BY <3>1, <3>2 DEF Own
      <4>. QED  BY Zenon, <3>1, <4>1 DEF Speaks
    <3>3. \A j \in jobs[n] : Own(j) => Speaks(j.blink)
      BY Zenon, <2>2, <3>1, <3>2
    <3>. QED  BY Zenon, <2>1, <3>1, <3>3
  <2>15. ASSUME NEW j \in jobs[n], Enters(n, j) PROVE Said(n)'
    BY Zenon, <2>4, <2>15 DEF Enters
  <2>. QED
    BY Zenon, <2>5, <2>6, <2>7, <2>8, <2>9, <2>10, <2>11, <2>12, <2>13, <2>14, <2>15
       DEF Steps
<1>. QED  BY Zenon, <1>2, <1>3, <1>4 DEF SaidInv

-----------------------------------------------------------------------------
(* What the nodes take for approved is.                                    *)

\* The jobs that will have the blink recorded as approved.
Approves(j) == j.pc \in {"record", "enter"} \/ (j.pc = "add" /\ j.ok)

Learns(n) ==
  /\ blinked[n] \subseteq ApprovedTx
  /\ \A j \in jobs[n] : Approves(j) => Approved(sent, j.blink)
  /\ \A m \in incoming[n] : m.approved => m.tx \in ApprovedTx

LearnInv == \A n \in Node : Learns(n)

(* A blink that is approved stays so.                                      *)
LEMMA ApprovedGrows ==
  ASSUME CountingLaws, SigInv, sent \subseteq sent'
  PROVE  /\ \A b : Approved(sent, b) => Approved(sent, b)'
         /\ ApprovedTx \subseteq ApprovedTx'
<1>1. ASSUME NEW b, Approved(sent, b) PROVE Approved(sent', b)
  <2>1. PICK m : SigOf(b, m, TRUE) \in sent
    BY Zenon, <1>1, HasApproval
  <2>2. SigOf(b, m, TRUE).blink = b  BY Zenon DEF SigOf
  <2>3. HasQuorums(b)
    BY Zenon, <2>1, <2>2 DEF SigInv, Acceptable
  <2>. QED  BY Zenon, <1>1, <2>3, Monotone
<1>2. \A b : Approved(sent, b)' <=> Approved(sent', b)
  BY Zenon DEF Approved, SigCount, Validators
<1>3. \A b : Approved(sent, b) => Approved(sent, b)'
  BY Zenon, <1>1, <1>2
<1>. QED  BY Zenon, <1>3 DEF ApprovedTx

LEMMA LearnInvStep ==
  ASSUME CountingLaws, Types, SigInv, LearnInv, NEW n \in Node, Steps(n)
  PROVE  LearnInv'
<1>1. Frame(n) /\ sent \subseteq sent'  BY Zenon, StepFrame
<1>2. /\ \A b : Approved(sent, b) => Approved(sent, b)'
      /\ ApprovedTx \subseteq ApprovedTx'
  BY Zenon, <1>1, ApprovedGrows
<1>3. ASSUME NEW m \in Node \ {n} PROVE Learns(m)'
  <2>1. /\ jobs'[m] = jobs[m] /\ blinked'[m] = blinked[m]
        /\ incoming'[m] = incoming[m] /\ Learns(m)
    BY Zenon, <1>1 DEF Frame, LearnInv
  <2>. QED  BY Zenon, <1>2, <2>1 DEF Learns, Approves
<1>4. Learns(n)'
  <2>0. /\ Learns(n) /\ votes[n] \subseteq sent
        /\ \A j \in jobs[n] : j.blink \in Blinks
    BY Zenon, JobFields DEF LearnInv, SigInv, Signatures, Types, Shape
  <2>. DEFINE Told(k) == Approves(k) => Approved(sent, k.blink)'
  <2>a. ASSUME blinked'[n] \subseteq blinked[n] \cup ApprovedTx',
               \A k \in jobs'[n] \ jobs[n] : Told(k),
               \A m \in incoming'[n] : m.approved => m.tx \in ApprovedTx'
        PROVE  Learns(n)'
    <3>1. \A k \in jobs[n] : Told(k)  BY Zenon, <1>2, <2>0 DEF Learns
    <3>2. \A k \in jobs'[n] : Told(k)  BY Zenon, <2>a, <3>1
    <3>3. blinked'[n] \subseteq ApprovedTx'
      BY Zenon, <1>2, <2>0, <2>a DEF Learns
    <3>. QED  BY Zenon, <2>a, <3>2, <3>3 DEF Learns, Approves
  <2>1. ASSUME blinked'[n] \subseteq blinked[n] \cup ApprovedTx',
               \A k \in jobs'[n] \ jobs[n] : Told(k),
               incoming'[n] = incoming[n]
        PROVE  Learns(n)'
    <3>1. \A m \in incoming'[n] : m.approved => m.tx \in ApprovedTx'
      BY Zenon, <1>2, <2>0, <2>1 DEF Learns
    <3>. QED  BY Zenon, <2>1, <2>a, <3>1
  <2>2. ASSUME NEW pc, NEW b, NEW S, NEW ok, pc \notin {"record", "enter", "add"}
        PROVE  Told(NewJob(pc, b, S, ok))
    <3>. DEFINE k == NewJob(pc, b, S, ok)
    <3>1. k.pc = pc  BY Zenon DEF NewJob
    <3>. HIDE DEF k
    <3>2. ~Approves(k)  BY Zenon, <2>2, <3>1 DEF Approves
    <3>. QED  BY Zenon, <3>2 DEF k
  <2>3. ASSUME NEW j \in jobs[n], Approves(j)
        PROVE  Approved(sent, j.blink) /\ j.blink.tx \in ApprovedTx'
    <3>1. Approved(sent, j.blink) /\ j.blink.tx \in ApprovedTx
      BY Zenon, <2>0, <2>3 DEF Learns, ApprovedTx
    <3>. QED  BY Zenon, <1>2, <3>1
  <2>. HIDE DEF Told
  <2>4. ASSUME NEW b \in Blinks, Stores(n, b) PROVE Learns(n)'
    <3>. DEFINE S == Mine(n, b)
    <3>1. jobs'[n] = jobs[n] \cup {NewJob("verify", b, S, FALSE)}
          /\ blinked'[n] = blinked[n] /\ incoming'[n] = incoming[n]
      BY Zenon, <2>4 DEF Stores
    <3>. HIDE DEF S
    <3>2. "verify" \notin {"record", "enter", "add"}  OBVIOUS
    <3>3. Told(NewJob("verify", b, S, FALSE))  BY Zenon, <2>2, <3>2
    <3>. QED  BY Zenon, <2>1, <3>1, <3>3
  <2>5. ASSUME NEW s \in sent, Waits(n, s) PROVE Learns(n)'
    <3>1. jobs'[n] = jobs[n] \cup {NewJob("delay", s.blink, {s}, FALSE)}
          /\ blinked'[n] = blinked[n] /\ incoming'[n] = incoming[n]
      BY Zenon, <2>5 DEF Waits
    <3>2. "delay" \notin {"record", "enter", "add"}  OBVIOUS
    <3>3. Told(NewJob("delay", s.blink, {s}, FALSE))  BY Zenon, <2>2, <3>2
    <3>. QED  BY Zenon, <2>1, <3>1, <3>3
  <2>6. ASSUME NEW j \in jobs[n], NEW pc, NEW ok, Turns(n, j, pc, ok),
               blinked'[n] \subseteq blinked[n] \cup ApprovedTx',
               Told(NewJob(pc, j.blink, j.sigs, ok))
        PROVE  Learns(n)'
    BY Zenon, <2>1, <2>6 DEF Turns
  <2>7. /\ "sign" \notin {"record", "enter", "add"}
        /\ "relay" \notin {"record", "enter", "add"}
    OBVIOUS
  <2>8. ASSUME NEW j \in jobs[n], Verifies(n, j) PROVE Learns(n)'
    <3>1. blinked'[n] = blinked[n] /\ j.pc = "verify"  BY Zenon, <2>8 DEF Verifies
    <3>2. CASE Turns(n, j, "sign", FALSE)
      BY Zenon, <2>2, <2>6, <2>7, <3>1, <3>2
    <3>3. ASSUME NEW ok \in BOOLEAN, ok <=> Approved(votes[n], j.blink),
                 Turns(n, j, "add", ok)
          PROVE  Learns(n)'
      <4>. DEFINE k == NewJob("add", j.blink, j.sigs, ok)
      <4>1. k.pc = "add" /\ k.ok = ok /\ k.blink = j.blink  BY Zenon DEF NewJob
      <4>2. HasQuorums(j.blink)
        <5>1. j.pc # "delay"  BY <3>1
        <5>. QED  BY Zenon, <5>1 DEF SigInv, Signatures, Acceptable
      <4>3. ok => Approved(sent, j.blink)'
        BY Zenon, <1>2, <2>0, <3>3, <4>2, Monotone
      <4>. HIDE DEF k
      <4>4. Told(k)
        <5>1. k.pc \notin {"record", "enter"}  BY <4>1
        <5>. QED  BY Zenon, <4>1, <4>3, <5>1 DEF Told, Approves
      <4>. QED  BY Zenon, <2>6, <3>1, <3>3, <4>4 DEF k
    <3>. QED  BY Zenon, <2>8, <3>2, <3>3 DEF Verifies
  <2>9. ASSUME NEW j \in jobs[n], Adds(n, j) PROVE Learns(n)'
    <3>1. blinked'[n] \subseteq blinked[n] \cup ApprovedTx'
      BY Zenon, <2>9 DEF Adds
    <3>2. ASSUME NEW ok, Turns(n, j, "sign", ok) PROVE Learns(n)'
      BY Zenon, <2>2, <2>6, <2>7, <3>1, <3>2
    <3>3. ASSUME j.ok, Turns(n, j, "enter", TRUE) PROVE Learns(n)'
      <4>. DEFINE k == NewJob("enter", j.blink, j.sigs, TRUE)
      <4>1. k.blink = j.blink  BY Zenon DEF NewJob
      <4>2. Approved(sent, j.blink)
        BY Zenon, <2>3, <2>9, <3>3 DEF Adds, Approves
      <4>3. Approved(sent, k.blink)'  BY Zenon, <1>2, <4>1, <4>2
      <4>. HIDE DEF k
      <4>4. Told(k)  BY Zenon, <4>3 DEF Told
      <4>. QED  BY Zenon, <2>6, <3>1, <3>3, <4>4 DEF k
    <3>. QED  BY Zenon, <2>9, <3>2, <3>3 DEF Adds
  <2>10. ASSUME NEW j \in jobs[n], SetsAside(n, j) PROVE Learns(n)'
    BY Zenon, <2>1, <2>10 DEF SetsAside
  <2>11. ASSUME NEW j \in jobs[n], Records(n, j) PROVE Learns(n)'
    <3>1. j.blink.tx \in ApprovedTx'
      BY Zenon, <2>3, <2>11 DEF Records, Approves
    <3>2. blinked'[n] \subseteq blinked[n] \cup ApprovedTx' /\ Turns(n, j, "relay", j.ok)
      BY Zenon, <2>11, <3>1 DEF Records
    <3>. QED  BY Zenon, <2>2, <2>6, <2>7, <3>2
  <2>12. ASSUME NEW j \in jobs[n], Relays(n, j) PROVE Learns(n)'
    BY Zenon, <2>1, <2>12 DEF Relays
  <2>13. ASSUME Receives(n) PROVE Learns(n)'
    <3>1. \A m \in incoming[n] : m.approved => m.tx \in ApprovedTx'
      BY Zenon, <1>2, <2>0 DEF Learns
    <3>2. \A k \in incoming'[n] : k.approved => k.tx \in ApprovedTx'
      BY Zenon, <1>2, <2>13, <3>1 DEF Receives
    <3>3. blinked'[n] \subseteq blinked[n] \cup ApprovedTx' /\ jobs'[n] = jobs[n]
      BY Zenon, <2>13, <3>1 DEF Receives
    <3>. QED  BY Zenon, <2>a, <3>2, <3>3
  <2>14. ASSUME Resets(n) PROVE Learns(n)'
    BY Zenon, <2>a, <2>14 DEF Resets
  <2>15. ASSUME NEW b, NEW N, NEW D, NEW R, Counts(n, b, N, D, R) PROVE Learns(n)'
    <3>1. /\ jobs'[n] = (jobs[n] \ D) \cup R /\ R \subseteq {RecordJob(b)}
          /\ b \in known[n] /\ sent' = sent \cup N /\ blinked'[n] = blinked[n]
          /\ incoming'[n] = incoming[n]
          /\ R # {} => Approved(votes[n] \cup N, b)
      BY Zenon, <2>15 DEF Counts
    <3>2. HasQuorums(b) /\ votes[n] \cup N \subseteq sent'
      BY Zenon, <2>0, <3>1 DEF SigInv, Signatures, Acceptable
    <3>3. R # {} => Approved(sent', b)
      BY Zenon, <3>1, <3>2, Monotone
    <3>4. RecordJob(b).blink = b  BY Zenon DEF RecordJob, NewJob
    <3>5. R # {} => Told(RecordJob(b))
      BY Zenon, <3>3, <3>4 DEF Told, Approved, SigCount, Validators
    <3>6. \A k \in jobs'[n] \ jobs[n] : Told(k)
      BY Zenon, <3>1, <3>5
    <3>. QED  BY Zenon, <2>1, <3>1, <3>6
  <2>17. ASSUME NEW j \in jobs[n], Enters(n, j) PROVE Learns(n)'
    <3>1. j.blink.tx \in ApprovedTx'
      BY Zenon, <2>3, <2>17 DEF Enters, Approves
    <3>2. blinked'[n] \subseteq blinked[n] \cup ApprovedTx' /\ Turns(n, j, "sign", j.ok)
      BY Zenon, <2>17, <3>1 DEF Enters
    <3>. QED  BY Zenon, <2>2, <2>6, <2>7, <3>2
  <2>. QED
    BY Zenon, <2>4, <2>5, <2>8, <2>9, <2>10, <2>11, <2>12, <2>13, <2>14, <2>15, <2>17
       DEF Steps
<1>. QED  BY Zenon, <1>3, <1>4 DEF LearnInv

-----------------------------------------------------------------------------
(* The invariant, and the step as one of BlinkConsensus.                   *)

Inv ==
  /\ Types /\ SigInv
  /\ FirstInv /\ RelayInv /\ OnceInv /\ SaidInv /\ LearnInv

OneTx == ApprovedTx \subseteq Tx /\ \A t, u \in ApprovedTx : t = u

(* A function that changes at one node only.                               *)
LEMMA ChangeAt ==
  ASSUME NEW f \in [Node -> SUBSET Tx], NEW g \in [Node -> SUBSET Tx], NEW n \in Node,
         \A m \in Node \ {n} : g[m] = f[m]
  PROVE  /\ g = [f EXCEPT ![n] = g[n]]
         /\ g[n] = f[n] => g = f
OBVIOUS

(* A step of a node changes m_blinks and the pool at that node.            *)
LEMMA PoolChange ==
  ASSUME Inv, Shape', NEW n \in Node, Frame(n)
  PROVE  /\ pool' = [pool EXCEPT ![n] = pool'[n]]
         /\ pool'[n] = pool[n] => pool' = pool
         /\ blinked' = [blinked EXCEPT ![n] = blinked'[n]]
         /\ blinked'[n] = blinked[n] => blinked' = blinked
<1>1. /\ pool \in [Node -> SUBSET Tx] /\ pool' \in [Node -> SUBSET Tx]
      /\ blinked \in [Node -> SUBSET Tx] /\ blinked' \in [Node -> SUBSET Tx]
  BY Zenon DEF Inv, Types, Shape
<1>2. \A m \in Node \ {n} : pool'[m] = pool[m]  BY Zenon DEF Frame
<1>3. \A m \in Node \ {n} : blinked'[m] = blinked[m]  BY Zenon DEF Frame
<1>4. /\ pool' = [pool EXCEPT ![n] = pool'[n]]
      /\ pool'[n] = pool[n] => pool' = pool
  BY <1>1, <1>2, ChangeAt
<1>5. /\ blinked' = [blinked EXCEPT ![n] = blinked'[n]]
      /\ blinked'[n] = blinked[n] => blinked' = blinked
  BY <1>1, <1>3, ChangeAt
<1>. QED  BY Zenon, <1>4, <1>5

(* The step that sends the last signature that was missing decides.        *)
LEMMA DecideStep ==
  ASSUME OneTx', ApprovedTx \subseteq ApprovedTx', pool' = pool, blinked' = blinked
  PROVE  [Consensus!Next]_(Consensus!vars)
<1>1. CASE ApprovedTx' = ApprovedTx
  BY Zenon, <1>1 DEF Consensus!vars
<1>2. CASE ApprovedTx' # ApprovedTx
  <2>1. PICK t : t \in ApprovedTx' /\ t \notin ApprovedTx
    BY Zenon, <1>2
  <2>2. t \in Tx /\ \A u \in ApprovedTx' : u = t
    BY Zenon, <2>1 DEF OneTx
  <2>3. ApprovedTx' = {t} /\ ApprovedTx = {}
    BY Zenon, <2>1, <2>2
  <2>4. Consensus!Decide(t)
    BY Zenon, <2>3 DEF Consensus!Decide
  <2>. QED  BY Zenon, <2>2, <2>4 DEF Consensus!Next
<1>. QED  BY Zenon, <1>1, <1>2

(* What the other steps do to m_blinks and the pool.                       *)
LEMMA PoolStep ==
  ASSUME Inv, OneTx, Shape', NEW n \in Node, Frame(n), sent' = sent,
         \/ pool'[n] = pool[n] /\ blinked'[n] = blinked[n]
         \/ pool'[n] = pool[n] /\ blinked'[n] = {}
         \/ /\ pool[n] = {} /\ blinked'[n] = blinked[n]
            /\ \E t \in Tx : pool'[n] = {t}
         \/ /\ blinked'[n] = blinked[n]
            /\ \E t \in ApprovedTx : pool'[n] = {t}
         \/ /\ pool'[n] = pool[n]
            /\ \E t \in ApprovedTx : blinked'[n] = blinked[n] \cup {t}
  PROVE  [Consensus!Next]_(Consensus!vars)
<1>1. ApprovedTx' = ApprovedTx
  BY Zenon DEF ApprovedTx
<1>2. /\ pool' = [pool EXCEPT ![n] = pool'[n]]
      /\ pool'[n] = pool[n] => pool' = pool
  BY Zenon, PoolChange
<1>3. /\ blinked' = [blinked EXCEPT ![n] = blinked'[n]]
      /\ blinked'[n] = blinked[n] => blinked' = blinked
  BY Zenon, PoolChange
<1>4. CASE pool'[n] = pool[n] /\ blinked'[n] = blinked[n]
  <2>1. pool' = pool /\ blinked' = blinked  BY Zenon, <1>2, <1>3, <1>4
  <2>. QED  BY Zenon, <1>1, <2>1 DEF Consensus!vars
<1>5. CASE pool'[n] = pool[n] /\ blinked'[n] = {}
  <2>1. pool' = pool /\ blinked' = [blinked EXCEPT ![n] = {}]
    BY Zenon, <1>2, <1>3, <1>5
  <2>2. Consensus!Forget(n)  BY Zenon, <1>1, <2>1 DEF Consensus!Forget
  <2>. QED  BY Zenon, <2>2 DEF Consensus!Next
<1>6. ASSUME pool[n] = {}, blinked'[n] = blinked[n], NEW t \in Tx, pool'[n] = {t}
      PROVE  Consensus!Next
  <2>1. pool' = [pool EXCEPT ![n] = {t}] /\ blinked' = blinked
    BY Zenon, <1>2, <1>3, <1>6
  <2>2. Consensus!Hold(n, t)  BY Zenon, <1>1, <1>6, <2>1 DEF Consensus!Hold
  <2>. QED  BY Zenon, <2>2 DEF Consensus!Next
<1>7. ASSUME NEW t \in ApprovedTx PROVE ApprovedTx = {t} /\ ApprovedTx # {}
  <2>1. \A u \in ApprovedTx : u = t  BY Zenon DEF OneTx
  <2>. QED  BY Zenon, <2>1
<1>8. ASSUME NEW t \in ApprovedTx, blinked'[n] = blinked[n], pool'[n] = {t}
      PROVE  Consensus!Next
  <2>1. pool' = [pool EXCEPT ![n] = ApprovedTx] /\ blinked' = blinked
    BY Zenon, <1>2, <1>3, <1>7, <1>8
  <2>2. Consensus!Adopt(n)
    BY Zenon, <1>1, <1>7, <2>1 DEF Consensus!Adopt
  <2>. QED  BY Zenon, <2>2 DEF Consensus!Next
<1>9. ASSUME NEW t \in ApprovedTx, blinked'[n] = blinked[n] \cup {t}, pool'[n] = pool[n]
      PROVE  Consensus!Next
  <2>1. blinked[n] \subseteq ApprovedTx  BY Zenon DEF Inv, LearnInv, Learns
  <2>2. blinked'[n] = ApprovedTx  BY Zenon, <1>7, <1>9, <2>1
  <2>3. blinked' = [blinked EXCEPT ![n] = ApprovedTx] /\ pool' = pool
    BY Zenon, <1>2, <1>3, <1>9, <2>2
  <2>4. Consensus!Learn(n)
    BY Zenon, <1>1, <1>7, <2>3 DEF Consensus!Learn
  <2>. QED  BY Zenon, <2>4 DEF Consensus!Next
<1>. QED  BY Zenon, <1>4, <1>5, <1>6, <1>8, <1>9

LEMMA ConsensusStep ==
  ASSUME CountingLaws, Inv, OneTx, OneTx', NEW n \in Node, Steps(n)
  PROVE  [Consensus!Next]_(Consensus!vars)
<1>1. Shape' /\ Frame(n) /\ sent \subseteq sent'  BY Zenon, StepFrame
<1>. DEFINE Goal == [Consensus!Next]_(Consensus!vars)
<1>2. ASSUME sent' = sent, pool'[n] = pool[n], blinked'[n] = blinked[n] PROVE Goal
  BY Zenon, <1>1, <1>2, PoolStep
<1>3. ASSUME NEW b, NEW N, NEW D, NEW R, Counts(n, b, N, D, R) PROVE Goal
  <2>1. pool'[n] = pool[n] /\ blinked'[n] = blinked[n]  BY Zenon, <1>3 DEF Counts
  <2>2. pool' = pool /\ blinked' = blinked  BY Zenon, <1>1, <2>1, PoolChange
  <2>3. ApprovedTx \subseteq ApprovedTx'  BY Zenon, <1>1, ApprovedGrows DEF Inv
  <2>. QED  BY Zenon, <2>2, <2>3, DecideStep
<1>4. ASSUME NEW b \in Blinks, Stores(n, b) PROVE Goal
  BY Zenon, <1>2, <1>4 DEF Stores
<1>5. ASSUME NEW s \in sent, Waits(n, s) PROVE Goal
  BY Zenon, <1>2, <1>5 DEF Waits
<1>6. ASSUME NEW j \in jobs[n], Verifies(n, j) PROVE Goal
  BY Zenon, <1>2, <1>6 DEF Verifies, Turns
<1>7. ASSUME NEW j \in jobs[n], Approves(j) PROVE j.blink.tx \in ApprovedTx
  <2>1. j.blink \in Blinks  BY Zenon, JobFields DEF Inv, Types, Shape
  <2>2. Approved(sent, j.blink)  BY Zenon, <1>7 DEF Inv, LearnInv, Learns
  <2>. QED  BY Zenon, <2>1, <2>2 DEF ApprovedTx
<1>8. ASSUME NEW j \in jobs[n], Adds(n, j) PROVE Goal
  <2>. DEFINE t == j.blink.tx
  <2>1. j \in Job /\ sent' = sent /\ j.pc = "add"
    BY Zenon, <1>8 DEF Adds, Turns, Inv, Types, Shape
  <2>2. t \in Tx
    <3>1. j.blink \in Blinks  BY Zenon, <2>1, JobFields
    <3>. QED  BY <3>1, InstanceAssumption
  <2>3. j.ok => t \in ApprovedTx  BY Zenon, <1>7, <2>1 DEF Approves
  <2>4. CASE pool'[n] = pool[n] /\ blinked'[n] = blinked[n]
    BY Zenon, <1>2, <2>1, <2>4
  <2>5. CASE pool[n] = {} /\ pool'[n] = {t} /\ blinked'[n] = blinked[n]
    BY Zenon, <1>1, <2>1, <2>2, <2>5, PoolStep
  <2>6. CASE j.ok /\ pool'[n] = {t} /\ blinked'[n] = blinked[n]
    BY Zenon, <1>1, <2>1, <2>3, <2>6, PoolStep
  <2>. QED  BY Zenon, <1>8, <2>4, <2>5, <2>6 DEF Adds, Puts
<1>9. ASSUME NEW j \in jobs[n], SetsAside(n, j) PROVE Goal
  BY Zenon, <1>2, <1>9 DEF SetsAside
<1>10. ASSUME NEW j \in jobs[n], Records(n, j) PROVE Goal
  <2>1. j.blink.tx \in ApprovedTx  BY Zenon, <1>7, <1>10 DEF Records, Approves
  <2>2. /\ sent' = sent /\ pool'[n] = pool[n]
        /\ blinked'[n] = blinked[n] \cup {j.blink.tx}
    BY Zenon, <1>10 DEF Records, Turns
  <2>. QED  BY Zenon, <1>1, <2>1, <2>2, PoolStep
<1>11. ASSUME NEW j \in jobs[n], Relays(n, j) PROVE Goal
  BY Zenon, <1>2, <1>11 DEF Relays
<1>12. ASSUME Receives(n) PROVE Goal
  <2>1. /\ sent' = sent
        /\ \A m \in incoming[n] : m.tx \in Tx /\ (m.approved => m.tx \in ApprovedTx)
    BY Zenon, <1>12, IncomingFields
       DEF Receives, Inv, Types, Shape, LearnInv, Learns
  <2>2. CASE pool'[n] = pool[n] /\ blinked'[n] = blinked[n]
    BY Zenon, <1>2, <2>1, <2>2
  <2>3. ASSUME NEW m \in incoming[n], Puts(n, m.tx, TRUE), blinked'[n] = blinked[n],
               pool[n] = {} \/ m.approved
        PROVE  Goal
    <3>1. pool'[n] = {m.tx}  BY Zenon, <2>3 DEF Puts
    <3>2. CASE pool[n] = {}  BY Zenon, <1>1, <2>1, <2>3, <3>1, <3>2, PoolStep
    <3>3. CASE m.approved  BY Zenon, <1>1, <2>1, <2>3, <3>1, <3>3, PoolStep
    <3>. QED  BY Zenon, <2>3, <3>2, <3>3
  <2>4. ASSUME NEW m \in incoming[n], m.approved, pool'[n] = pool[n],
               blinked'[n] = blinked[n] \cup {m.tx}
        PROVE  Goal
    BY Zenon, <1>1, <2>1, <2>4, PoolStep
  <2>. QED  BY Zenon, <1>12, <2>2, <2>3, <2>4 DEF Receives
<1>13. ASSUME Resets(n) PROVE Goal
  BY Zenon, <1>1, <1>13, PoolStep DEF Resets
<1>14. ASSUME NEW j \in jobs[n], Enters(n, j) PROVE Goal
  <2>1. j.blink.tx \in ApprovedTx  BY Zenon, <1>7, <1>14 DEF Enters, Approves
  <2>2. /\ sent' = sent /\ pool'[n] = pool[n]
        /\ blinked'[n] = blinked[n] \cup {j.blink.tx}
    BY Zenon, <1>14 DEF Enters, Turns
  <2>. QED  BY Zenon, <1>1, <2>1, <2>2, PoolStep
<1>. QED
  BY Zenon, <1>3, <1>4, <1>5, <1>6, <1>8, <1>9, <1>10, <1>11, <1>12, <1>13, <1>14
     DEF Steps

=============================================================================
