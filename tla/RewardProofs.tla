---------------------------- MODULE RewardProofs ----------------------------
(***************************************************************************)
(* Proofs about module Reward, for all registrations, tallies, reports of  *)
(* workload, shares of the pots and schedules of rounds: that a round      *)
(* gives out what it issues, that it issues what the time is worth, that   *)
(* its tasks transfer what it gives out; and, from these, the inductive    *)
(* invariant.                                                              *)
(***************************************************************************)
EXTENDS Reward, SumProofs

\* The registrations, the tallies and the workload a round is computed from.
IsNodes(nodes) ==
  DOMAIN nodes \subseteq Node /\ \A n \in DOMAIN nodes : nodes[n].deposit \in Nat /\ nodes[n].ratio \in 0 .. 100

IsTally(tk) ==
  /\ DOMAIN tk = Table
  /\ \A t \in Table : DOMAIN tk[t] \subseteq Node /\ \A n \in DOMAIN tk[t] : tk[t][n] \in Nat

IsGroups(w) == IsWork(w) /\ w = [g \in DOMAIN w |-> w[g]]

LEMMA NodesAreFinite ==
  ASSUME NEW nodes, IsNodes(nodes)
  PROVE  IsFiniteSet(DOMAIN nodes)
BY RewardAssumption, FS_Subset DEF IsNodes

LEMMA VotesType ==
  ASSUME NEW tk, IsTally(tk), NEW n
  PROVE  VotesOf(tk, n) \in Nat /\ \A t \in Table : AmountOf(tk[t], n) \in Nat
<1> DEFINE f == [t \in Table |-> AmountOf(tk[t], n)]
<1>1. \A t \in Table : AmountOf(tk[t], n) \in Nat
  BY DEF IsTally, AmountOf
<1>2. \A t \in Table : f[t] \in Nat
  BY <1>1
<1>3. SumFunctionOnSet(f, Table) \in Nat
  <2> HIDE DEF f
  <2> QED BY <1>2, RewardAssumption, SumOfNats
<1>4. VotesOf(tk, n) = SumFunctionOnSet(f, Table)
  BY DEF VotesOf, SumOver, IsTally
<1> QED BY <1>1, <1>3, <1>4

-----------------------------------------------------------------------------
(***************************************************************************)
(* The pots.                                                               *)
(***************************************************************************)
LEMMA PotType ==
  ASSUME NEW total \in Nat, NEW pot \in Pot
  PROVE  PotOf(pot, total) \in Nat
<1>1. Ratio[pot] \in Nat
  BY RewardAssumption
<1>2. total * Ratio[pot] \in Nat
  BY <1>1
<1> QED BY <1>2, DivFacts DEF PotOf

LEMMA PotIsFinite == IsFiniteSet(Pot)
<1>1. IsFiniteSet({"edge"})
  BY FS_Singleton
<1>2. IsFiniteSet({"edge"} \cup {"archive"} \cup {"auditor"} \cup {"validator"} \cup {"vote"}
                    \cup {"governance"})
  BY <1>1, FS_AddElement
<1>3. Pot = {"edge"} \cup {"archive"} \cup {"auditor"} \cup {"validator"} \cup {"vote"}
              \cup {"governance"}
  BY DEF Pot
<1> QED BY <1>2, <1>3

\* All of an issuance is in the pots, but for a fraction in each.
LEMMA PotsMakeTheWhole ==
  ASSUME NEW total \in Nat
  PROVE  LET all == PotOf("edge", total) + PotOf("archive", total) + PotOf("auditor", total)
                      + PotOf("validator", total) + PotOf("vote", total) + PotOf("governance", total)
         IN  all <= total /\ total <= all + Cardinality(Pot)
<1> DEFINE f == [p \in Pot |-> PotOf(p, total)]
           r == [p \in Pot |-> Ratio[p]]
           P1 == {"edge"}
           P2 == P1 \cup {"archive"}
           P3 == P2 \cup {"auditor"}
           P4 == P3 \cup {"validator"}
           P5 == P4 \cup {"vote"}
           P6 == P5 \cup {"governance"}
           s(S) == SumFunctionOnSet(f, S)
<1>1. Pot = P6
  BY DEF Pot
<1>2. IsFiniteSet(P1) /\ s(P1) = f["edge"]
  <2>1. IsFiniteSet(P1)
    BY FS_Singleton
  <2>2. "edge" \in P1 /\ f["edge"] \in Int /\ \A y \in P1 \ {"edge"} : f[y] = 0
    BY PotType DEF Pot
  <2> HIDE DEF f, P1
  <2>3. s(P1) = f["edge"]
    BY <2>1, <2>2, SumOfOne
  <2> QED BY <2>1, <2>3
<1>3. \A p \in P6 : f[p] \in Int
  BY <1>1, PotType
<1>4. IsFiniteSet(P2) /\ s(P2) = s(P1) + f["archive"]
  <2>1. "archive" \notin P1 /\ \A y \in P1 \cup {"archive"} : f[y] \in Int
    BY <1>3
  <2> HIDE DEF f, P1
  <2> QED BY <1>2, <2>1, FS_AddElement, SumAdd
<1>5. IsFiniteSet(P3) /\ s(P3) = s(P2) + f["auditor"]
  <2>1. "auditor" \notin P2 /\ \A y \in P2 \cup {"auditor"} : f[y] \in Int
    BY <1>3
  <2> HIDE DEF f, P2
  <2> QED BY <1>4, <2>1, FS_AddElement, SumAdd
<1>6. IsFiniteSet(P4) /\ s(P4) = s(P3) + f["validator"]
  <2>1. "validator" \notin P3 /\ \A y \in P3 \cup {"validator"} : f[y] \in Int
    BY <1>3
  <2> HIDE DEF f, P3
  <2> QED BY <1>5, <2>1, FS_AddElement, SumAdd
<1>7. IsFiniteSet(P5) /\ s(P5) = s(P4) + f["vote"]
  <2>1. "vote" \notin P4 /\ \A y \in P4 \cup {"vote"} : f[y] \in Int
    BY <1>3
  <2> HIDE DEF f, P4
  <2> QED BY <1>6, <2>1, FS_AddElement, SumAdd
<1>8. IsFiniteSet(P6) /\ s(P6) = s(P5) + f["governance"]
  <2>1. "governance" \notin P5 /\ \A y \in P5 \cup {"governance"} : f[y] \in Int
    BY <1>3
  <2> HIDE DEF f, P5
  <2> QED BY <1>7, <2>1, FS_AddElement, SumAdd
<1>9. s(P6) <= total /\ total <= s(P6) + Cardinality(P6)
  <2> DEFINE whole == SumFunctionOnSet(r, P6)
  <2>1. \A p \in P6 : r[p] \in Nat
    BY <1>1, RewardAssumption
  <2>2. whole = 100
    <3>1. DOMAIN Ratio = P6
      BY <1>1, RewardAssumption
    <3>2. [p \in DOMAIN Ratio |-> Ratio[p]] = r
      BY <1>1, <3>1
    <3> HIDE DEF P6, r
    <3> QED BY <3>1, <3>2, RatioAssumption DEF Total, SumOver
  <2>3. \A p \in P6 : f[p] = (total * r[p]) \div 100
    BY <1>1 DEF PotOf
  <2>4. \A p \in P6 : f[p] = (total * r[p]) \div whole
    <3> HIDE DEF f, r, P6, whole
    <3> QED BY <2>2, <2>3
  <2> HIDE DEF f, r, P6
  <2> QED BY <1>8, <2>1, <2>2, <2>4, SharesOfWhole
<1>10. s(P6) = f["edge"] + f["archive"] + f["auditor"] + f["validator"] + f["vote"] + f["governance"]
  <2>1. /\ f["edge"] \in Int /\ f["archive"] \in Int /\ f["auditor"] \in Int
        /\ f["validator"] \in Int /\ f["vote"] \in Int /\ f["governance"] \in Int
    BY <1>3
  <2> HIDE DEF f, s, P1, P2, P3, P4, P5, P6
  <2> QED BY <1>2, <1>4, <1>5, <1>6, <1>7, <1>8, <2>1
<1>11. /\ f["edge"] = PotOf("edge", total) /\ f["archive"] = PotOf("archive", total)
       /\ f["auditor"] = PotOf("auditor", total) /\ f["validator"] = PotOf("validator", total)
       /\ f["vote"] = PotOf("vote", total) /\ f["governance"] = PotOf("governance", total)
  BY <1>1
<1> HIDE DEF f, s, P6
<1> QED BY <1>1, <1>9, <1>10, <1>11

\* What nobody has a claim to.
Unclaimed(role, pot, nodes, tk, total) ==
  IF ValidNodes(role, nodes, tk) = {} THEN PotOf(pot, total) ELSE 0

LEMMA ValidAreNodes ==
  ASSUME NEW nodes, IsNodes(nodes), NEW tk, NEW role
  PROVE  /\ ValidNodes(role, nodes, tk) \subseteq DOMAIN nodes
         /\ IsFiniteSet(ValidNodes(role, nodes, tk))
         /\ Cardinality(ValidNodes(role, nodes, tk)) \in Nat
         /\ Cardinality(ValidNodes(role, nodes, tk)) <= Cardinality(DOMAIN nodes)
         /\ \A n : n \in ValidNodes(role, nodes, tk) <=> Valid(role, nodes, tk, n)
<1> DEFINE V == ValidNodes(role, nodes, tk)
<1>1. V \subseteq DOMAIN nodes /\ \A n : n \in V <=> Valid(role, nodes, tk, n)
  BY DEF ValidNodes, Valid
<1> HIDE DEF V
<1>2. IsFiniteSet(V) /\ Cardinality(V) <= Cardinality(DOMAIN nodes) /\ Cardinality(V) \in Nat
  BY <1>1, NodesAreFinite, FS_Subset, FS_CardinalityType
<1> QED BY <1>1, <1>2 DEF V

\* Edge and archive nodes share their pots evenly.
LEMMA SharedPot ==
  ASSUME NEW nodes, IsNodes(nodes), NEW tk, NEW total \in Nat, NEW role \in {"edge", "archive"},
         NEW f, \A n \in DOMAIN nodes : f[n] = SharedReward(role, nodes, tk, total, n)
  PROVE  LET given == SumFunctionOnSet(f, DOMAIN nodes) + Unclaimed(role, role, nodes, tk, total)
         IN  /\ \A n \in DOMAIN nodes : f[n] \in Nat
             /\ given <= PotOf(role, total)
             /\ PotOf(role, total) <= given + Cardinality(DOMAIN nodes)
<1> DEFINE D == DOMAIN nodes
           V == ValidNodes(role, nodes, tk)
           P == PotOf(role, total)
           k == Cardinality(V)
           one == [n \in V |-> 1]
           h == [n \in V |-> P \div k]
           F == SumFunctionOnSet(f, D)
<1>1. P \in Nat
  BY PotType DEF Pot
<1>2. /\ V \subseteq D /\ IsFiniteSet(V) /\ k \in Nat /\ k <= Cardinality(D)
      /\ \A n : n \in V <=> Valid(role, nodes, tk, n)
  BY ValidAreNodes
<1>3. IsFiniteSet(D) /\ Cardinality(D) \in Nat
  BY NodesAreFinite, FS_CardinalityType
<1>4. \A n \in D : f[n] = IF n \in V THEN h[n] ELSE 0
  BY <1>2 DEF SharedReward
<1>5. \A n \in V : h[n] = P \div k /\ one[n] = 1
  OBVIOUS
<1>6. Unclaimed(role, role, nodes, tk, total) = IF V = {} THEN P ELSE 0
  BY DEF Unclaimed
<1> SUFFICES /\ \A n \in D : f[n] \in Nat
             /\ F + (IF V = {} THEN P ELSE 0) <= P
             /\ P <= F + (IF V = {} THEN P ELSE 0) + Cardinality(D)
  BY <1>6
<1> HIDE DEF D, V, P, k, one, h
<1>7. CASE V = {}
  <2>1. \A n \in D : f[n] = 0
    BY <1>4, <1>7
  <2>2. F = 0
    BY <1>3, <2>1, SumOfZeros
  <2> HIDE DEF F
  <2> QED BY <1>1, <1>3, <1>7, <2>1, <2>2
<1>8. CASE V # {}
  <2>1. k = SumFunctionOnSet(one, V) /\ k # 0
    BY <1>2, <1>5, <1>8, SumOfOnes, FS_EmptySet DEF k
  <2>2. \A n \in V : one[n] \in Nat /\ h[n] = (P * one[n]) \div k
    BY <1>1, <1>5
  <2>3. /\ \A n \in V : h[n] \in Nat
        /\ SumFunctionOnSet(h, V) \in Nat
        /\ SumFunctionOnSet(h, V) <= P
        /\ P <= SumFunctionOnSet(h, V) + Cardinality(V)
    BY <1>1, <1>2, <2>1, <2>2, SharesOfWhole
  <2>4. F = SumFunctionOnSet(h, V)
    <3>1. \A n \in V : h[n] \in Int
      BY <2>3
    <3> QED BY <1>2, <1>3, <1>4, <3>1, SumWithin
  <2>5. \A n \in D : f[n] \in Nat
    BY <1>4, <2>3
  <2>6. Cardinality(V) = k
    BY DEF k
  <2> HIDE DEF F
  <2> QED BY <1>1, <1>2, <1>3, <1>8, <2>3, <2>4, <2>5, <2>6
<1> QED BY <1>7, <1>8

\* Auditors share the pot of the votes by their votes; a valid one has some.
LEMMA VotePot ==
  ASSUME NEW nodes, IsNodes(nodes), NEW tk, IsTally(tk), NEW total \in Nat,
         NEW f, \A n \in DOMAIN nodes : f[n] = VoteReward(nodes, tk, total, n)
  PROVE  LET given == SumFunctionOnSet(f, DOMAIN nodes) + Unclaimed("auditor", "vote", nodes, tk, total)
         IN  /\ \A n \in DOMAIN nodes : f[n] \in Nat
             /\ given <= PotOf("vote", total)
             /\ PotOf("vote", total) <= given + Cardinality(DOMAIN nodes)
<1> DEFINE D == DOMAIN nodes
           V == ValidNodes("auditor", nodes, tk)
           P == PotOf("vote", total)
           v == [n \in V |-> VotesOf(tk, n)]
           all == SumFunctionOnSet(v, V)
           h == [n \in V |-> (P * v[n]) \div all]
           F == SumFunctionOnSet(f, D)
<1>1. P \in Nat
  BY PotType DEF Pot
<1>2. /\ V \subseteq D /\ IsFiniteSet(V) /\ Cardinality(V) \in Nat /\ Cardinality(V) <= Cardinality(D)
      /\ \A n : n \in V <=> Valid("auditor", nodes, tk, n)
  BY ValidAreNodes
<1>3. IsFiniteSet(D) /\ Cardinality(D) \in Nat
  BY NodesAreFinite, FS_CardinalityType
<1>4. \A n \in V : v[n] \in Nat /\ v[n] # 0
  <2> SUFFICES ASSUME NEW n \in V PROVE v[n] \in Nat /\ v[n] # 0
    OBVIOUS
  <2>1. VotesOf(tk, n) \in Nat
    BY VotesType
  <2>2. nodes[n].deposit > 0 /\ VotesOf(tk, n) >= nodes[n].deposit /\ nodes[n].deposit \in Nat
    BY <1>2 DEF Valid, can_be_auditor, IsNodes
  <2>3. v[n] = VotesOf(tk, n)
    OBVIOUS
  <2> HIDE DEF v
  <2> QED BY <2>1, <2>2, <2>3
<1>5. V # {} => all > 0 /\ all # 0
  <2> HIDE DEF v, V
  <2> QED BY <1>2, <1>4, SumOfNats
<1>6. \A n \in D : f[n] = IF n \in V THEN h[n] ELSE 0
  <2>1. all = SumOver(V, LAMBDA k : VotesOf(tk, k))
    BY DEF SumOver
  <2>2. \A n \in D : f[n] = IF n \in V /\ all > 0 THEN (P * VotesOf(tk, n)) \div all ELSE 0
    BY <2>1 DEF VoteReward
  <2>3. \A n \in V : h[n] = (P * VotesOf(tk, n)) \div all
    OBVIOUS
  <2> HIDE DEF all, V, h
  <2> QED BY <1>5, <2>2, <2>3
<1>7. Unclaimed("auditor", "vote", nodes, tk, total) = IF V = {} THEN P ELSE 0
  BY DEF Unclaimed
<1> SUFFICES /\ \A n \in D : f[n] \in Nat
             /\ F + (IF V = {} THEN P ELSE 0) <= P
             /\ P <= F + (IF V = {} THEN P ELSE 0) + Cardinality(D)
  BY <1>7
<1>8. \A n \in V : h[n] = (P * v[n]) \div all
  OBVIOUS
<1> HIDE DEF D, V, P, v, h
<1>9. CASE V = {}
  <2>1. \A n \in D : f[n] = 0
    BY <1>6, <1>9
  <2>2. F = 0
    BY <1>3, <2>1, SumOfZeros
  <2> HIDE DEF F
  <2> QED BY <1>1, <1>3, <1>9, <2>1, <2>2
<1>10. CASE V # {}
  <2>1. all # 0
    BY <1>5, <1>10
  <2>2. /\ \A n \in V : h[n] \in Nat
        /\ SumFunctionOnSet(h, V) \in Nat
        /\ SumFunctionOnSet(h, V) <= P
        /\ P <= SumFunctionOnSet(h, V) + Cardinality(V)
    BY <1>1, <1>2, <1>4, <1>8, <2>1, SharesOfWhole
  <2>3. F = SumFunctionOnSet(h, V)
    <3>1. \A n \in V : h[n] \in Int
      BY <2>2
    <3> QED BY <1>2, <1>3, <1>6, <3>1, SumWithin
  <2>4. \A n \in D : f[n] \in Nat
    BY <1>6, <2>2
  <2> HIDE DEF F
  <2> QED BY <1>1, <1>2, <1>3, <1>10, <2>2, <2>3, <2>4
<1> QED BY <1>9, <1>10

-----------------------------------------------------------------------------
(***************************************************************************)
(* The pots of auditors and validators, shared by groups and then by work. *)
(***************************************************************************)
LEMMA ValidWorkFacts ==
  ASSUME NEW role \in GroupRole, NEW nodes, IsNodes(nodes), NEW tk, NEW w, IsWork(w),
         NEW valid, valid = ValidWork(role, nodes, tk, w), NEW g \in DOMAIN w
  PROVE  /\ DOMAIN valid[g] \subseteq DOMAIN w[g] /\ DOMAIN valid[g] \subseteq DOMAIN nodes
         /\ IsFiniteSet(DOMAIN valid[g])
         /\ Cardinality(DOMAIN valid[g]) \in Nat
         /\ Cardinality(DOMAIN valid[g]) <= Cardinality(DOMAIN w[g])
         /\ Cardinality(DOMAIN w[g]) \in Nat
         /\ \A n \in DOMAIN valid[g] : valid[g][n] \in Nat
         /\ Total(valid[g]) = SumFunctionOnSet(valid[g], DOMAIN valid[g])
<1> DEFINE K == {k \in DOMAIN w[g] : Valid(role, nodes, tk, k)}
<1>1. valid[g] = [n \in K |-> w[g][n]]
  BY DEF ValidWork
<1>2. DOMAIN valid[g] = K /\ K \subseteq DOMAIN w[g] /\ K \subseteq DOMAIN nodes
  BY <1>1 DEF Valid
<1>3. IsFiniteSet(DOMAIN w[g])
  BY RewardAssumption, FS_Subset DEF IsWork
<1>4. IsFiniteSet(K) /\ Cardinality(K) <= Cardinality(DOMAIN w[g])
      /\ Cardinality(K) \in Nat /\ Cardinality(DOMAIN w[g]) \in Nat
  BY <1>2, <1>3, FS_Subset, FS_CardinalityType
<1>5. \A n \in K : valid[g][n] \in Nat
  BY <1>1 DEF IsWork
<1>6. Total(valid[g]) = SumFunctionOnSet(valid[g], DOMAIN valid[g])
  <2>1. [n \in DOMAIN valid[g] |-> valid[g][n]] = valid[g]
    BY <1>1
  <2> QED BY <2>1 DEF Total, SumOver
<1> HIDE DEF K
<1> QED BY <1>2, <1>4, <1>5, <1>6

\* What a group's leaders get of the group's part.
LEMMA GroupShares ==
  ASSUME NEW role \in GroupRole, NEW nodes, IsNodes(nodes), NEW tk, NEW w, IsWork(w),
         NEW valid, valid = ValidWork(role, nodes, tk, w),
         NEW g \in DOMAIN w \ Idle(role, valid, w), NEW part \in Nat,
         NEW c, \A n \in DOMAIN nodes :
                  c[n] = IF n \in DOMAIN valid[g]
                           THEN (part * valid[g][n]) \div Total(valid[g]) ELSE 0
  PROVE  /\ \A n \in DOMAIN nodes : c[n] \in Nat
         /\ SumFunctionOnSet(c, DOMAIN nodes) \in Nat
         /\ SumFunctionOnSet(c, DOMAIN nodes) <= part
         /\ part <= SumFunctionOnSet(c, DOMAIN nodes) + Cardinality(DOMAIN w[g])
<1> DEFINE D == DOMAIN nodes
           K == DOMAIN valid[g]
           all == Total(valid[g])
           h == [n \in K |-> (part * valid[g][n]) \div all]
<1>1. /\ K \subseteq D /\ IsFiniteSet(K) /\ Cardinality(K) \in Nat
      /\ Cardinality(K) <= Cardinality(DOMAIN w[g]) /\ Cardinality(DOMAIN w[g]) \in Nat
      /\ \A n \in K : valid[g][n] \in Nat
      /\ all = SumFunctionOnSet(valid[g], K)
  BY ValidWorkFacts
<1>2. IsFiniteSet(D)
  BY NodesAreFinite
<1>3. all # 0
  <2>1. ~ (all <= ZeroWorkload[role]) /\ ZeroWorkload[role] \in Nat
    BY RewardAssumption DEF Idle
  <2>2. all \in Nat
    <3> HIDE DEF all, K
    <3> QED BY <1>1, SumOfNats
  <2> HIDE DEF all
  <2> QED BY <2>1, <2>2
<1>4. \A n \in K : h[n] = (part * valid[g][n]) \div all
  OBVIOUS
<1>5. \A n \in D : c[n] = IF n \in K THEN h[n] ELSE 0
  OBVIOUS
<1> HIDE DEF D, K, all, h
<1>6. /\ \A n \in K : h[n] \in Nat
      /\ SumFunctionOnSet(h, K) \in Nat
      /\ SumFunctionOnSet(h, K) <= part
      /\ part <= SumFunctionOnSet(h, K) + Cardinality(K)
  BY <1>1, <1>3, <1>4, SharesOfWhole
<1>7. SumFunctionOnSet(c, D) = SumFunctionOnSet(h, K)
  <2>1. \A n \in K : h[n] \in Int
    BY <1>6
  <2> QED BY <1>1, <1>2, <1>5, <2>1, SumWithin
<1>8. \A n \in D : c[n] \in Nat
  BY <1>5, <1>6
<1> QED BY <1>1, <1>6, <1>7, <1>8 DEF D

\* The leaders of all groups.
Leaders(w) == SumOver(DOMAIN w, LAMBDA g : Cardinality(DOMAIN w[g]))

LEMMA LeadersType ==
  ASSUME NEW w, IsWork(w)
  PROVE  /\ Leaders(w) \in Nat
         /\ Leaders(w) = SumFunctionOnSet([g \in DOMAIN w |-> Cardinality(DOMAIN w[g])], DOMAIN w)
         /\ \A g \in DOMAIN w : Cardinality(DOMAIN w[g]) \in Nat
<1> DEFINE f == [g \in DOMAIN w |-> Cardinality(DOMAIN w[g])]
<1>1. \A g \in DOMAIN w : Cardinality(DOMAIN w[g]) \in Nat
  BY RewardAssumption, FS_Subset, FS_CardinalityType DEF IsWork
<1>2. IsFiniteSet(DOMAIN w) /\ \A g \in DOMAIN w : f[g] \in Nat
  BY <1>1 DEF IsWork
<1>3. SumFunctionOnSet(f, DOMAIN w) \in Nat
  <2> HIDE DEF f
  <2> QED BY <1>2, SumOfNats
<1> QED BY <1>1, <1>3 DEF Leaders, SumOver

\* Who worked and for whom: the sum by nodes is the sum by groups.
LEMMA WorkByGroups ==
  ASSUME NEW role \in GroupRole, NEW nodes, IsNodes(nodes), NEW tk, NEW w, IsWork(w),
         NEW total \in Nat, NEW part \in Nat, part = GroupPot(role, w, total),
         NEW A, A = DOMAIN w \ Idle(role, ValidWork(role, nodes, tk, w), w),
         NEW f, \A n \in DOMAIN nodes : f[n] = WorkReward(role, nodes, tk, w, total, n)
  PROVE  LET sum == SumFunctionOnSet(f, DOMAIN nodes)
         IN  /\ \A n \in DOMAIN nodes : f[n] \in Nat
             /\ sum \in Nat
             /\ sum <= part * Cardinality(A)
             /\ part * Cardinality(A) <= sum + Leaders(w)
<1> DEFINE D == DOMAIN nodes
           G == DOMAIN w
           valid == ValidWork(role, nodes, tk, w)
           share(n, g) == (part * valid[g][n]) \div Total(valid[g])
           cell(n, g) == IF n \in DOMAIN valid[g] THEN share(n, g) ELSE 0
           rows == [n \in D |-> [g \in A |-> cell(n, g)]]
           columns == [g \in A |-> [n \in D |-> cell(n, g)]]
           c == [g \in A |-> SumFunctionOnSet(columns[g], D)]
           l == [g \in G |-> Cardinality(DOMAIN w[g])]
           parts == [g \in A |-> part]
           above == [g \in A |-> c[g] + l[g]]
           k == Cardinality(A)
<1>1. IsFiniteSet(D) /\ IsFiniteSet(G) /\ A \subseteq G /\ IsFiniteSet(A) /\ k \in Nat
  BY NodesAreFinite, FS_Subset, FS_CardinalityType DEF IsWork
<1>2. \A g \in A : /\ \A n \in D : columns[g][n] = cell(n, g)
                   /\ c[g] = SumFunctionOnSet(columns[g], D)
                   /\ parts[g] = part /\ above[g] = c[g] + l[g]
  OBVIOUS
<1>3. \A g \in A : /\ \A n \in D : cell(n, g) \in Nat
                   /\ c[g] \in Nat
                   /\ c[g] <= part /\ part <= c[g] + l[g] /\ l[g] \in Nat
  <2> SUFFICES ASSUME NEW g \in A
               PROVE  /\ \A n \in D : cell(n, g) \in Nat
                      /\ c[g] \in Nat
                      /\ c[g] <= part /\ part <= c[g] + l[g] /\ l[g] \in Nat
    OBVIOUS
  <2> DEFINE q == columns[g]
  <2>1. \A n \in D : q[n] = IF n \in DOMAIN valid[g]
                              THEN (part * valid[g][n]) \div Total(valid[g]) ELSE 0
    OBVIOUS
  <2>2. g \in G \ Idle(role, valid, w)
    OBVIOUS
  <2>3. /\ \A n \in D : q[n] \in Nat
        /\ SumFunctionOnSet(q, D) \in Nat
        /\ SumFunctionOnSet(q, D) <= part
        /\ part <= SumFunctionOnSet(q, D) + Cardinality(DOMAIN w[g])
    <3> HIDE DEF q
    <3> QED BY <2>1, <2>2, GroupShares
  <2>4. l[g] = Cardinality(DOMAIN w[g]) /\ l[g] \in Nat
    BY <2>2, LeadersType
  <2>5. \A n \in D : q[n] = cell(n, g)
    OBVIOUS
  <2>6. c[g] = SumFunctionOnSet(q, D)
    OBVIOUS
  <2> HIDE DEF q, c, l, cell
  <2> QED BY <2>3, <2>4, <2>5, <2>6
<1>4. \A n \in D : /\ f[n] = SumFunctionOnSet(rows[n], A)
                   /\ \A g \in A : rows[n][g] = cell(n, g)
  <2> SUFFICES ASSUME NEW n \in D PROVE f[n] = SumFunctionOnSet(rows[n], A)
    OBVIOUS
  <2> DEFINE L == {g \in A : n \in DOMAIN valid[g]}
             h == [g \in L |-> share(n, g)]
             r == rows[n]
  <2>1. f[n] = SumFunctionOnSet(h, L)
    <3>1. f[n] = WorkReward(role, nodes, tk, w, total, n)
      OBVIOUS
    <3> QED BY <3>1 DEF WorkReward, SumOver
  <2>2. \A g \in A : r[g] = IF g \in L THEN h[g] ELSE 0
    OBVIOUS
  <2>3. L \in SUBSET A /\ \A g \in L : h[g] = cell(n, g)
    OBVIOUS
  <2>4. \A g \in L : h[g] \in Int
    <3> SUFFICES ASSUME NEW g \in L PROVE h[g] \in Int
      OBVIOUS
    <3>1. g \in A /\ h[g] = cell(n, g)
      BY <2>3
    <3>2. cell(n, g) \in Nat
      <4> HIDE DEF cell, c, l, D
      <4> QED BY <1>3, <3>1
    <3> HIDE DEF cell, h
    <3> QED BY <3>1, <3>2
  <2>5. SumFunctionOnSet(r, A) = SumFunctionOnSet(h, L)
    <3>1. IsFiniteSet(A) /\ L \in SUBSET A
      BY <1>1, <2>3
    <3> HIDE DEF r, h, L
    <3> QED BY ONLY <3>1, <2>2, <2>4, SumWithin
  <2> QED BY <2>1, <2>5
<1>5. AreColumns(columns, rows, D, A)
  <2> HIDE DEF cell, rows, columns
  <2> QED BY <1>2, <1>3, <1>4 DEF AreColumns
<1>6. SumFunctionOnSet(f, D) = SumFunctionOnSet(c, A)
  <2>1. /\ IsFiniteSet(D) /\ IsFiniteSet(A)
        /\ \A n \in D : f[n] = SumFunctionOnSet(rows[n], A)
        /\ \A g \in A : c[g] = SumFunctionOnSet(columns[g], D)
    BY <1>1, <1>2, <1>4
  <2> HIDE DEF rows, columns, c, D
  <2> QED BY ONLY <2>1, <1>5, SumSwap
<1>7. \A n \in D : f[n] \in Nat
  <2> SUFFICES ASSUME NEW n \in D PROVE f[n] \in Nat
    OBVIOUS
  <2> DEFINE r == rows[n]
  <2>1. f[n] = SumFunctionOnSet(r, A) /\ \A g \in A : r[g] \in Nat
    BY <1>3, <1>4
  <2> HIDE DEF r
  <2> QED BY <1>1, <2>1, SumOfNats
<1>8. Leaders(w) = SumFunctionOnSet(l, G)
  BY LeadersType
<1>9. \A g \in G : l[g] \in Nat
  BY LeadersType
<1> HIDE DEF D, G, valid, rows, columns, c, l, parts, above, cell
<1>10. SumFunctionOnSet(c, A) \in Nat
  BY <1>1, <1>3, SumOfNats
<1>11. SumFunctionOnSet(parts, A) = part * k
  <2> DEFINE one == [g \in A |-> 1]
  <2>1. \A g \in A : one[g] = 1
    OBVIOUS
  <2> HIDE DEF one
  <2>2. SumFunctionOnSet(one, A) = k
    BY <1>1, <2>1, SumOfOnes DEF k
  <2>3. \A g \in A : one[g] \in Int /\ parts[g] = part * one[g]
    BY <1>2, <2>1
  <2>4. part \in Int
    OBVIOUS
  <2>5. SumFunctionOnSet(parts, A) = part * SumFunctionOnSet(one, A)
    BY ONLY <1>1, <2>3, <2>4, SumTimes
  <2> QED BY <2>2, <2>5
<1>12. SumFunctionOnSet(c, A) <= SumFunctionOnSet(parts, A)
  <2>1. \A g \in A : c[g] \in Int /\ parts[g] \in Int /\ c[g] <= parts[g]
    BY <1>2, <1>3
  <2> QED BY <1>1, <2>1, SumMonotone
<1>13. SumFunctionOnSet(parts, A) <= SumFunctionOnSet(above, A)
  <2>1. \A g \in A : above[g] \in Int /\ parts[g] \in Int /\ parts[g] <= above[g]
    BY <1>2, <1>3
  <2> QED BY <1>1, <2>1, SumMonotone
<1>14. SumFunctionOnSet(above, A) = SumFunctionOnSet(c, A) + SumFunctionOnSet(l, A)
  <2>1. \A g \in A : c[g] \in Int /\ l[g] \in Int /\ above[g] = c[g] + l[g]
    BY <1>2, <1>3
  <2> QED BY <1>1, <2>1, SumPlus
<1>15. SumFunctionOnSet(l, A) \in Nat /\ SumFunctionOnSet(l, A) <= SumFunctionOnSet(l, G)
  <2>1. IsFiniteSet(G \ A) /\ G = A \cup (G \ A) /\ A \cap (G \ A) = {}
    BY <1>1, FS_Subset
  <2>2. SumFunctionOnSet(l, A) \in Nat /\ SumFunctionOnSet(l, G \ A) \in Nat
    BY <1>1, <1>9, <2>1, SumOfNats
  <2>3. SumFunctionOnSet(l, A \cup (G \ A)) = SumFunctionOnSet(l, A) + SumFunctionOnSet(l, G \ A)
    <3>1. \A g \in A \cup (G \ A) : l[g] \in Int
      BY <1>9, <2>1
    <3> QED BY <1>1, <2>1, <3>1, SumUnion
  <2>4. SumFunctionOnSet(l, G) = SumFunctionOnSet(l, A) + SumFunctionOnSet(l, G \ A)
    BY <2>1, <2>3, Zenon
  <2> QED BY <2>2, <2>4
<1> HIDE DEF k
<1>16. SumFunctionOnSet(c, A) <= part * k /\ part * k <= SumFunctionOnSet(c, A) + Leaders(w)
  <2>1. part * k \in Int /\ SumFunctionOnSet(l, G) \in Int
    BY <1>1, <1>9, SumOfNats
  <2> QED BY <1>8, <1>10, <1>11, <1>12, <1>13, <1>14, <1>15, <2>1
<1> QED BY <1>6, <1>7, <1>10, <1>16 DEF D, k

LEMMA EvenParts ==
  ASSUME NEW P \in Nat, NEW n \in Nat, n # 0
  PROVE  P \div n \in Nat /\ (P \div n) * n <= P /\ P <= (P \div n) * n + n
<1> DEFINE q == P \div n
           r == P % n
<1>1. q \in Nat /\ r \in 0 .. n - 1 /\ P = n * q + r
  BY DivFacts
<1> HIDE DEF q, r
<1>2. n * q = q * n /\ q * n \in Nat
  BY <1>1
<1>3. q * n <= P /\ P <= q * n + n
  BY <1>1, <1>2
<1> QED BY <1>1, <1>3 DEF q

\* A pot shared by groups; the parts of idle ones go to the community.
LEMMA WorkPot ==
  ASSUME NEW role \in GroupRole, NEW nodes, IsNodes(nodes), NEW tk, NEW w, IsGroups(w),
         NEW total \in Nat,
         NEW idle, idle = GroupPot(role, w, total)
                            * Cardinality(Idle(role, ValidWork(role, nodes, tk, w), w)),
         NEW f, \A n \in DOMAIN nodes : f[n] = WorkReward(role, nodes, tk, w, total, n)
  PROVE  LET given == SumFunctionOnSet(f, DOMAIN nodes) + idle
         IN  /\ \A n \in DOMAIN nodes : f[n] \in Nat
             /\ idle \in Nat
             /\ given <= PotOf(role, total)
             /\ PotOf(role, total)
                  <= given + Cardinality(DOMAIN w) + Leaders(w)
                       + (IF w = << >> THEN PotOf(role, total) ELSE 0)
             /\ Cardinality(DOMAIN w) \in Nat /\ Leaders(w) \in Nat
<1> DEFINE D == DOMAIN nodes
           G == DOMAIN w
           I == Idle(role, ValidWork(role, nodes, tk, w), w)
           A == G \ I
           P == PotOf(role, total)
           part == GroupPot(role, w, total)
           sum == SumFunctionOnSet(f, D)
           a == Cardinality(A)
           i == Cardinality(I)
           n == Cardinality(G)
<1>1. IsWork(w) /\ IsFiniteSet(G) /\ I \subseteq G
  BY DEF IsGroups, IsWork, Idle
<1>2. a \in Nat /\ i \in Nat /\ n \in Nat /\ n = a + i
  <2>1. IsFiniteSet(A) /\ IsFiniteSet(I)
    BY <1>1, FS_Subset
  <2>2. A \cup I = G /\ A \cap I = {}
    BY <1>1
  <2> HIDE DEF A, I, G
  <2>3. Cardinality(A \cup I) = Cardinality(A) + Cardinality(I) - Cardinality(A \cap I)
    BY <2>1, FS_Union
  <2>4. Cardinality(A \cap I) = 0
    BY <2>2, FS_EmptySet
  <2>5. Cardinality(A \cup I) = Cardinality(G)
    BY <2>2
  <2>6. Cardinality(A) \in Nat /\ Cardinality(I) \in Nat /\ Cardinality(G) \in Nat
    BY <1>1, <2>1, FS_CardinalityType
  <2> QED BY <2>3, <2>4, <2>5, <2>6
<1>3. P \in Nat
  BY PotType DEF GroupRole, Pot
<1>4. w = << >> <=> n = 0
  <2>1. w = << >> => G = {}
    OBVIOUS
  <2>2. G = {} => w = << >>
    BY DEF IsGroups
  <2>3. n = 0 <=> G = {}
    BY <1>1, FS_EmptySet
  <2> QED BY <2>1, <2>2, <2>3
<1>5. part = IF w = << >> THEN 0 ELSE P \div n
  BY DEF GroupPot
<1>6. part \in Nat /\ part * n <= P /\ (w # << >> => P <= part * n + n)
  <2> HIDE DEF part, n, P
  <2>1. CASE n = 0
    <3>1. part = 0 /\ part * n = 0
      BY <1>4, <1>5, <2>1
    <3> QED BY <1>3, <1>4, <2>1, <3>1
  <2>2. CASE n # 0
    <3>1. part = P \div n
      BY <1>4, <1>5, <2>2
    <3>2. P \div n \in Nat /\ (P \div n) * n <= P /\ P <= (P \div n) * n + n
      BY <1>2, <1>3, <2>2, EvenParts
    <3> QED BY <3>1, <3>2
  <2> QED BY <2>1, <2>2
<1>7. /\ \A k \in D : f[k] \in Nat
      /\ sum \in Nat
      /\ sum <= part * a
      /\ part * a <= sum + Leaders(w)
  <2> HIDE DEF part, A, D
  <2>1. part = GroupPot(role, w, total)
    BY DEF part
  <2> QED BY <1>1, <1>6, <2>1, WorkByGroups DEF A, D
<1>8. idle = part * i
  OBVIOUS
<1>9. Leaders(w) \in Nat
  BY <1>1, LeadersType
<1>10. \A k \in D : f[k] \in Nat
  BY <1>7
<1> SUFFICES /\ idle \in Nat /\ sum + idle <= P
             /\ P <= sum + idle + n + Leaders(w) + (IF w = << >> THEN P ELSE 0)
  BY <1>2, <1>9, <1>10
<1> HIDE DEF part, a, i, n, sum, P
<1>11. part * n = part * a + part * i /\ part * a \in Nat /\ part * i \in Nat
  BY <1>2, <1>6
<1>12. idle \in Nat /\ sum + idle <= P
  BY <1>2, <1>3, <1>6, <1>7, <1>8, <1>11
<1>13. CASE w = << >>
  BY <1>2, <1>3, <1>7, <1>9, <1>12, <1>13
<1>14. CASE w # << >>
  <2>1. P <= part * n + n
    BY <1>6, <1>14
  <2>2. P <= sum + idle + n + Leaders(w)
    BY <1>2, <1>3, <1>7, <1>8, <1>9, <1>11, <2>1
  <2>3. sum \in Nat
    BY <1>7
  <2> QED BY <1>2, <1>9, <1>12, <1>14, <2>2, <2>3
<1> QED BY <1>13, <1>14

-----------------------------------------------------------------------------
(***************************************************************************)
(* What a round gives out.                                                 *)
(***************************************************************************)
LEMMA RolesSum ==
  ASSUME NEW f, f["auditor"] \in Int, f["validator"] \in Int
  PROVE  SumFunctionOnSet(f, GroupRole) = f["auditor"] + f["validator"]
<1> DEFINE A == {"auditor"}
<1>1. IsFiniteSet(A)
  BY FS_Singleton
<1>2. "auditor" \in A /\ "validator" \notin A /\ \A y \in A \ {"auditor"} : f[y] = 0
  OBVIOUS
<1>3. \A y \in A \cup {"validator"} : f[y] \in Int
  OBVIOUS
<1>4. GroupRole = A \cup {"validator"}
  BY DEF GroupRole
<1> HIDE DEF A
<1>5. SumFunctionOnSet(f, A) = f["auditor"]
  BY <1>1, <1>2, SumOfOne
<1>6. SumFunctionOnSet(f, A \cup {"validator"}) = SumFunctionOnSet(f, A) + f["validator"]
  BY <1>1, <1>2, <1>3, SumAdd
<1> QED BY <1>4, <1>5, <1>6

\* The fractions that may be lost.
Divisions(D, w) ==
  Cardinality(Pot) + 3 * Cardinality(D)
    + (Cardinality(DOMAIN w.auditor) + Leaders(w.auditor))
    + (Cardinality(DOMAIN w.validator) + Leaders(w.validator))

Unled(role, w, total) == IF w[role] = << >> THEN PotOf(role, total) ELSE 0

IsWorkload(w) == DOMAIN w = GroupRole /\ \A role \in GroupRole : IsGroups(w[role])

LEMMA RoundGives ==
  ASSUME NEW nodes, IsNodes(nodes), NEW tk, IsTally(tk), NEW w, IsWorkload(w), NEW total \in Nat,
         NEW earned, \A n \in DOMAIN nodes : earned[n] = Earned(nodes, tk, w, total, n),
         NEW community, community = CommunityReward(nodes, tk, w, total)
  PROVE  LET spent == SumFunctionOnSet(earned, DOMAIN nodes) + community
             unled == Unled("auditor", w, total) + Unled("validator", w, total)
         IN  /\ \A n \in DOMAIN nodes : earned[n] \in Nat
             /\ SumFunctionOnSet(earned, DOMAIN nodes) \in Nat
             /\ community \in Nat
             /\ spent <= total
             /\ total - spent - unled <= Divisions(DOMAIN nodes, w)
<1> DEFINE D == DOMAIN nodes
           d == Cardinality(D)
           edge == [n \in D |-> SharedReward("edge", nodes, tk, total, n)]
           archive == [n \in D |-> SharedReward("archive", nodes, tk, total, n)]
           auditor == [n \in D |-> WorkReward("auditor", nodes, tk, w.auditor, total, n)]
           validator == [n \in D |-> WorkReward("validator", nodes, tk, w.validator, total, n)]
           vote == [n \in D |-> VoteReward(nodes, tk, total, n)]
           sum(f) == SumFunctionOnSet(f, D)
           idleOf(role) == GroupPot(role, w[role], total)
                             * Cardinality(Idle(role, ValidWork(role, nodes, tk, w[role]), w[role]))
           idle == [role \in GroupRole |-> idleOf(role)]
           u1 == Unclaimed("edge", "edge", nodes, tk, total)
           u2 == Unclaimed("archive", "archive", nodes, tk, total)
           u3 == Unclaimed("auditor", "vote", nodes, tk, total)
           pEdge == PotOf("edge", total)
           pArchive == PotOf("archive", total)
           pAuditor == PotOf("auditor", total)
           pValidator == PotOf("validator", total)
           pVote == PotOf("vote", total)
           pGovernance == PotOf("governance", total)
<1>1. IsFiniteSet(D) /\ d \in Nat
  BY NodesAreFinite, FS_CardinalityType
<1>2. /\ pEdge \in Nat /\ pArchive \in Nat /\ pAuditor \in Nat
      /\ pValidator \in Nat /\ pVote \in Nat /\ pGovernance \in Nat
  BY PotType DEF Pot
<1>3. LET all == pEdge + pArchive + pAuditor + pValidator + pVote + pGovernance
      IN  all <= total /\ total <= all + Cardinality(Pot)
  BY PotsMakeTheWhole
<1>4. /\ \A n \in D : edge[n] \in Nat
      /\ sum(edge) + u1 <= pEdge /\ pEdge <= sum(edge) + u1 + d
  <2>1. \A n \in D : edge[n] = SharedReward("edge", nodes, tk, total, n)
    OBVIOUS
  <2> HIDE DEF edge
  <2> QED BY <2>1, SharedPot
<1>5. /\ \A n \in D : archive[n] \in Nat
      /\ sum(archive) + u2 <= pArchive /\ pArchive <= sum(archive) + u2 + d
  <2>1. \A n \in D : archive[n] = SharedReward("archive", nodes, tk, total, n)
    OBVIOUS
  <2> HIDE DEF archive
  <2> QED BY <2>1, SharedPot
<1>6. /\ \A n \in D : vote[n] \in Nat
      /\ sum(vote) + u3 <= pVote /\ pVote <= sum(vote) + u3 + d
  <2>1. \A n \in D : vote[n] = VoteReward(nodes, tk, total, n)
    OBVIOUS
  <2> HIDE DEF vote
  <2> QED BY <2>1, VotePot
<1>7. /\ \A n \in D : auditor[n] \in Nat
      /\ idleOf("auditor") \in Nat
      /\ sum(auditor) + idleOf("auditor") <= pAuditor
      /\ pAuditor <= sum(auditor) + idleOf("auditor") + Cardinality(DOMAIN w.auditor) + Leaders(w.auditor)
               + Unled("auditor", w, total)
      /\ Cardinality(DOMAIN w.auditor) \in Nat /\ Leaders(w.auditor) \in Nat
  <2>1. \A n \in D : auditor[n] = WorkReward("auditor", nodes, tk, w.auditor, total, n)
    OBVIOUS
  <2>2. "auditor" \in GroupRole /\ IsGroups(w.auditor)
    BY DEF GroupRole, IsWorkload
  <2>3. idleOf("auditor") = GroupPot("auditor", w.auditor, total)
          * Cardinality(Idle("auditor", ValidWork("auditor", nodes, tk, w.auditor), w.auditor))
    OBVIOUS
  <2>4. Unled("auditor", w, total) = IF w.auditor = << >> THEN PotOf("auditor", total) ELSE 0
    BY DEF Unled
  <2> HIDE DEF auditor, idleOf
  <2> QED BY <2>1, <2>2, <2>3, <2>4, WorkPot
<1>8. /\ \A n \in D : validator[n] \in Nat
      /\ idleOf("validator") \in Nat
      /\ sum(validator) + idleOf("validator") <= pValidator
      /\ pValidator <= sum(validator) + idleOf("validator") + Cardinality(DOMAIN w.validator) + Leaders(w.validator)
               + Unled("validator", w, total)
      /\ Cardinality(DOMAIN w.validator) \in Nat /\ Leaders(w.validator) \in Nat
  <2>1. \A n \in D : validator[n] = WorkReward("validator", nodes, tk, w.validator, total, n)
    OBVIOUS
  <2>2. "validator" \in GroupRole /\ IsGroups(w.validator)
    BY DEF GroupRole, IsWorkload
  <2>3. idleOf("validator") = GroupPot("validator", w.validator, total)
          * Cardinality(Idle("validator", ValidWork("validator", nodes, tk, w.validator), w.validator))
    OBVIOUS
  <2>4. Unled("validator", w, total) = IF w.validator = << >> THEN PotOf("validator", total) ELSE 0
    BY DEF Unled
  <2> HIDE DEF validator, idleOf
  <2> QED BY <2>1, <2>2, <2>3, <2>4, WorkPot
<1>9. \A n \in D : earned[n] = edge[n] + archive[n] + auditor[n] + validator[n] + vote[n]
  BY DEF Earned
<1>10. community = pGovernance + (u1 + u2 + u3) + (idleOf("auditor") + idleOf("validator"))
  <2>1. SumFunctionOnSet(idle, GroupRole) = idleOf("auditor") + idleOf("validator")
    <3>1. idle["auditor"] = idleOf("auditor") /\ idle["validator"] = idleOf("validator")
      BY DEF GroupRole
    <3> HIDE DEF idle, idleOf
    <3> QED BY <1>7, <1>8, <3>1, RolesSum
  <2>2. UnclaimedPots(nodes, tk, total) = u1 + u2 + u3
    BY DEF UnclaimedPots, Unclaimed
  <2>3. community = pGovernance + UnclaimedPots(nodes, tk, total) + SumFunctionOnSet(idle, GroupRole)
    BY DEF CommunityReward, SumOver
  <2> HIDE DEF idle, idleOf, u1, u2, u3, pGovernance
  <2> QED BY <2>1, <2>2, <2>3
<1>11. u1 \in Nat /\ u2 \in Nat /\ u3 \in Nat
  BY <1>2 DEF Unclaimed
<1>12. Unled("auditor", w, total) \in Nat /\ Unled("validator", w, total) \in Nat
  BY <1>2 DEF Unled
<1> HIDE DEF D, edge, archive, auditor, validator, vote, idle, idleOf, u1, u2, u3,
             pEdge, pArchive, pAuditor, pValidator, pVote, pGovernance
<1>13. \A n \in D : earned[n] \in Nat
  <2> SUFFICES ASSUME NEW n \in D PROVE earned[n] \in Nat
    OBVIOUS
  <2>1. /\ edge[n] \in Nat /\ archive[n] \in Nat /\ auditor[n] \in Nat
        /\ validator[n] \in Nat /\ vote[n] \in Nat
    BY <1>4, <1>5, <1>6, <1>7, <1>8
  <2>2. earned[n] = edge[n] + archive[n] + auditor[n] + validator[n] + vote[n]
    BY <1>9
  <2> QED BY ONLY <2>1, <2>2
<1>14. /\ sum(edge) \in Nat /\ sum(archive) \in Nat /\ sum(auditor) \in Nat
       /\ sum(validator) \in Nat /\ sum(vote) \in Nat /\ sum(earned) \in Nat
  BY <1>1, <1>4, <1>5, <1>6, <1>7, <1>8, <1>13, SumOfNats
<1>15. sum(earned) = sum(edge) + sum(archive) + sum(auditor) + sum(validator) + sum(vote)
  <2> DEFINE f2 == [n \in D |-> edge[n] + archive[n]]
             f3 == [n \in D |-> f2[n] + auditor[n]]
             f4 == [n \in D |-> f3[n] + validator[n]]
  <2>1. \A n \in D : f2[n] = edge[n] + archive[n] /\ f3[n] = f2[n] + auditor[n]
                     /\ f4[n] = f3[n] + validator[n]
    OBVIOUS
  <2> HIDE DEF f2, f3, f4
  <2>2. \A n \in D : edge[n] \in Int /\ archive[n] \in Int /\ f2[n] = edge[n] + archive[n]
    BY <1>4, <1>5, <2>1
  <2>3. \A n \in D : f2[n] \in Int /\ auditor[n] \in Int /\ f3[n] = f2[n] + auditor[n]
    BY <1>7, <2>1, <2>2
  <2>4. \A n \in D : f3[n] \in Int /\ validator[n] \in Int /\ f4[n] = f3[n] + validator[n]
    BY <1>8, <2>1, <2>3
  <2>5. \A n \in D : f4[n] \in Int /\ vote[n] \in Int /\ earned[n] = f4[n] + vote[n]
    BY <1>6, <1>9, <2>1, <2>2, <2>3, <2>4
  <2>6. sum(f2) = sum(edge) + sum(archive)
    BY ONLY <1>1, <2>2, SumPlus
  <2>7. sum(f3) = sum(f2) + sum(auditor)
    BY ONLY <1>1, <2>3, SumPlus
  <2>8. sum(f4) = sum(f3) + sum(validator)
    BY ONLY <1>1, <2>4, SumPlus
  <2>9. sum(earned) = sum(f4) + sum(vote)
    BY ONLY <1>1, <2>5, SumPlus
  <2> HIDE DEF sum
  <2> QED BY <2>6, <2>7, <2>8, <2>9
<1>16. Divisions(D, w) = Cardinality(Pot) + 3 * d
         + (Cardinality(DOMAIN w.auditor) + Leaders(w.auditor))
         + (Cardinality(DOMAIN w.validator) + Leaders(w.validator))
  BY DEF Divisions
<1> HIDE DEF sum, d
<1>17. community \in Nat
  BY <1>2, <1>7, <1>8, <1>10, <1>11
<1>18. /\ sum(edge) + u1 <= pEdge /\ pEdge <= sum(edge) + u1 + d
       /\ sum(archive) + u2 <= pArchive /\ pArchive <= sum(archive) + u2 + d
       /\ sum(vote) + u3 <= pVote /\ pVote <= sum(vote) + u3 + d
       /\ sum(auditor) + idleOf("auditor") <= pAuditor
       /\ pAuditor <= sum(auditor) + idleOf("auditor") + Cardinality(DOMAIN w.auditor) + Leaders(w.auditor)
                        + Unled("auditor", w, total)
       /\ sum(validator) + idleOf("validator") <= pValidator
       /\ pValidator <= sum(validator) + idleOf("validator") + Cardinality(DOMAIN w.validator)
                          + Leaders(w.validator) + Unled("validator", w, total)
       /\ Cardinality(DOMAIN w.auditor) \in Nat /\ Leaders(w.auditor) \in Nat
       /\ Cardinality(DOMAIN w.validator) \in Nat /\ Leaders(w.validator) \in Nat
       /\ idleOf("auditor") \in Nat /\ idleOf("validator") \in Nat
  BY <1>4, <1>5, <1>6, <1>7, <1>8
<1>19. Cardinality(Pot) \in Int
  BY PotIsFinite, FS_CardinalityType
<1>20. sum(earned) + community <= total
  BY ONLY <1>2, <1>3, <1>10, <1>11, <1>14, <1>15, <1>18, total \in Nat
<1>21. total - (sum(earned) + community) - (Unled("auditor", w, total) + Unled("validator", w, total))
         <= Divisions(D, w)
  BY ONLY <1>1, <1>2, <1>3, <1>10, <1>11, <1>12, <1>14, <1>15, <1>16, <1>18, <1>19, total \in Nat
<1> QED BY <1>13, <1>14, <1>17, <1>20, <1>21 DEF sum, D

-----------------------------------------------------------------------------
(***************************************************************************)
(* What a round issues: years and their reserves.                          *)
(***************************************************************************)
LEMMA YearFacts ==
  ASSUME NEW h \in Nat
  PROVE  /\ YearOf(h) \in Nat
         /\ h % ClocksPerYear \in 0 .. ClocksPerYear - 1
         /\ h = ClocksPerYear * YearOf(h) + (h % ClocksPerYear)
         /\ ClocksPerYear * YearOf(h) \in Nat
         /\ ClocksPerYear * YearOf(h) <= h
         /\ h < ClocksPerYear * YearOf(h) + ClocksPerYear
<1> DEFINE y == YearOf(h)
           r == h % ClocksPerYear
<1>1. ClocksPerYear \in Nat \ {0}
  BY RewardAssumption
<1>2. y = h \div ClocksPerYear
  BY DEF YearOf
<1>3. y \in Nat /\ r \in 0 .. ClocksPerYear - 1 /\ h = ClocksPerYear * y + r
  BY <1>1, <1>2, DivFacts
<1> HIDE DEF y, r
<1>4. ClocksPerYear * y \in Nat
  BY <1>1, <1>3
<1>5. ClocksPerYear * y <= h /\ h < ClocksPerYear * y + ClocksPerYear
  BY <1>1, <1>3, <1>4
<1> QED BY <1>3, <1>4, <1>5 DEF y, r

LEMMA YearsPass ==
  ASSUME NEW h \in Nat, NEW l \in Nat, l <= h
  PROVE  YearOf(h) - YearOf(l) \in Nat
<1> DEFINE y == YearOf(h)
           x == YearOf(l)
           c == ClocksPerYear
<1>1. c \in Nat \ {0}
  BY RewardAssumption
<1>2. y \in Nat /\ c * y \in Nat /\ h < c * y + c
  BY YearFacts
<1>3. x \in Nat /\ c * x <= l
  BY YearFacts
<1> SUFFICES ASSUME y + 1 <= x PROVE FALSE
  BY <1>2, <1>3
<1> HIDE DEF x, y, c
<1>4. c * (y + 1) <= c * x
  BY <1>1, <1>2, <1>3, Products
<1>5. c * (y + 1) = c * y + c
  BY <1>1, <1>2
<1>6. c * x \in Nat
  BY <1>1, <1>3
<1> QED BY <1>1, <1>2, <1>3, <1>4, <1>5, <1>6

LEMMA ReserveType ==
  ASSUME NEW until \in Nat
  PROVE  get_reserve_reward(until) \in Nat
<1> DEFINE p == (TotalReserve - until) * IssuanceRate
           share == p \div 100
<1>1. {TotalReserve, MinimumIssuance, IssuanceRate} \subseteq Nat
  BY RewardAssumption
<1>2. TotalReserve > until => share \in Nat
  <2> SUFFICES ASSUME TotalReserve > until PROVE share \in Nat
    OBVIOUS
  <2>1. TotalReserve - until \in Nat
    BY <1>1
  <2>2. p \in Nat
    BY <1>1, <2>1
  <2> HIDE DEF p
  <2> QED BY <2>2
<1>3. get_reserve_reward(until) = IF TotalReserve > until /\ share > MinimumIssuance
                                    THEN share ELSE MinimumIssuance
  BY DEF get_reserve_reward
<1> HIDE DEF share
<1> QED BY <1>1, <1>2, <1>3

NextYear(y, clocks) ==
  [until |-> y.until + get_reserve_reward(y.until),
   issuance |-> y.issuance + (get_reserve_reward(y.until) * clocks) \div ClocksPerYear]

LEMMA NextYearFields ==
  ASSUME NEW y, NEW clocks
  PROVE  /\ NextYear(y, clocks).until = y.until + get_reserve_reward(y.until)
         /\ NextYear(y, clocks).issuance
              = y.issuance + (get_reserve_reward(y.until) * clocks) \div ClocksPerYear
<1> DEFINE a == y.until + get_reserve_reward(y.until)
           b == y.issuance + (get_reserve_reward(y.until) * clocks) \div ClocksPerYear
<1>1. NextYear(y, clocks) = [until |-> a, issuance |-> b]
  BY DEF NextYear
<1> HIDE DEF a, b
<1>2. NextYear(y, clocks).until = a /\ NextYear(y, clocks).issuance = b
  BY <1>1
<1> QED BY <1>2 DEF a, b

ClocksOf(last, k) == IF k = 1 THEN ClocksPerYear - (last % ClocksPerYear) ELSE ClocksPerYear

LEMMA ClocksType ==
  ASSUME NEW last \in Nat, NEW k
  PROVE  ClocksOf(last, k) \in Nat
<1>1. last % ClocksPerYear \in 0 .. ClocksPerYear - 1 /\ ClocksPerYear \in Nat \ {0}
  BY YearFacts, RewardAssumption
<1> QED BY <1>1 DEF ClocksOf

\* e: what the first k years that ended since the last issuance add.
IsYears(e, rec, n) ==
  e = [k \in 0 .. n |->
         IF k = 0 THEN [until |-> rec.issued_until_last_year_end, issuance |-> 0]
                  ELSE NextYear(e[k - 1], ClocksOf(rec.last_issuance_time, k))]

LEMMA YearsExist ==
  ASSUME NEW rec, NEW n \in Nat
  PROVE  \E e : IsYears(e, rec, n)
<1> DEFINE P == {m \in Nat : \E e : IsYears(e, rec, m)}
<1>1. 0 \in P
  <2> DEFINE e == [k \in 0 .. 0 |-> [until |-> rec.issued_until_last_year_end, issuance |-> 0]]
  <2>1. IsYears(e, rec, 0)
    BY DEF IsYears
  <2> QED BY <2>1
<1>2. ASSUME NEW m \in Nat, m \in P
      PROVE  m + 1 \in P
  <2>1. PICK e : IsYears(e, rec, m)
    BY <1>2
  <2>2. e = [k \in 0 .. m |->
               IF k = 0 THEN [until |-> rec.issued_until_last_year_end, issuance |-> 0]
                        ELSE NextYear(e[k - 1], ClocksOf(rec.last_issuance_time, k))]
    BY <2>1 DEF IsYears
  <2> DEFINE f == [k \in 0 .. m + 1 |->
                     IF k <= m THEN e[k]
                               ELSE NextYear(e[m], ClocksOf(rec.last_issuance_time, k))]
  <2>3. \A k \in 0 .. m + 1 :
          f[k] = IF k = 0 THEN [until |-> rec.issued_until_last_year_end, issuance |-> 0]
                          ELSE NextYear(f[k - 1], ClocksOf(rec.last_issuance_time, k))
    <3> SUFFICES ASSUME NEW k \in 0 .. m + 1
                 PROVE  f[k] = IF k = 0 THEN [until |-> rec.issued_until_last_year_end, issuance |-> 0]
                                 ELSE NextYear(f[k - 1], ClocksOf(rec.last_issuance_time, k))
      OBVIOUS
    <3>1. CASE k = 0
      BY <2>2, <3>1
    <3>2. CASE k \in 1 .. m
      <4>1. k - 1 \in 0 .. m + 1 /\ k - 1 <= m /\ k <= m /\ k # 0 /\ k \in 0 .. m
        BY <3>2
      <4>2. f[k] = e[k] /\ f[k - 1] = e[k - 1]
        BY <4>1
      <4>3. e[k] = NextYear(e[k - 1], ClocksOf(rec.last_issuance_time, k))
        BY <2>2, <4>1
      <4> HIDE DEF f
      <4> QED BY <4>1, <4>2, <4>3
    <3>3. CASE k = m + 1
      <4>1. ~ (k <= m) /\ k - 1 = m /\ m \in 0 .. m + 1 /\ m <= m /\ k # 0
        BY <3>3
      <4>2. f[k] = NextYear(e[m], ClocksOf(rec.last_issuance_time, k)) /\ f[m] = e[m]
        BY <4>1
      <4> HIDE DEF f
      <4> QED BY <4>1, <4>2
    <3> QED BY <3>1, <3>2, <3>3
  <2>4. f = [k \in 0 .. m + 1 |-> f[k]]
    OBVIOUS
  <2>5. IsYears(f, rec, m + 1)
    <3> HIDE DEF f
    <3> QED BY <2>3, <2>4 DEF IsYears
  <2> QED BY <2>5
<1> HIDE DEF P
<1>3. Nat \subseteq P
  BY <1>1, <1>2, CountingUp
<1> QED BY <1>3 DEF P

\* What YearsEnded computes.
LEMMA YearsAre ==
  ASSUME NEW rec, NEW h, YearOf(h) - YearOf(rec.last_issuance_time) \in Nat
  PROVE  \E e : /\ IsYears(e, rec, YearOf(h) - YearOf(rec.last_issuance_time))
                /\ YearsEnded(rec, h) = e[YearOf(h) - YearOf(rec.last_issuance_time)]
<1> DEFINE n == YearOf(h) - YearOf(rec.last_issuance_time)
           f == CHOOSE e : IsYears(e, rec, n)
<1>1. \E e : IsYears(e, rec, n)
  BY YearsExist
<1>2. IsYears(f, rec, n)
  BY <1>1
<1>3. YearsEnded(rec, h) = f[n]
  BY DEF YearsEnded, IsYears, NextYear, ClocksOf
<1> QED BY <1>2, <1>3

LEMMA YearsType ==
  ASSUME NEW rec, rec.issued_until_last_year_end \in Nat, rec.last_issuance_time \in Nat,
         NEW n \in Nat, NEW e, IsYears(e, rec, n)
  PROVE  /\ e[0] = [until |-> rec.issued_until_last_year_end, issuance |-> 0]
         /\ \A k \in 0 .. n : e[k].until \in Nat /\ e[k].issuance \in Nat
         /\ \A k \in 0 .. n - 1 :
              /\ e[k + 1].until = e[k].until + get_reserve_reward(e[k].until)
              /\ e[k + 1].issuance
                   = e[k].issuance + (get_reserve_reward(e[k].until)
                                        * ClocksOf(rec.last_issuance_time, k + 1)) \div ClocksPerYear
<1> DEFINE last == rec.last_issuance_time
           P == {k \in Nat : k <= n => e[k].until \in Nat /\ e[k].issuance \in Nat}
<1>1. /\ e[0] = [until |-> rec.issued_until_last_year_end, issuance |-> 0]
      /\ \A k \in 0 .. n - 1 : e[k + 1] = NextYear(e[k], ClocksOf(last, k + 1))
  <2>1. \A k \in 0 .. n : e[k] = IF k = 0
                                   THEN [until |-> rec.issued_until_last_year_end, issuance |-> 0]
                                   ELSE NextYear(e[k - 1], ClocksOf(last, k))
    BY DEF IsYears
  <2>2. ASSUME NEW k \in 0 .. n - 1
        PROVE  e[k + 1] = NextYear(e[k], ClocksOf(last, k + 1))
    <3>1. k + 1 \in 0 .. n /\ k + 1 # 0 /\ k + 1 - 1 = k
      OBVIOUS
    <3> QED BY <2>1, <3>1
  <2>3. 0 \in 0 .. n
    OBVIOUS
  <2> QED BY <2>1, <2>2, <2>3
<1>2. \A k \in 0 .. n - 1 :
        /\ e[k + 1].until = e[k].until + get_reserve_reward(e[k].until)
        /\ e[k + 1].issuance
             = e[k].issuance + (get_reserve_reward(e[k].until) * ClocksOf(last, k + 1)) \div ClocksPerYear
  <2> SUFFICES ASSUME NEW k \in 0 .. n - 1
               PROVE  /\ e[k + 1].until = e[k].until + get_reserve_reward(e[k].until)
                      /\ e[k + 1].issuance
                           = e[k].issuance + (get_reserve_reward(e[k].until)
                                                * ClocksOf(last, k + 1)) \div ClocksPerYear
    OBVIOUS
  <2>1. e[k + 1] = NextYear(e[k], ClocksOf(last, k + 1))
    BY <1>1
  <2> QED BY <2>1, NextYearFields
<1>3. 0 \in P
  BY <1>1
<1>4. ASSUME NEW k \in Nat, k \in P
      PROVE  k + 1 \in P
  <2> SUFFICES ASSUME k + 1 <= n
               PROVE  e[k + 1].until \in Nat /\ e[k + 1].issuance \in Nat
    OBVIOUS
  <2>1. k \in 0 .. n - 1 /\ e[k].until \in Nat /\ e[k].issuance \in Nat
    BY <1>4
  <2> DEFINE r == get_reserve_reward(e[k].until)
             c == ClocksOf(last, k + 1)
  <2>2. r \in Nat
    BY <2>1, ReserveType
  <2>3. c \in Nat
    BY RewardAssumption, ClocksType
  <2>4. (r * c) \div ClocksPerYear \in Nat
    <3> HIDE DEF r, c
    <3>1. r * c \in Nat
      BY <2>2, <2>3
    <3> QED BY <3>1, RewardAssumption, DivFacts
  <2>5. e[k + 1].until = e[k].until + r /\ e[k + 1].issuance = e[k].issuance + (r * c) \div ClocksPerYear
    BY <1>2, <2>1
  <2> HIDE DEF r, c
  <2> QED BY <2>1, <2>2, <2>4, <2>5
<1> HIDE DEF P
<1>5. Nat \subseteq P
  BY <1>3, <1>4, CountingUp
<1>6. \A k \in 0 .. n : e[k].until \in Nat /\ e[k].issuance \in Nat
  BY <1>5 DEF P
<1> QED BY <1>1, <1>2, <1>6

\* The reserve issued until the end of each year, from the beginning.
IsUntil(u, n) == u = [y \in 0 .. n |-> IF y = 0 THEN 0 ELSE u[y - 1] + get_reserve_reward(u[y - 1])]

IsReserve(U) ==
  /\ U \in [Nat -> Nat]
  /\ U[0] = 0
  /\ \A y \in Nat : U[y + 1] = U[y] + get_reserve_reward(U[y])

LEMMA UntilExists ==
  ASSUME NEW n \in Nat
  PROVE  \E u : IsUntil(u, n)
<1> DEFINE P == {m \in Nat : \E u : IsUntil(u, m)}
<1>1. 0 \in P
  <2> DEFINE u == [y \in 0 .. 0 |-> 0]
  <2>1. IsUntil(u, 0)
    BY DEF IsUntil
  <2> QED BY <2>1
<1>2. ASSUME NEW m \in Nat, m \in P
      PROVE  m + 1 \in P
  <2>1. PICK u : IsUntil(u, m)
    BY <1>2
  <2>2. u = [y \in 0 .. m |-> IF y = 0 THEN 0 ELSE u[y - 1] + get_reserve_reward(u[y - 1])]
    BY <2>1 DEF IsUntil
  <2> DEFINE f == [y \in 0 .. m + 1 |-> IF y <= m THEN u[y] ELSE u[m] + get_reserve_reward(u[m])]
  <2>3. \A y \in 0 .. m + 1 : f[y] = IF y = 0 THEN 0 ELSE f[y - 1] + get_reserve_reward(f[y - 1])
    <3> SUFFICES ASSUME NEW y \in 0 .. m + 1
                 PROVE  f[y] = IF y = 0 THEN 0 ELSE f[y - 1] + get_reserve_reward(f[y - 1])
      OBVIOUS
    <3>1. CASE y = 0
      BY <2>2, <3>1
    <3>2. CASE y \in 1 .. m
      <4>1. y - 1 \in 0 .. m + 1 /\ y - 1 <= m /\ y <= m /\ y # 0 /\ y \in 0 .. m
        BY <3>2
      <4>2. f[y] = u[y] /\ f[y - 1] = u[y - 1]
        BY <4>1
      <4>3. u[y] = u[y - 1] + get_reserve_reward(u[y - 1])
        BY <2>2, <4>1
      <4> HIDE DEF f
      <4> QED BY <4>1, <4>2, <4>3
    <3>3. CASE y = m + 1
      <4>1. ~ (y <= m) /\ y - 1 = m /\ m \in 0 .. m + 1 /\ m <= m /\ y # 0
        BY <3>3
      <4>2. f[y] = u[m] + get_reserve_reward(u[m]) /\ f[m] = u[m]
        BY <4>1
      <4> HIDE DEF f
      <4> QED BY <4>1, <4>2
    <3> QED BY <3>1, <3>2, <3>3
  <2>4. f = [y \in 0 .. m + 1 |-> f[y]]
    OBVIOUS
  <2>5. IsUntil(f, m + 1)
    <3> HIDE DEF f
    <3> QED BY <2>3, <2>4 DEF IsUntil
  <2> QED BY <2>5
<1> HIDE DEF P
<1>3. Nat \subseteq P
  BY <1>1, <1>2, CountingUp
<1> QED BY <1>3 DEF P

\* Two of them agree where both are defined.
LEMMA UntilUnique ==
  ASSUME NEW n \in Nat, NEW u, IsUntil(u, n), NEW m \in Nat, NEW v, IsUntil(v, m)
  PROVE  \A y \in Nat : y <= n /\ y <= m => u[y] = v[y] /\ u[y] \in Nat
<1> DEFINE P == {y \in Nat : y <= n /\ y <= m => u[y] = v[y] /\ u[y] \in Nat}
<1>1. /\ \A y \in 0 .. n : u[y] = IF y = 0 THEN 0 ELSE u[y - 1] + get_reserve_reward(u[y - 1])
      /\ \A y \in 0 .. m : v[y] = IF y = 0 THEN 0 ELSE v[y - 1] + get_reserve_reward(v[y - 1])
  BY DEF IsUntil
<1>2. 0 \in P
  BY <1>1
<1>3. ASSUME NEW y \in Nat, y \in P
      PROVE  y + 1 \in P
  <2> SUFFICES ASSUME y + 1 <= n, y + 1 <= m
               PROVE  u[y + 1] = v[y + 1] /\ u[y + 1] \in Nat
    OBVIOUS
  <2>1. u[y] = v[y] /\ u[y] \in Nat
    BY <1>3
  <2>2. y + 1 \in 0 .. n /\ y + 1 \in 0 .. m /\ y + 1 # 0 /\ y + 1 - 1 = y
    OBVIOUS
  <2>3. u[y + 1] = u[y] + get_reserve_reward(u[y]) /\ v[y + 1] = v[y] + get_reserve_reward(v[y])
    BY <1>1, <2>2
  <2>4. get_reserve_reward(u[y]) \in Nat
    BY <2>1, ReserveType
  <2> QED BY <2>1, <2>3, <2>4
<1> HIDE DEF P
<1>4. Nat \subseteq P
  BY <1>2, <1>3, CountingUp
<1> QED BY <1>4 DEF P

LEMMA ReserveExists == \E U : IsReserve(U)
<1> DEFINE u(n) == CHOOSE v : IsUntil(v, n)
           U == [y \in Nat |-> u(y)[y]]
<1>1. \A n \in Nat : IsUntil(u(n), n)
  BY UntilExists
<1>2. \A n, m \in Nat : \A y \in Nat : y <= n /\ y <= m => u(n)[y] = u(m)[y] /\ u(n)[y] \in Nat
  BY <1>1, UntilUnique
<1>3. U \in [Nat -> Nat]
  <2>1. \A y \in Nat : u(y)[y] \in Nat
    BY <1>2
  <2> QED BY <2>1
<1>4. U[0] = 0
  <2> DEFINE v == u(0)
  <2>1. IsUntil(v, 0) /\ 0 \in 0 .. 0
    BY <1>1
  <2>2. v[0] = 0
    <3> HIDE DEF v
    <3> QED BY <2>1 DEF IsUntil
  <2> QED BY <2>2
<1>5. \A y \in Nat : U[y + 1] = U[y] + get_reserve_reward(U[y])
  <2> SUFFICES ASSUME NEW y \in Nat PROVE U[y + 1] = U[y] + get_reserve_reward(U[y])
    OBVIOUS
  <2> DEFINE v == u(y + 1)
  <2>1. IsUntil(v, y + 1)
    BY <1>1
  <2>2. y + 1 \in 0 .. y + 1 /\ y + 1 # 0 /\ y + 1 - 1 = y
    OBVIOUS
  <2>3. v[y + 1] = v[y] + get_reserve_reward(v[y])
    <3> HIDE DEF v
    <3> QED BY <2>1, <2>2 DEF IsUntil
  <2>4. v[y] = u(y)[y]
    BY <1>2
  <2> QED BY <2>3, <2>4
<1>6. IsReserve(U)
  <2> HIDE DEF U
  <2> QED BY <1>3, <1>4, <1>5 DEF IsReserve
<1> QED BY <1>6

\* Any until is the beginning of the reserve.
LEMMA UntilIsReserve ==
  ASSUME NEW U, IsReserve(U), NEW n \in Nat, NEW u, IsUntil(u, n)
  PROVE  \A y \in 0 .. n : u[y] = U[y]
<1> DEFINE v == [y \in 0 .. n |-> U[y]]
<1>1. IsUntil(v, n)
  <2>1. \A y \in 0 .. n : v[y] = IF y = 0 THEN 0 ELSE v[y - 1] + get_reserve_reward(v[y - 1])
    <3> SUFFICES ASSUME NEW y \in 0 .. n, y # 0
                 PROVE  v[y] = v[y - 1] + get_reserve_reward(v[y - 1])
      BY DEF IsReserve
    <3>1. y - 1 \in Nat /\ y - 1 \in 0 .. n /\ y - 1 + 1 = y
      OBVIOUS
    <3>2. U[y - 1 + 1] = U[y - 1] + get_reserve_reward(U[y - 1])
      BY <3>1 DEF IsReserve
    <3> QED BY <3>1, <3>2
  <2>2. v = [y \in 0 .. n |-> v[y]]
    OBVIOUS
  <2> HIDE DEF v
  <2> QED BY <2>1, <2>2 DEF IsUntil
<1>2. \A y \in 0 .. n : v[y] = U[y]
  OBVIOUS
<1>3. \A y \in Nat : y <= n /\ y <= n => u[y] = v[y]
  <2> HIDE DEF v
  <2> QED BY <1>1, UntilUnique
<1> HIDE DEF v
<1> QED BY <1>2, <1>3

\* What the clocks before l are worth, each its share of its year's reserve.
ClockWorth(U) == [c \in Nat |-> get_reserve_reward(U[YearOf(c)])]

Scheduled(U, l) == SumFunctionOnSet(ClockWorth(U), 0 .. l - 1)

LEMMA WorthType ==
  ASSUME NEW U, IsReserve(U)
  PROVE  /\ \A c \in Nat : ClockWorth(U)[c] \in Nat
         /\ \A l \in Nat : IsFiniteSet(0 .. l - 1) /\ Scheduled(U, l) \in Nat
<1> DEFINE f == ClockWorth(U)
<1>1. \A c \in Nat : f[c] \in Nat
  BY YearFacts, ReserveType DEF ClockWorth, IsReserve
<1>2. ASSUME NEW l \in Nat
      PROVE  IsFiniteSet(0 .. l - 1) /\ Scheduled(U, l) \in Nat
  <2> DEFINE D == 0 .. l - 1
  <2>1. IsFiniteSet(D)
    BY FS_Interval
  <2>2. \A c \in D : f[c] \in Nat
    BY <1>1
  <2>3. SumFunctionOnSet(f, D) \in Nat
    <3> HIDE DEF f, D
    <3> QED BY <2>1, <2>2, SumOfNats
  <2> QED BY <2>1, <2>3 DEF Scheduled
<1> QED BY <1>1, <1>2

LEMMA YearIs ==
  ASSUME NEW c \in Nat, NEW y \in Nat,
         ClocksPerYear * y <= c, c < ClocksPerYear * y + ClocksPerYear
  PROVE  YearOf(c) = y
<1> DEFINE x == YearOf(c)
           p == ClocksPerYear
<1>1. p \in Nat \ {0}
  BY RewardAssumption
<1>2. x \in Nat /\ p * x \in Nat /\ p * x <= c /\ c < p * x + p
  BY YearFacts
<1>3. p * y <= c /\ c < p * y + p
  OBVIOUS
<1> HIDE DEF x, p
<1>4. p * y \in Nat
  BY <1>1
<1>5. ~ (x + 1 <= y)
  <2> SUFFICES ASSUME x + 1 <= y PROVE FALSE
    OBVIOUS
  <2>1. p * (x + 1) <= p * y /\ p * (x + 1) = p * x + p
    BY <1>1, <1>2, Products
  <2> QED BY <1>1, <1>2, <1>3, <1>4, <2>1
<1>6. ~ (y + 1 <= x)
  <2> SUFFICES ASSUME y + 1 <= x PROVE FALSE
    OBVIOUS
  <2>1. p * (y + 1) <= p * x /\ p * (y + 1) = p * y + p
    BY <1>1, <1>2, Products
  <2> QED BY <1>1, <1>2, <1>3, <1>4, <2>1
<1>7. x = y
  BY <1>2, <1>5, <1>6
<1> QED BY <1>7 DEF x

\* Clocks of one year.
InYear(a, d, y) == \A c \in Nat : a <= c /\ c < a + d => YearOf(c) = y

LEMMA ClocksOfOneYear ==
  ASSUME NEW U, IsReserve(U), NEW a \in Nat, NEW d \in Nat, NEW y \in Nat, InYear(a, d, y)
  PROVE  Scheduled(U, a + d) = Scheduled(U, a) + get_reserve_reward(U[y]) * d
<1> DEFINE f == ClockWorth(U)
           r == get_reserve_reward(U[y])
           S(l) == Scheduled(U, l)
           P == {k \in Nat : k <= d => S(a + k) = S(a) + r * k}
<1>1. r \in Nat
  BY ReserveType DEF IsReserve
<1>2. /\ \A c \in Nat : f[c] \in Nat
      /\ \A l \in Nat : IsFiniteSet(0 .. l - 1) /\ S(l) \in Nat
  BY WorthType
<1>3. 0 \in P
  <2>1. S(a) \in Nat /\ a + 0 = a /\ r * 0 = 0
    <3> HIDE DEF r, S
    <3> QED BY <1>1, <1>2
  <2>2. S(a + 0) = S(a) + r * 0
    <3> HIDE DEF S, r
    <3> QED BY <2>1
  <2> QED BY <2>2
<1>4. ASSUME NEW k \in Nat, k \in P
      PROVE  k + 1 \in P
  <2> SUFFICES ASSUME k + 1 <= d PROVE S(a + (k + 1)) = S(a) + r * (k + 1)
    OBVIOUS
  <2> DEFINE c == a + k
             D == 0 .. c - 1
  <2>1. S(c) = S(a) + r * k
    BY <1>4
  <2>2. f[c] = r
    <3>1. YearOf(c) = y /\ c \in Nat
      BY DEF InYear
    <3> HIDE DEF c
    <3> QED BY <3>1 DEF ClockWorth
  <2>3. c \in Nat /\ c \notin D /\ D \cup {c} = 0 .. (a + (k + 1)) - 1
    OBVIOUS
  <2>4. IsFiniteSet(D) /\ \A x \in D \cup {c} : f[x] \in Int
    <3>1. D \cup {c} \subseteq Nat
      OBVIOUS
    <3>2. \A x \in Nat : f[x] \in Int
      <4> SUFFICES ASSUME NEW x \in Nat PROVE f[x] \in Int
        OBVIOUS
      <4>1. f[x] \in Nat
        BY WorthType
      <4> QED BY <4>1
    <3>3. IsFiniteSet(D)
      BY <1>2, <2>3
    <3> QED BY <3>1, <3>2, <3>3
  <2>5. SumFunctionOnSet(f, D \cup {c}) = SumFunctionOnSet(f, D) + f[c]
    <3> HIDE DEF f, D, c
    <3> QED BY <2>3, <2>4, SumAdd
  <2>6. S(a + (k + 1)) = SumFunctionOnSet(f, D \cup {c}) /\ S(c) = SumFunctionOnSet(f, D)
    BY <2>3 DEF Scheduled
  <2>7. r * (k + 1) = r * k + r /\ r * k \in Nat
    <3> HIDE DEF r
    <3> QED BY <1>1
  <2>8. S(a) \in Nat
    BY <1>2
  <2> HIDE DEF S, f, D, r, c
  <2> QED BY <1>1, <2>1, <2>2, <2>5, <2>6, <2>7, <2>8
<1> HIDE DEF P
<1>5. Nat \subseteq P
  BY <1>3, <1>4, CountingUp
<1> QED BY <1>5 DEF P

\* A part of a year is issued up to a fraction.
LEMMA PartOfYear ==
  ASSUME NEW r \in Nat, NEW d \in Nat
  PROVE  LET q == (r * d) \div ClocksPerYear
         IN  q \in Nat /\ ClocksPerYear * q <= r * d /\ r * d <= ClocksPerYear * (q + 1)
<1> DEFINE p == ClocksPerYear
           x == r * d
           q == x \div p
           m == x % p
<1>1. p \in Nat \ {0} /\ x \in Nat
  BY RewardAssumption
<1> HIDE DEF p, x
<1>2. q \in Nat /\ m \in 0 .. p - 1 /\ x = p * q + m
  BY <1>1, DivFacts
<1> HIDE DEF q, m
<1>3. p * (q + 1) = p * q + p /\ p * q \in Nat
  BY <1>1, <1>2
<1>4. q \in Nat /\ p * q <= x /\ x <= p * (q + 1)
  BY <1>1, <1>2, <1>3
<1> QED BY <1>4 DEF p, q, x

\* The reserve that the years since the last issuance make.
LEMMA YearsOnSchedule ==
  ASSUME NEW U, IsReserve(U), NEW rec, NEW last \in Nat, rec.last_issuance_time = last,
         rec.issued_until_last_year_end = U[YearOf(last)],
         NEW n \in Nat, NEW e, IsYears(e, rec, n),
         NEW t, t = [k \in Nat |-> IF k = 0 THEN last ELSE ClocksPerYear * (YearOf(last) + k)]
  PROVE  \A k \in 0 .. n :
           /\ t[k] \in Nat
           /\ e[k].issuance \in Nat
           /\ e[k].until = U[YearOf(last) + k]
           /\ ClocksPerYear * e[k].issuance <= Scheduled(U, t[k]) - Scheduled(U, last)
           /\ Scheduled(U, t[k]) - Scheduled(U, last) <= ClocksPerYear * (e[k].issuance + k)
<1> DEFINE p == ClocksPerYear
           y0 == YearOf(last)
           S(l) == Scheduled(U, l)
           P == {k \in Nat : k <= n =>
                   /\ e[k].until = U[y0 + k]
                   /\ p * e[k].issuance <= S(t[k]) - S(last)
                   /\ S(t[k]) - S(last) <= p * (e[k].issuance + k)}
<1>1. p \in Nat \ {0} /\ y0 \in Nat /\ p * y0 <= last /\ last < p * y0 + p /\ p * y0 \in Nat
      /\ last = p * y0 + (last % p)
  BY YearFacts, RewardAssumption
<1>2. U \in [Nat -> Nat] /\ \A y \in Nat : U[y + 1] = U[y] + get_reserve_reward(U[y])
  BY DEF IsReserve
<1>3. /\ e[0] = [until |-> U[y0], issuance |-> 0]
      /\ \A k \in 0 .. n : e[k].until \in Nat /\ e[k].issuance \in Nat
      /\ \A k \in 0 .. n - 1 :
           /\ e[k + 1].until = e[k].until + get_reserve_reward(e[k].until)
           /\ e[k + 1].issuance
                = e[k].issuance + (get_reserve_reward(e[k].until) * ClocksOf(last, k + 1)) \div p
  <2>1. rec.issued_until_last_year_end \in Nat /\ rec.last_issuance_time \in Nat
    BY <1>1, <1>2
  <2>2. /\ e[0] = [until |-> rec.issued_until_last_year_end, issuance |-> 0]
        /\ \A k \in 0 .. n : e[k].until \in Nat /\ e[k].issuance \in Nat
        /\ \A k \in 0 .. n - 1 :
             /\ e[k + 1].until = e[k].until + get_reserve_reward(e[k].until)
             /\ e[k + 1].issuance
                  = e[k].issuance + (get_reserve_reward(e[k].until)
                                       * ClocksOf(rec.last_issuance_time, k + 1)) \div ClocksPerYear
    BY <2>1, YearsType
  <2> QED BY <2>2
<1>4. \A k \in Nat : t[k] \in Nat /\ t[0] = last /\ (k # 0 => t[k] = p * (y0 + k))
  <2> HIDE DEF p, y0
  <2> SUFFICES ASSUME NEW k \in Nat PROVE t[k] \in Nat /\ t[0] = last /\ (k # 0 => t[k] = p * (y0 + k))
    OBVIOUS
  <2>1. p * (y0 + k) \in Nat
    BY <1>1
  <2> QED BY <2>1 DEF p, y0
<1>5. \A l \in Nat : S(l) \in Nat
  BY WorthType
<1>6. 0 \in P
  <2> SUFFICES /\ e[0].until = U[y0 + 0]
               /\ p * e[0].issuance <= S(t[0]) - S(last)
               /\ S(t[0]) - S(last) <= p * (e[0].issuance + 0)
    OBVIOUS
  <2>1. e[0].until = U[y0] /\ e[0].issuance = 0 /\ t[0] = last /\ y0 + 0 = y0 /\ S(last) \in Nat
    BY <1>1, <1>3, <1>4, <1>5
  <2> HIDE DEF p, y0, S
  <2>2. p * e[0].issuance = 0 /\ p * (e[0].issuance + 0) = 0
    BY <1>1, <2>1
  <2> QED BY <2>1, <2>2
<1>7. ASSUME NEW k \in Nat, k \in P
      PROVE  k + 1 \in P
  <2> DEFINE x == e[k].issuance
             r == get_reserve_reward(e[k].until)
             d == ClocksOf(last, k + 1)
             q == (r * d) \div p
  <2> SUFFICES ASSUME k + 1 <= n
               PROVE  /\ e[k + 1].until = U[y0 + (k + 1)]
                      /\ p * e[k + 1].issuance <= S(t[k + 1]) - S(last)
                      /\ S(t[k + 1]) - S(last) <= p * (e[k + 1].issuance + (k + 1))
    OBVIOUS
  <2>1. /\ e[k].until = U[y0 + k]
        /\ p * x <= S(t[k]) - S(last)
        /\ S(t[k]) - S(last) <= p * (x + k)
    BY <1>7
  <2>2. k \in 0 .. n - 1 /\ k \in 0 .. n
    OBVIOUS
  <2>3. e[k].until \in Nat /\ x \in Nat
    BY <1>3, <2>2
  <2>4. e[k + 1].until = e[k].until + r /\ e[k + 1].issuance = x + q
    BY <1>3, <2>2
  <2>5. r \in Nat /\ d \in Nat
    BY <2>3, ReserveType, ClocksType
  <2>6. q \in Nat /\ p * q <= r * d /\ r * d <= p * (q + 1)
    <3> HIDE DEF r, d
    <3> QED BY <2>5, PartOfYear
  <2>7. e[k + 1].until = U[y0 + (k + 1)]
    <3>1. y0 + k \in Nat /\ y0 + (k + 1) = y0 + k + 1
      BY <1>1
    <3>2. U[y0 + k + 1] = U[y0 + k] + get_reserve_reward(U[y0 + k])
      BY <1>2, <3>1
    <3> HIDE DEF y0
    <3> QED BY <2>1, <2>4, <3>1, <3>2
  <2>8. t[k] \in Nat /\ t[k + 1] = t[k] + d
        /\ \A c \in Nat : t[k] <= c /\ c < t[k] + d => YearOf(c) = y0 + k
    <3>1. t[k] \in Nat /\ k + 1 # 0
      BY <1>4
    <3>2. t[k + 1] = p * (y0 + (k + 1))
      BY <1>4, <3>1
    <3>3. p * (y0 + (k + 1)) = p * (y0 + k) + p /\ p * (y0 + k) \in Nat
      <4> HIDE DEF p, y0
      <4> QED BY <1>1
    <3>4. t[k + 1] = t[k] + d /\ p * (y0 + k) <= t[k]
      <4>1. CASE k = 0
        <5>1. d = p - (last % p) /\ t[k] = last /\ y0 + k = y0
          BY <1>1, <1>4, <4>1 DEF ClocksOf
        <5>2. last % p \in Nat
          BY YearFacts, RewardAssumption
        <5> HIDE DEF d, p, y0
        <5> QED BY <1>1, <3>2, <3>3, <5>1, <5>2
      <4>2. CASE k # 0
        <5>1. d = p /\ t[k] = p * (y0 + k)
          BY <1>4, <4>2 DEF ClocksOf
        <5> HIDE DEF d, p, y0
        <5> QED BY <1>1, <3>2, <3>3, <5>1
      <4> QED BY <4>1, <4>2
    <3>5. ASSUME NEW c \in Nat, t[k] <= c, c < t[k] + d
          PROVE  YearOf(c) = y0 + k
      <4>1. y0 + k \in Nat
        BY <1>1
      <4>2. p * (y0 + k) <= c /\ c < p * (y0 + k) + p
        <5> HIDE DEF d, p, y0
        <5> QED BY <1>1, <2>5, <3>1, <3>2, <3>3, <3>4, <3>5
      <4> QED BY <4>1, <4>2, YearIs
    <3> QED BY <3>1, <3>4, <3>5
  <2>9. S(t[k + 1]) = S(t[k]) + r * d
    <3>1. y0 + k \in Nat
      BY <1>1
    <3>2. S(t[k] + d) = S(t[k]) + get_reserve_reward(U[y0 + k]) * d
      <4> DEFINE a == t[k]
                 y == y0 + k
      <4>1. d \in Nat
        BY <2>5
      <4>2. a \in Nat /\ y \in Nat /\ InYear(a, d, y)
        BY <2>8, <3>1 DEF InYear
      <4> HIDE DEF d, a, y
      <4>3. Scheduled(U, a + d) = Scheduled(U, a) + get_reserve_reward(U[y]) * d
        BY <4>1, <4>2, ClocksOfOneYear
      <4> QED BY <4>3 DEF a, y
    <3> QED BY <2>1, <2>8, <3>2
  <2>10. S(t[k]) \in Nat /\ S(last) \in Nat
    BY <1>4, <1>5
  <2>11. r * d \in Nat
    <3> HIDE DEF r, d
    <3> QED BY <2>5
  <2>12. p * (x + q) = p * x + p * q /\ p * (x + q + (k + 1)) = p * (x + k) + p * (q + 1)
         /\ p * x \in Nat /\ p * q \in Nat /\ p * (x + k) \in Nat /\ p * (q + 1) \in Nat
    <3> HIDE DEF p, x, q
    <3> QED BY <1>1, <2>3, <2>6
  <2> DEFINE pxq == p * (x + q)
             pxk == p * (x + q + (k + 1))
  <2> HIDE DEF p, x, q, r, d, S
  <2>13. pxq <= S(t[k + 1]) - S(last) /\ S(t[k + 1]) - S(last) <= pxk
    BY <2>1, <2>6, <2>9, <2>10, <2>11, <2>12
  <2> QED BY <2>4, <2>7, <2>13
<1> HIDE DEF P
<1>8. Nat \subseteq P
  BY <1>6, <1>7, CountingUp
<1>9. \A k \in 0 .. n : /\ e[k].until = U[y0 + k]
                        /\ p * e[k].issuance <= S(t[k]) - S(last)
                        /\ S(t[k]) - S(last) <= p * (e[k].issuance + k)
  BY <1>8 DEF P
<1> QED BY <1>3, <1>4, <1>9

\* What is issued when the years that ended and the rest of this one are added.
LEMMA IssuanceOnSchedule ==
  ASSUME NEW U, IsReserve(U), NEW rec, NEW last \in Nat, rec.last_issuance_time = last,
         rec.issued_until_last_year_end = U[YearOf(last)],
         NEW h \in Nat, last <= h
  PROVE  LET calc == calc_issuance(rec, h)
             due == Scheduled(U, h) - Scheduled(U, last)
         IN  /\ calc.issuance \in Nat
             /\ calc.record.last_issuance_time = h
             /\ calc.record.issued_until_last_year_end = U[YearOf(h)]
             /\ ClocksPerYear * calc.issuance <= due
             /\ due <= ClocksPerYear * (calc.issuance + (YearOf(h) - YearOf(last)) + 1)
<1> DEFINE p == ClocksPerYear
           n == YearOf(h) - YearOf(last)
           t == [k \in Nat |-> IF k = 0 THEN last ELSE p * (YearOf(last) + k)]
           S(l) == Scheduled(U, l)
           d == RestOfYear(rec, h)
<1>1. p \in Nat \ {0} /\ n \in Nat /\ YearOf(h) \in Nat /\ YearOf(last) \in Nat
  BY RewardAssumption, YearsPass, YearFacts
<1>2. PICK e : IsYears(e, rec, n) /\ YearsEnded(rec, h) = e[n]
  BY <1>1, YearsAre
<1> DEFINE x == e[n].issuance
           r == get_reserve_reward(e[n].until)
           q == (r * d) \div p
<1>3. n \in 0 .. n
  BY <1>1
<1>4. /\ t[n] \in Nat
      /\ x \in Nat
      /\ e[n].until = U[YearOf(last) + n]
      /\ p * x <= S(t[n]) - S(last)
      /\ S(t[n]) - S(last) <= p * (x + n)
  <2>1. t = [k \in Nat |-> IF k = 0 THEN last ELSE ClocksPerYear * (YearOf(last) + k)]
    OBVIOUS
  <2> HIDE DEF t, n
  <2> QED BY <1>1, <1>2, <1>3, <2>1, YearsOnSchedule
<1>5. YearOf(last) + n = YearOf(h)
  BY <1>1
<1>6. e[n].until = U[YearOf(h)] /\ e[n].until \in Nat
  BY <1>1, <1>4, <1>5 DEF IsReserve
<1>7. d \in Nat /\ t[n] + d = h /\ p * YearOf(h) <= t[n]
  <2>1. /\ h % p \in 0 .. p - 1 /\ h = p * YearOf(h) + (h % p) /\ p * YearOf(h) \in Nat
        /\ p * YearOf(last) <= last
    BY <1>1, YearFacts
  <2>2. CASE n = 0
    <3>1. t[n] = last /\ YearOf(h) = YearOf(last)
      BY <1>1, <2>2
    <3>2. d = h - last
      BY <3>1 DEF RestOfYear
    <3> QED BY <2>1, <3>1, <3>2
  <2>3. CASE n # 0
    <3>1. t[n] = p * YearOf(h)
      BY <1>1, <1>5, <2>3
    <3>2. YearOf(h) # YearOf(last)
      BY <1>1, <2>3
    <3>3. d = h % p
      BY <3>2 DEF RestOfYear
    <3> QED BY <1>1, <2>1, <3>1, <3>3
  <2> QED BY <2>2, <2>3
<1>8. r \in Nat /\ q \in Nat /\ p * q <= r * d /\ r * d <= p * (q + 1)
  <2>1. r \in Nat
    BY <1>6, ReserveType
  <2> HIDE DEF r, d
  <2> QED BY <1>7, <2>1, PartOfYear
<1>9. S(h) = S(t[n]) + r * d
  <2> DEFINE a == t[n]
             y == YearOf(h)
  <2>1. InYear(a, d, y)
    <3> SUFFICES ASSUME NEW c \in Nat, a <= c, c < a + d PROVE YearOf(c) = y
      BY DEF InYear
    <3>1. p * y <= c /\ c < p * y + p
      <4>1. a + d = h /\ p * y <= a /\ h < p * y + p /\ p * y \in Nat
        BY <1>7, YearFacts
      <4> HIDE DEF a, d, y, p
      <4> QED BY <1>1, <1>7, <4>1 DEF a
    <3> QED BY <1>1, <3>1, YearIs
  <2>2. a \in Nat /\ d \in Nat /\ y \in Nat /\ a + d = h
    BY <1>1, <1>4, <1>7
  <2> HIDE DEF a, d, y, S
  <2>3. Scheduled(U, a + d) = Scheduled(U, a) + get_reserve_reward(U[y]) * d
    BY <2>1, <2>2, ClocksOfOneYear
  <2> QED BY <1>6, <2>2, <2>3 DEF a, y, S
<1>10. S(h) \in Nat /\ S(t[n]) \in Nat /\ S(last) \in Nat
  BY <1>4, WorthType
<1> DEFINE calc == calc_issuance(rec, h)
<1>11. calc.issuance = x + q /\ calc.record.last_issuance_time = h
       /\ calc.record.issued_until_last_year_end = e[n].until
  <2>1. calc = [issuance |-> x + q,
                record |-> [last_issuance_time |-> h, issued_until_last_year_end |-> e[n].until]]
    BY <1>2 DEF calc_issuance
  <2> HIDE DEF calc, x, q
  <2> QED BY <2>1
<1>12. /\ p * (x + q) = p * x + p * q /\ p * x \in Nat /\ p * q \in Nat
       /\ p * (x + q + n + 1) = p * (x + n) + p * (q + 1)
       /\ p * (x + n) \in Nat /\ p * (q + 1) \in Nat
  <2> HIDE DEF p, x, q, n
  <2> QED BY <1>1, <1>4, <1>8
<1>13. r * d \in Nat
  <2> HIDE DEF r, d
  <2> QED BY <1>7, <1>8
<1> DEFINE low == p * (x + q)
           high == p * (x + q + n + 1)
<1>14. low <= S(h) - S(last) /\ S(h) - S(last) <= high
  <2>1. low = p * x + p * q /\ high = p * (x + n) + p * (q + 1)
    BY <1>12
  <2> HIDE DEF low, high, p, x, q, n, r, d, S, t
  <2> QED BY <1>4, <1>8, <1>9, <1>10, <1>12, <1>13, <2>1
<1>15. x + q \in Nat
  <2> HIDE DEF x, q
  <2> QED BY <1>4, <1>8
<1> HIDE DEF calc, x, q, S
<1> QED BY <1>6, <1>11, <1>14, <1>15 DEF S, calc

-----------------------------------------------------------------------------
(***************************************************************************)
(* What tasks transfer.                                                    *)
(***************************************************************************)
AmountIn(x) == IF x.action = "transfer" THEN x.amount ELSE 0
ValueOf(S) == SumFunctionOnSet([x \in S |-> AmountIn(x)], S)
AreTasks(S) == IsFiniteSet(S) /\ \A x \in S : AmountIn(x) \in Nat

LEMMA ValueType ==
  ASSUME NEW S, AreTasks(S)
  PROVE  ValueOf(S) \in Nat
<1> DEFINE f == [x \in S |-> AmountIn(x)]
<1>1. IsFiniteSet(S) /\ \A x \in S : f[x] \in Nat
  BY DEF AreTasks
<1>2. SumFunctionOnSet(f, S) \in Nat
  <2> HIDE DEF f
  <2> QED BY <1>1, SumOfNats
<1> QED BY <1>2 DEF ValueOf

LEMMA ValueTogether ==
  ASSUME NEW S, AreTasks(S), NEW T, AreTasks(T), S \cap T = {}
  PROVE  AreTasks(S \cup T) /\ ValueOf(S \cup T) = ValueOf(S) + ValueOf(T)
<1> DEFINE f == [x \in S \cup T |-> AmountIn(x)]
           g == [x \in S |-> AmountIn(x)]
           h == [x \in T |-> AmountIn(x)]
<1>1. IsFiniteSet(S) /\ IsFiniteSet(T) /\ AreTasks(S \cup T)
  BY FS_Union DEF AreTasks
<1>2. /\ \A x \in S : f[x] = g[x]
      /\ \A x \in T : f[x] = h[x]
  OBVIOUS
<1>3. \A x \in S \cup T : f[x] \in Int
  BY <1>1 DEF AreTasks
<1> HIDE DEF f, g, h
<1>4. SumFunctionOnSet(f, S \cup T) = SumFunctionOnSet(f, S) + SumFunctionOnSet(f, T)
  BY <1>1, <1>3, SumUnion
<1>5. SumFunctionOnSet(f, S) = SumFunctionOnSet(g, S)
  BY <1>1, <1>2, SumSame
<1>6. SumFunctionOnSet(f, T) = SumFunctionOnSet(h, T)
  BY <1>1, <1>2, SumSame
<1> QED BY <1>1, <1>4, <1>5, <1>6 DEF ValueOf, f, g, h

LEMMA ValueOfTransfers ==
  ASSUME NEW S, AreTasks(S)
  PROVE  SumOver({x \in S : x.action = "transfer"}, LAMBDA x : x.amount) = ValueOf(S)
<1> DEFINE T == {x \in S : x.action = "transfer"}
           f == [x \in T |-> x.amount]
           g == [x \in S |-> AmountIn(x)]
<1>1. IsFiniteSet(S) /\ T \in SUBSET S
  BY DEF AreTasks
<1>2. \A x \in T : f[x] \in Int
  BY DEF AreTasks, AmountIn
<1>3. \A x \in S : g[x] = IF x \in T THEN f[x] ELSE 0
  BY DEF AmountIn
<1>4. SumFunctionOnSet(g, S) = SumFunctionOnSet(f, T)
  <2> HIDE DEF f, g, T
  <2> QED BY ONLY <1>1, <1>2, <1>3, SumWithin
<1> QED BY <1>4 DEF SumOver, ValueOf

LEMMA ListsAreFinite ==
  ASSUME NEW s, NEW S, IsList(s, S)
  PROVE  IsFiniteSet(DOMAIN s) /\ IsFiniteSet(S) /\ S = {s[i] : i \in DOMAIN s}
<1>1. s \in Seq(S) /\ Range(s) = S
  BY DEF IsList
<1>2. Len(s) \in Nat /\ DOMAIN s = 1 .. Len(s)
  BY <1>1
<1>3. IsFiniteSet(DOMAIN s)
  BY <1>2, FS_Interval
<1>4. IsFiniteSet(Range(s))
  BY <1>3, FiniteRange
<1> QED BY <1>1, <1>3, <1>4 DEF Range

LEMMA ListValue ==
  ASSUME NEW list, NEW S, IsList(list, S), AreTasks(S)
  PROVE  TransfersIn(list) = ValueOf(S)
<1> DEFINE I == DOMAIN list
           J == {i \in I : list[i].action = "transfer"}
           f == [i \in J |-> list[i].amount]
           h == [i \in I |-> AmountIn(list[i])]
           g == [x \in S |-> AmountIn(x)]
<1>1. IsFiniteSet(I) /\ IsFiniteSet(S) /\ S = {list[i] : i \in I}
  BY ListsAreFinite
<1>2. \A i, j \in I : list[i] = list[j] => i = j
  BY DEF IsList, IsInjective
<1>3. \A x \in S : g[x] \in Int /\ g[x] = AmountIn(x)
  BY DEF AreTasks
<1>4. \A i \in I : h[i] = g[list[i]] /\ h[i] = AmountIn(list[i]) /\ h[i] \in Int
  BY <1>1, <1>3
<1>5. SumFunctionOnSet(g, S) = SumFunctionOnSet(h, I)
  <2>1. \A x \in S : g[x] \in Int
    BY <1>3
  <2>2. \A i \in I : h[i] = g[list[i]]
    BY <1>4
  <2> HIDE DEF g, h, I
  <2> QED BY <1>1, <1>2, <2>1, <2>2, SumOfImages
<1>6. SumFunctionOnSet(h, I) = SumFunctionOnSet(f, J)
  <2>1. \A i \in I : h[i] = IF i \in J THEN f[i] ELSE 0
    BY DEF AmountIn
  <2>2. J \in SUBSET I /\ \A i \in J : f[i] \in Int
    BY <1>4, <2>1
  <2>3. IsFiniteSet(I)
    BY <1>1
  <2> HIDE DEF f, h, I, J
  <2> QED BY ONLY <2>1, <2>2, <2>3, SumWithin
<1> QED BY <1>5, <1>6 DEF TransfersIn, SumOver, ValueOf

\* What is executed and what remains make up what there was.
LEMMA ExecutedValue ==
  ASSUME NEW list, NEW S, IsList(list, S), AreTasks(S)
  PROVE  /\ IsList(Remaining(list), Range(Remaining(list)))
         /\ Range(Remaining(list)) \subseteq S
         /\ SumOver({x \in Executed(list) : x.action = "transfer"}, LAMBDA x : x.amount) \in Nat
         /\ TransfersIn(Remaining(list)) \in Nat
         /\ TransfersIn(list)
              = SumOver({x \in Executed(list) : x.action = "transfer"}, LAMBDA x : x.amount)
                  + TransfersIn(Remaining(list))
<1> DEFINE k == RoundLength(list)
           E == Executed(list)
           r == Remaining(list)
           R == Range(r)
<1>1. k \in 0 .. Len(list)
  BY DispatchAssumption DEF RoundLength, IsList
<1>2. E = FrontOf(list, k) /\ r = RestOf(list, k)
  BY DEF Executed, Remaining, FrontOf, RestOf
<1> HIDE DEF k, E, r
<1>3. /\ E \cup R = S /\ E \cap R = {} /\ IsFiniteSet(E) /\ IsList(r, R)
  BY <1>1, <1>2, ListCut
<1> HIDE DEF R
<1>4. AreTasks(E) /\ AreTasks(R)
  BY <1>3, ListsAreFinite DEF AreTasks
<1>5. ValueOf(S) = ValueOf(E) + ValueOf(R)
  BY <1>3, <1>4, ValueTogether
<1>6. ValueOf(E) \in Nat /\ ValueOf(R) \in Nat
  BY <1>4, ValueType
<1>7. TransfersIn(list) = ValueOf(S) /\ TransfersIn(r) = ValueOf(R)
  BY <1>3, <1>4, ListValue
<1>8. SumOver({x \in E : x.action = "transfer"}, LAMBDA x : x.amount) = ValueOf(E)
  BY <1>4, ValueOfTransfers
<1> QED BY <1>3, <1>5, <1>6, <1>7, <1>8 DEF E, r, R

-----------------------------------------------------------------------------
(***************************************************************************)
(* The tasks of a round.                                                   *)
(***************************************************************************)
LEMMA WholeFacts ==
  ASSUME NEW x \in Nat
  PROVE  /\ Whole(x) \in Nat /\ Precision * Whole(x) <= x
         /\ WholeUp(x) \in Nat /\ Precision * WholeUp(x) <= x + Precision
         /\ x = 0 => WholeUp(x) = 0
<1> DEFINE p == Precision
           q == x \div p
           r == x % p
<1>1. p \in Nat \ {0}
  BY DispatchAssumption
<1>2. q \in Nat /\ r \in 0 .. p - 1 /\ x = p * q + r /\ p * q <= x
  BY <1>1, DivFacts
<1>3. Whole(x) = q /\ WholeUp(x) = IF r # 0 THEN q + 1 ELSE q
  BY DEF WholeUp, Whole
<1> HIDE DEF p, q, r
<1>4. p * (q + 1) = p * q + p /\ p * q \in Nat
  BY <1>1, <1>2
<1>5. WholeUp(x) \in Nat /\ p * WholeUp(x) <= x + p
  <2>1. CASE r = 0
    BY <1>1, <1>2, <1>3, <1>4, <2>1
  <2>2. CASE r # 0
    <3>1. p * WholeUp(x) = p * q + p
      BY <1>3, <1>4, <2>2
    <3>2. WholeUp(x) \in Nat
      BY <1>2, <1>3
    <3> QED BY <1>1, <1>2, <1>4, <3>1, <3>2
  <2> QED BY <2>1, <2>2
<1>6. ASSUME x = 0 PROVE WholeUp(x) = 0
  <2>1. p * q = 0 /\ r = 0
    BY <1>2, <1>4, <1>6
  <2>2. ~ (1 <= q)
    <3> SUFFICES ASSUME 1 <= q PROVE FALSE
      OBVIOUS
    <3>1. p * 1 <= p * q /\ p * 1 = p
      BY <1>1, <1>2, Products
    <3> QED BY <1>1, <2>1, <3>1
  <2> QED BY <1>2, <1>3, <2>1, <2>2
<1> QED BY <1>2, <1>3, <1>5, <1>6 DEF p

\* Rewards of some accounts.
IsRewards(m) == IsFiniteSet(DOMAIN m) /\ \A x \in DOMAIN m : m[x] \in Nat

LEMMA TotalOfRewards ==
  ASSUME NEW m, IsRewards(m)
  PROVE  Total(m) \in Nat
<1> DEFINE f == [x \in DOMAIN m |-> m[x]]
<1>1. IsFiniteSet(DOMAIN m) /\ \A x \in DOMAIN m : f[x] \in Nat
  BY DEF IsRewards
<1>2. SumFunctionOnSet(f, DOMAIN m) \in Nat
  <2> HIDE DEF f
  <2> QED BY <1>1, SumOfNats
<1> QED BY <1>2 DEF Total, SumOver

ByTable(r) == DOMAIN r \subseteq Table /\ \A t \in DOMAIN r : IsRewards(r[t])

AllCalls(action, round, r) ==
  UNION {{Call(action, round, t, c) : c \in Chunks(r[t])} : t \in DOMAIN r}

LEMMA CallsAreListed ==
  ASSUME NEW action, NEW round, NEW r, ByTable(r)
  PROVE  /\ IsList(CallsOf(action, round, r), AllCalls(action, round, r))
         /\ \A x \in AllCalls(action, round, r) : x.action = action /\ x.round = round
<1> DEFINE T == DOMAIN r
           with(t, n) == [k \in ChunkOf(n, DOMAIN r[t]) |-> r[t][k]]
           at(t) == {Call(action, round, t, c) : c \in Chunks(r[t])}
           of(t) == [n \in DOMAIN r[t] |-> Call(action, round, t, with(t, n))]
           g == [t \in T |-> at(t)]
           A == AllCalls(action, round, r)
<1>1. IsFiniteSet(T)
  BY RewardAssumption, FS_Subset DEF ByTable
<1>2. \A t \in T : IsFiniteSet(at(t))
  <2> SUFFICES ASSUME NEW t \in T PROVE IsFiniteSet(at(t))
    OBVIOUS
  <2> DEFINE f == of(t)
             S == at(t)
  <2>1. S = {f[n] : n \in DOMAIN r[t]}
    BY DEF Chunks
  <2>2. DOMAIN f = DOMAIN r[t] /\ IsFiniteSet(DOMAIN f)
    BY DEF ByTable, IsRewards
  <2> HIDE DEF f, S
  <2>3. S = Range(f)
    BY <2>1, <2>2 DEF Range
  <2>4. IsFiniteSet(S)
    BY <2>2, <2>3, FiniteRange
  <2> QED BY <2>4 DEF S
<1>3. A = UNION {g[t] : t \in T}
  BY DEF AllCalls
<1>4. IsFiniteSet(A)
  <2>1. \A t \in T : IsFiniteSet(g[t])
    BY <1>2
  <2>2. {g[t] : t \in T} = Range(g) /\ DOMAIN g = T
    BY DEF Range
  <2> HIDE DEF g, T, A
  <2>3. IsFiniteSet({g[t] : t \in T})
    BY <1>1, <2>2, FiniteRange
  <2> QED BY <1>3, <2>1, <2>3, FS_UNION
<1>5. CallsOf(action, round, r) = SetToSeq(A)
  BY DEF CallsOf, AllCalls
<1>6. IsList(SetToSeq(A), A)
  <2> HIDE DEF A
  <2> QED BY <1>4, SetToSeqLists
<1>7. \A x \in A : x.action = action /\ x.round = round
  BY DEF AllCalls, Call
<1> QED BY <1>5, <1>6, <1>7

\* Tasks of one round, listed once, and what they transfer together.
Listed(list, round, value) ==
  \E S : /\ IsList(list, S)
         /\ AreTasks(S)
         /\ \A x \in S : x.round = round
         /\ ValueOf(S) = value

\* A round's tasks are listed once, and transfer every table's total.
LEMMA DispatchIs ==
  ASSUME NEW round, NEW nodes, ByTable(nodes), NEW dividends, ByTable(dividends),
         NEW community \in Nat,
         NEW h, \A t \in DOMAIN nodes \cup DOMAIN dividends :
                  h[t] = WholeUp(TableTotal(nodes, dividends, t)) /\ h[t] \in Nat
  PROVE  Listed(dispatch_all_reward(round, nodes, dividends, community), round,
                SumFunctionOnSet(h, DOMAIN nodes \cup DOMAIN dividends) + Whole(community))
<1> DEFINE T == DOMAIN nodes \cup DOMAIN dividends
           whole == Whole(community)
           m == [t \in T |-> Transfer(round, t, WholeUp(TableTotal(nodes, dividends, t)))]
           y == Transfer(round, Community, whole)
           A == {m[t] : t \in T}
           B == IF whole > 0 THEN {y} ELSE {}
           C == AllCalls("recv_node_reward", round, nodes)
           D == AllCalls("recv_voter_dividend_reward", round, dividends)
           a == Transfers(round, nodes, dividends)
           b == IF whole > 0 THEN <<y>> ELSE <<>>
           c == CallsOf("recv_node_reward", round, nodes)
           d == CallsOf("recv_voter_dividend_reward", round, dividends)
<1>1. IsFiniteSet(T) /\ T \subseteq Table /\ Community \notin T
  BY RewardAssumption, FS_Subset DEF ByTable
<1>2. whole \in Nat
  BY WholeFacts
<1>3. \A t \in T : /\ m[t].action = "transfer" /\ m[t].round = round
                   /\ m[t].to = t /\ m[t].amount = h[t]
  BY DEF Transfer
<1>4. y.action = "transfer" /\ y.round = round /\ y.to = Community /\ y.amount = whole
  BY DEF Transfer
<1>5. IsFiniteSet(A) /\ IsList(a, A)
  <2>1. A = Range(m) /\ DOMAIN m = T
    BY DEF Range
  <2>2. a = SetToSeq(A)
    BY DEF Transfers
  <2> HIDE DEF A, a, m, T
  <2>3. IsFiniteSet(A)
    BY <1>1, <2>1, FiniteRange
  <2> QED BY <2>2, <2>3, SetToSeqLists
<1>6. IsList(b, B) /\ IsFiniteSet(B)
  <2> HIDE DEF y, whole
  <2>1. CASE whole > 0
    BY <2>1, ListOfOne, FS_Singleton
  <2>2. CASE ~ (whole > 0)
    BY <2>2, ListOfOne, FS_EmptySet
  <2> QED BY <2>1, <2>2
<1>7. IsList(c, C) /\ \A x \in C : x.action = "recv_node_reward" /\ x.round = round
  BY CallsAreListed
<1>8. IsList(d, D) /\ \A x \in D : x.action = "recv_voter_dividend_reward" /\ x.round = round
  BY CallsAreListed
<1>9. \A x \in A : x.action = "transfer" /\ x.round = round /\ x.to \in T /\ x.amount = h[x.to]
  <2> HIDE DEF m, T
  <2> QED BY <1>3
<1>10. \A x \in B : x.action = "transfer" /\ x.round = round /\ x.to = Community /\ x.amount = whole
  <2> HIDE DEF y, whole
  <2> QED BY <1>4
<1>11. dispatch_all_reward(round, nodes, dividends, community) = ((a \o b) \o c) \o d
  BY DEF dispatch_all_reward
<1> HIDE DEF a, b, c, d, C, D, B
<1>12. A \cap B = {} /\ (A \cup B) \cap C = {} /\ (A \cup B \cup C) \cap D = {}
  <2> HIDE DEF A, T
  <2> QED BY <1>1, <1>7, <1>8, <1>9, <1>10
<1>13. ValueOf(A) = SumFunctionOnSet(h, T)
  <2> DEFINE f == [x \in A |-> AmountIn(x)]
  <2>1. \A t \in T : m[t] \in A /\ h[t] = f[m[t]]
    BY <1>3 DEF AmountIn
  <2>2. \A s, t \in T : m[s] = m[t] => s = t
    <3> HIDE DEF m, T
    <3> QED BY <1>3
  <2>3. \A x \in A : f[x] \in Int
    <3> SUFFICES ASSUME NEW t \in T PROVE f[m[t]] \in Int
      OBVIOUS
    <3> HIDE DEF f, m
    <3> QED BY <2>1
  <2>4. A = {m[t] : t \in T} /\ \A t \in T : h[t] = f[m[t]]
    BY <2>1
  <2> HIDE DEF f, m, A, T
  <2>5. SumFunctionOnSet(f, A) = SumFunctionOnSet(h, T)
    BY <1>1, <2>2, <2>3, <2>4, SumOfImages
  <2> QED BY <2>5 DEF ValueOf, f
<1> HIDE DEF A, T, m, y
<1>14. AreTasks(A) /\ AreTasks(B) /\ AreTasks(C) /\ AreTasks(D)
  <2>1. \A x \in A : AmountIn(x) \in Nat
    BY <1>9 DEF AmountIn, T
  <2>2. \A x \in B : AmountIn(x) \in Nat
    BY <1>2, <1>10 DEF AmountIn
  <2>3. \A x \in C : AmountIn(x) = 0
    BY <1>7 DEF AmountIn
  <2>4. \A x \in D : AmountIn(x) = 0
    BY <1>8 DEF AmountIn
  <2> QED BY <1>5, <1>6, <1>7, <1>8, <2>1, <2>2, <2>3, <2>4, ListsAreFinite DEF AreTasks
<1>15. ValueOf(B) = whole
  <2> DEFINE f == [x \in B |-> AmountIn(x)]
  <2>1. CASE whole > 0
    <3>1. B = {y} /\ y \in B
      BY <2>1 DEF B
    <3>2. f[y] = whole /\ \A x \in B \ {y} : f[x] = 0
      BY <1>10, <3>1 DEF AmountIn
    <3> HIDE DEF f
    <3>3. SumFunctionOnSet(f, B) = f[y]
      BY <1>2, <1>6, <3>1, <3>2, SumOfOne
    <3> QED BY <3>2, <3>3 DEF ValueOf, f
  <2>2. CASE ~ (whole > 0)
    <3>1. B = {} /\ whole = 0
      BY <1>2, <2>2 DEF B
    <3>2. SumFunctionOnSet(f, B) = 0
      BY <3>1, SumOfNone
    <3> QED BY <3>1, <3>2 DEF ValueOf
  <2> QED BY <2>1, <2>2
<1>16. ValueOf(C) = 0 /\ ValueOf(D) = 0
  <2> DEFINE f == [x \in C |-> AmountIn(x)]
             g == [x \in D |-> AmountIn(x)]
  <2>1. \A x \in C : f[x] = 0
    BY <1>7 DEF AmountIn
  <2>2. \A x \in D : g[x] = 0
    BY <1>8 DEF AmountIn
  <2>3. IsFiniteSet(C) /\ IsFiniteSet(D)
    BY <1>14 DEF AreTasks
  <2> HIDE DEF f, g
  <2>4. SumFunctionOnSet(f, C) = 0 /\ SumFunctionOnSet(g, D) = 0
    BY <2>1, <2>2, <2>3, SumOfZeros
  <2> QED BY <2>4 DEF ValueOf, f, g
<1> DEFINE AB == A \cup B
           ABC == AB \cup C
           S == ABC \cup D
<1>17. IsList(a \o b, AB) /\ AreTasks(AB) /\ ValueOf(AB) = ValueOf(A) + ValueOf(B)
  BY <1>5, <1>6, <1>12, <1>14, ListsTogether, ValueTogether
<1>18. AB \cap C = {} /\ ABC \cap D = {}
  BY <1>12
<1> HIDE DEF AB
<1>19. IsList((a \o b) \o c, ABC) /\ AreTasks(ABC) /\ ValueOf(ABC) = ValueOf(AB) + ValueOf(C)
  BY <1>7, <1>14, <1>17, <1>18, ListsTogether, ValueTogether
<1> HIDE DEF ABC
<1>20. IsList(((a \o b) \o c) \o d, S) /\ AreTasks(S) /\ ValueOf(S) = ValueOf(ABC) + ValueOf(D)
  BY <1>8, <1>14, <1>18, <1>19, ListsTogether, ValueTogether
<1>21. \A x \in S : x.round = round
  BY <1>7, <1>8, <1>9, <1>10 DEF ABC, AB
<1>22. ValueOf(A) \in Nat /\ ValueOf(B) \in Nat
  BY <1>14, ValueType
<1>23. ValueOf(S) = SumFunctionOnSet(h, T) + whole
  <2> HIDE DEF S
  <2> QED BY <1>13, <1>15, <1>16, <1>17, <1>19, <1>20, <1>22
<1> HIDE DEF S, whole
<1> QED BY <1>11, <1>20, <1>21, <1>23 DEF T, whole, Listed

-----------------------------------------------------------------------------
(***************************************************************************)
(* What a round's tables get.                                              *)
(***************************************************************************)
TotalAt(r, t) == IF t \in DOMAIN r THEN Total(r[t]) ELSE 0

LEMMA NonEmptyFacts ==
  ASSUME NEW M, \A t \in Table : IsRewards(M[t])
  PROVE  /\ ByTable(NonEmpty(M))
         /\ \A t \in Table : TotalAt(NonEmpty(M), t) = Total(M[t]) /\ Total(M[t]) \in Nat
<1> DEFINE E == {s \in Table : DOMAIN M[s] # {}}
<1>1. NonEmpty(M) = [t \in E |-> M[t]]
  BY DEF NonEmpty
<1>2. ByTable(NonEmpty(M))
  BY <1>1 DEF ByTable
<1>3. \A t \in Table : Total(M[t]) \in Nat
  BY TotalOfRewards
<1>4. ASSUME NEW t \in Table, t \notin E PROVE Total(M[t]) = 0
  <2> DEFINE D == DOMAIN M[t]
             f == [x \in D |-> M[t][x]]
  <2>1. D = {}
    BY <1>4
  <2>2. SumFunctionOnSet(f, D) = 0
    <3> HIDE DEF f, D
    <3> QED BY <2>1, SumOfNone
  <2> QED BY <2>2 DEF Total, SumOver
<1> HIDE DEF E
<1>5. \A t \in Table : TotalAt(NonEmpty(M), t) = Total(M[t])
  BY <1>1, <1>4 DEF TotalAt
<1> QED BY <1>2, <1>3, <1>5

\* Leaving out what is 0 does not change a total.
LEMMA TotalOfPositive ==
  ASSUME NEW S, IsFiniteSet(S), NEW v, \A n \in S : v[n] \in Nat,
         NEW m, m = [n \in {k \in S : v[k] > 0} |-> v[n]]
  PROVE  IsRewards(m) /\ Total(m) = SumFunctionOnSet(v, S)
<1> DEFINE K == {k \in S : v[k] > 0}
           f == [n \in K |-> m[n]]
<1>1. DOMAIN m = K /\ K \in SUBSET S /\ IsFiniteSet(K)
  BY FS_Subset
<1>2. \A n \in K : f[n] = v[n]
  OBVIOUS
<1>3. IsRewards(m)
  BY <1>1 DEF IsRewards
<1>4. \A n \in S : v[n] \in Int
  OBVIOUS
<1>5. \A n \in S \ K : v[n] = 0
  <2> SUFFICES ASSUME NEW n \in S, ~ (v[n] > 0) PROVE v[n] = 0
    OBVIOUS
  <2>1. v[n] \in Nat
    OBVIOUS
  <2> QED BY <2>1
<1>6. Total(m) = SumFunctionOnSet(f, K)
  BY <1>1 DEF Total, SumOver
<1> HIDE DEF K, f
<1>7. SumFunctionOnSet(f, K) = SumFunctionOnSet(v, K)
  BY <1>1, <1>2, SumSame
<1>8. SumFunctionOnSet(v, S) = SumFunctionOnSet(v, K)
  BY <1>1, <1>4, <1>5, SumNonzero
<1> QED BY <1>3, <1>6, <1>7, <1>8

\* Every node's own reward is in its table's total.
LEMMA NodeRewardsAre ==
  ASSUME NEW self, DOMAIN self \subseteq Node, \A n \in DOMAIN self : self[n] \in Nat,
         NEW a, \A t \in Table : a[t] = TotalAt(NodeRewards(self), t)
  PROVE  /\ ByTable(NodeRewards(self))
         /\ \A t \in Table : a[t] \in Nat
         /\ SumFunctionOnSet(a, Table) = SumFunctionOnSet(self, DOMAIN self)
<1> DEFINE D == DOMAIN self
           g == [t \in Table |-> {n \in D : TableOf[n] = t}]
           M == [t \in Table |-> OfTable({n \in D : TableOf[n] = t}, LAMBDA n : self[n])]
<1>1. IsFiniteSet(D) /\ IsFiniteSet(Table) /\ \A n \in D : TableOf[n] \in Table
  BY RewardAssumption, FS_Subset
<1>2. NodeRewards(self) = NonEmpty(M)
  BY DEF NodeRewards
<1>3. \A t \in Table : IsFiniteSet(g[t]) /\ g[t] \subseteq D
  BY <1>1, FS_Subset
<1>4. \A t \in Table : M[t] = [n \in {k \in g[t] : self[k] > 0} |-> self[n]]
  BY DEF OfTable
<1>5. \A t \in Table : IsRewards(M[t]) /\ Total(M[t]) = SumFunctionOnSet(self, g[t])
  <2> SUFFICES ASSUME NEW t \in Table
               PROVE  IsRewards(M[t]) /\ Total(M[t]) = SumFunctionOnSet(self, g[t])
    OBVIOUS
  <2> DEFINE S == g[t]
             m == M[t]
  <2>1. IsFiniteSet(S) /\ \A n \in S : self[n] \in Nat
    BY <1>3
  <2>2. m = [n \in {k \in S : self[k] > 0} |-> self[n]]
    BY <1>4
  <2> HIDE DEF S, m
  <2>3. IsRewards(m) /\ Total(m) = SumFunctionOnSet(self, S)
    BY <2>1, <2>2, TotalOfPositive
  <2> QED BY <2>3 DEF m, S
<1>6. AreGroups(g, Table, D)
  <2>1. D = UNION {g[t] : t \in Table}
    BY <1>1
  <2>2. \A s, t \in Table : s # t => g[s] \cap g[t] = {}
    OBVIOUS
  <2> HIDE DEF g, D
  <2> QED BY <1>1, <1>3, <2>1, <2>2 DEF AreGroups
<1> HIDE DEF M, g
<1>7. /\ ByTable(NodeRewards(self))
      /\ \A t \in Table : a[t] = Total(M[t]) /\ a[t] \in Nat
  BY <1>2, <1>5, NonEmptyFacts
<1>8. SumFunctionOnSet(a, Table) = SumFunctionOnSet(self, D)
  <2>1. \A t \in Table : a[t] = SumFunctionOnSet(self, g[t])
    BY <1>5, <1>7
  <2>2. \A n \in D : self[n] \in Int
    OBVIOUS
  <2> HIDE DEF D
  <2> QED BY <1>6, <2>1, <2>2, SumOfGroups
<1> QED BY <1>7, <1>8

\* The voters' shares of a dividend, over all tables, are no more than it.
LEMMA DividendRewardsAre ==
  ASSUME NEW tk, IsTally(tk),
         NEW dividend, DOMAIN dividend \subseteq Node, \A n \in DOMAIN dividend : dividend[n] \in Nat,
         NEW b, \A t \in Table : b[t] = TotalAt(DividendRewards(tk, dividend), t)
  PROVE  /\ ByTable(DividendRewards(tk, dividend))
         /\ \A t \in Table : b[t] \in Nat
         /\ SumFunctionOnSet(b, Table) <= SumFunctionOnSet(dividend, DOMAIN dividend)
<1> DEFINE D == DOMAIN dividend
           V == {n \in D : dividend[n] > 0 /\ VotesOf(tk, n) > 0}
           share(n, t) == (dividend[n] * AmountOf(tk[t], n)) \div VotesOf(tk, n)
           rows == [n \in V |-> [t \in Table |-> share(n, t)]]
           columns == [t \in Table |-> [n \in V |-> share(n, t)]]
           M == [t \in Table |-> OfTable(V, LAMBDA n : (dividend[n] * AmountOf(tk[t], n)) \div VotesOf(tk, n))]
           f == [n \in V |-> SumFunctionOnSet(rows[n], Table)]
<1>1. /\ IsFiniteSet(D) /\ IsFiniteSet(V) /\ V \in SUBSET D /\ IsFiniteSet(Table)
  BY RewardAssumption, FS_Subset
<1>2. DividendRewards(tk, dividend) = NonEmpty(M)
  BY DEF DividendRewards
<1>3. \A n \in V : /\ \A t \in Table : share(n, t) \in Nat
                   /\ f[n] \in Nat /\ f[n] <= dividend[n]
  <2> SUFFICES ASSUME NEW n \in V
               PROVE  /\ \A t \in Table : share(n, t) \in Nat
                      /\ f[n] \in Nat /\ f[n] <= dividend[n]
    OBVIOUS
  <2> DEFINE w == [t \in Table |-> AmountOf(tk[t], n)]
             all == VotesOf(tk, n)
             pot == dividend[n]
             r == rows[n]
  <2>1. \A t \in Table : w[t] \in Nat
    BY VotesType
  <2>2. all = SumFunctionOnSet(w, Table)
    BY DEF VotesOf, SumOver, IsTally
  <2>3. all # 0 /\ pot \in Nat
    <3>1. all \in Nat /\ all > 0
      BY VotesType
    <3> HIDE DEF all
    <3> QED BY <3>1
  <2>4. \A t \in Table : r[t] = (pot * w[t]) \div all /\ r[t] = share(n, t)
    OBVIOUS
  <2>5. f[n] = SumFunctionOnSet(r, Table)
    OBVIOUS
  <2> HIDE DEF w, all, pot, r
  <2>6. /\ \A t \in Table : r[t] \in Nat
        /\ SumFunctionOnSet(r, Table) \in Nat
        /\ SumFunctionOnSet(r, Table) <= pot
    BY <1>1, <2>1, <2>2, <2>3, <2>4, SharesOfWhole
  <2> HIDE DEF f, share
  <2> QED BY <2>4, <2>5, <2>6 DEF pot
<1>4. \A t \in Table : M[t] = [n \in {k \in V : columns[t][k] > 0} |-> columns[t][n]]
  <2> SUFFICES ASSUME NEW t \in Table
               PROVE  M[t] = [n \in {k \in V : columns[t][k] > 0} |-> columns[t][n]]
    OBVIOUS
  <2> DEFINE q == columns[t]
  <2>1. \A n \in V : q[n] = share(n, t)
    OBVIOUS
  <2>2. M[t] = [n \in {k \in V : share(k, t) > 0} |-> share(n, t)]
    BY DEF OfTable
  <2> HIDE DEF q, share, M, V
  <2>3. M[t] = [n \in {k \in V : q[k] > 0} |-> q[n]]
    BY <2>1, <2>2
  <2> QED BY <2>3 DEF q
<1>5. \A t \in Table : \A n \in V : columns[t][n] = share(n, t) /\ rows[n][t] = share(n, t)
  OBVIOUS
<1>6. \A n \in V : f[n] = SumFunctionOnSet(rows[n], Table)
  OBVIOUS
<1> HIDE DEF share, columns, rows, M, f
<1>7. \A t \in Table : IsRewards(M[t]) /\ Total(M[t]) = SumFunctionOnSet(columns[t], V)
  <2> SUFFICES ASSUME NEW t \in Table
               PROVE  IsRewards(M[t]) /\ Total(M[t]) = SumFunctionOnSet(columns[t], V)
    OBVIOUS
  <2> DEFINE q == columns[t]
             m == M[t]
  <2>1. \A n \in V : q[n] \in Nat
    BY <1>3, <1>5
  <2>2. m = [n \in {k \in V : q[k] > 0} |-> q[n]]
    BY <1>4
  <2>3. IsFiniteSet(V)
    BY <1>1
  <2> HIDE DEF q, m, V
  <2>4. IsRewards(m) /\ Total(m) = SumFunctionOnSet(q, V)
    BY <2>1, <2>2, <2>3, TotalOfPositive
  <2> QED BY <2>4 DEF m, q
<1> HIDE DEF V
<1>8. /\ ByTable(DividendRewards(tk, dividend))
      /\ \A t \in Table : b[t] = Total(M[t]) /\ b[t] \in Nat
  BY <1>2, <1>7, NonEmptyFacts
<1>9. SumFunctionOnSet(f, V) = SumFunctionOnSet(b, Table)
  <2>1. AreColumns(columns, rows, V, Table)
    BY <1>3, <1>5 DEF AreColumns
  <2>2. \A t \in Table : b[t] = SumFunctionOnSet(columns[t], V)
    BY <1>7, <1>8
  <2>3. IsFiniteSet(V) /\ IsFiniteSet(Table)
    BY <1>1
  <2> QED BY ONLY <1>6, <2>1, <2>2, <2>3, SumSwap
<1>10. SumFunctionOnSet(f, V) <= SumFunctionOnSet(dividend, V)
  <2>1. \A n \in V : f[n] \in Int /\ dividend[n] \in Int /\ f[n] <= dividend[n]
    BY <1>1, <1>3
  <2> QED BY <1>1, <2>1, SumMonotone
<1>11. /\ SumFunctionOnSet(dividend, V) \in Nat
       /\ SumFunctionOnSet(dividend, V) <= SumFunctionOnSet(dividend, D)
  <2> DEFINE R == D \ V
  <2>1. IsFiniteSet(R) /\ V \cup R = D /\ V \cap R = {}
    BY <1>1, FS_Subset
  <2>2. \A n \in V : dividend[n] \in Nat
    BY <1>1
  <2>3. \A n \in R : dividend[n] \in Nat
    OBVIOUS
  <2> HIDE DEF R
  <2>4. SumFunctionOnSet(dividend, V) \in Nat /\ SumFunctionOnSet(dividend, R) \in Nat
    BY <1>1, <2>1, <2>2, <2>3, SumOfNats
  <2>5. SumFunctionOnSet(dividend, V \cup R) = SumFunctionOnSet(dividend, V) + SumFunctionOnSet(dividend, R)
    <3>1. \A n \in V \cup R : dividend[n] \in Int
      BY <2>2, <2>3
    <3> QED BY <1>1, <2>1, <3>1, SumUnion
  <2>6. SumFunctionOnSet(dividend, V \cup R) = SumFunctionOnSet(dividend, D)
    BY <2>1, Zenon
  <2> HIDE DEF D
  <2> QED BY <2>4, <2>5, <2>6
<1>12. SumFunctionOnSet(f, V) \in Nat /\ SumFunctionOnSet(dividend, D) \in Nat
  BY <1>1, <1>3, SumOfNats
<1> QED BY <1>8, <1>9, <1>10, <1>11, <1>12 DEF D

\* A round transfers what it gives out, but for less than a token a table.
LEMMA RoundTransfers ==
  ASSUME NEW round, NEW tk, IsTally(tk), NEW community \in Nat,
         NEW self, DOMAIN self \subseteq Node, \A n \in DOMAIN self : self[n] \in Nat,
         NEW dividend, DOMAIN dividend \subseteq Node, \A n \in DOMAIN dividend : dividend[n] \in Nat,
         NEW list, list = dispatch_all_reward(round, NodeRewards(self),
                                              DividendRewards(tk, dividend), community)
  PROVE  /\ \E S : IsList(list, S) /\ AreTasks(S) /\ \A x \in S : x.round = round
         /\ TransfersIn(list) \in Nat
         /\ Precision * TransfersIn(list)
              <= SumFunctionOnSet(self, DOMAIN self) + SumFunctionOnSet(dividend, DOMAIN dividend)
                   + community + Precision * Cardinality(Table)
<1> DEFINE nr == NodeRewards(self)
           dr == DividendRewards(tk, dividend)
           T == DOMAIN nr \cup DOMAIN dr
           a == [t \in Table |-> TotalAt(nr, t)]
           b == [t \in Table |-> TotalAt(dr, t)]
           x == [t \in Table |-> a[t] + b[t]]
           h == [t \in Table |-> WholeUp(x[t])]
           low == [t \in Table |-> Precision * h[t]]
           one == [t \in Table |-> 1]
           p1 == [t \in Table |-> Precision * one[t]]
           high == [t \in Table |-> x[t] + p1[t]]
           sum(f) == SumFunctionOnSet(f, Table)
           sumSelf == SumFunctionOnSet(self, DOMAIN self)
           sumDividend == SumFunctionOnSet(dividend, DOMAIN dividend)
<1>1. IsFiniteSet(Table) /\ Cardinality(Table) \in Nat /\ Precision \in Nat
  BY RewardAssumption, DispatchAssumption, FS_CardinalityType
<1>2. /\ \A t \in Table : a[t] = TotalAt(nr, t) /\ b[t] = TotalAt(dr, t) /\ x[t] = a[t] + b[t]
                          /\ h[t] = WholeUp(x[t])
      /\ \A t \in Table : low[t] = Precision * h[t] /\ one[t] = 1 /\ p1[t] = Precision * one[t]
                          /\ high[t] = x[t] + p1[t]
  OBVIOUS
<1> HIDE DEF a, b, x, h, low, one, p1, high
<1>3. ByTable(nr) /\ \A t \in Table : a[t] \in Nat
  <2>1. \A t \in Table : a[t] = TotalAt(NodeRewards(self), t)
    BY <1>2
  <2> QED BY <2>1, NodeRewardsAre
<1>4. sum(a) = sumSelf
  <2>1. \A t \in Table : a[t] = TotalAt(NodeRewards(self), t)
    BY <1>2
  <2> QED BY <2>1, NodeRewardsAre
<1>5. ByTable(dr) /\ (\A t \in Table : b[t] \in Nat) /\ sum(b) <= sumDividend
  <2>1. \A t \in Table : b[t] = TotalAt(DividendRewards(tk, dividend), t)
    BY <1>2
  <2> QED BY <2>1, DividendRewardsAre
<1>6. sumSelf \in Nat /\ sumDividend \in Nat
  BY RewardAssumption, FS_Subset, SumOfNats
<1> HIDE DEF nr, dr
<1>7. T \in SUBSET Table
  BY <1>3, <1>5 DEF ByTable
<1>8. \A t \in Table : /\ x[t] \in Nat /\ h[t] \in Nat
                       /\ Precision * h[t] <= x[t] + Precision
                       /\ x[t] = 0 => h[t] = 0
  <2> SUFFICES ASSUME NEW t \in Table
               PROVE  /\ x[t] \in Nat /\ h[t] \in Nat
                      /\ Precision * h[t] <= x[t] + Precision
                      /\ x[t] = 0 => h[t] = 0
    OBVIOUS
  <2>1. x[t] \in Nat
    BY <1>2, <1>3, <1>5
  <2>2. h[t] = WholeUp(x[t])
    BY <1>2
  <2> QED BY <2>1, <2>2, WholeFacts
<1>9. \A t \in Table : TableTotal(nr, dr, t) = x[t]
  BY <1>2 DEF TableTotal, TotalAt
<1>10. \A t \in Table \ T : h[t] = 0
  <2> SUFFICES ASSUME NEW t \in Table \ T PROVE h[t] = 0
    OBVIOUS
  <2>1. a[t] = 0 /\ b[t] = 0
    BY <1>2 DEF TotalAt
  <2>2. x[t] = 0
    BY <1>2, <2>1
  <2> QED BY <1>8, <2>2
<1>11. sum(h) = SumFunctionOnSet(h, T)
  <2>1. \A t \in Table : h[t] \in Int
    BY <1>8
  <2> HIDE DEF T
  <2> QED BY <1>1, <1>7, <1>10, <2>1, SumNonzero
<1>12. Listed(list, round, SumFunctionOnSet(h, T) + Whole(community))
  <2>1. \A t \in DOMAIN nr \cup DOMAIN dr : h[t] = WholeUp(TableTotal(nr, dr, t)) /\ h[t] \in Nat
    <3> SUFFICES ASSUME NEW t \in T PROVE h[t] = WholeUp(TableTotal(nr, dr, t)) /\ h[t] \in Nat
      OBVIOUS
    <3>1. t \in Table
      BY <1>7
    <3> QED BY <1>2, <1>8, <1>9, <3>1
  <2>2. list = dispatch_all_reward(round, nr, dr, community)
    BY DEF nr, dr
  <2>3. Listed(dispatch_all_reward(round, nr, dr, community), round,
               SumFunctionOnSet(h, DOMAIN nr \cup DOMAIN dr) + Whole(community))
    BY ONLY community \in Nat, <1>3, <1>5, <2>1, DispatchIs
  <2> QED BY <2>2, <2>3
<1>13. TransfersIn(list) = sum(h) + Whole(community)
  BY <1>11, <1>12, ListValue DEF Listed
<1>14. Whole(community) \in Nat /\ Precision * Whole(community) <= community
  BY WholeFacts
<1>15. sum(low) = Precision * sum(h)
  <2>1. Precision \in Int
    BY <1>1
  <2>2. \A t \in Table : h[t] \in Int /\ low[t] = Precision * h[t]
    BY <1>2, <1>8
  <2> QED BY <1>1, <2>1, <2>2, SumTimes
<1>16. sum(low) <= sum(high)
  <2>1. \A t \in Table : low[t] \in Int /\ high[t] \in Int /\ low[t] <= high[t]
    <3> SUFFICES ASSUME NEW t \in Table
                 PROVE  low[t] \in Int /\ high[t] \in Int /\ low[t] <= high[t]
      OBVIOUS
    <3>1. low[t] = Precision * h[t] /\ p1[t] = Precision /\ high[t] = x[t] + p1[t]
      BY <1>1, <1>2
    <3>2. Precision * h[t] \in Nat
      BY <1>1, <1>8
    <3> QED BY <1>1, <1>8, <3>1, <3>2
  <2> QED BY <1>1, <2>1, SumMonotone
<1>17. sum(high) = sum(x) + sum(p1)
  <2>1. \A t \in Table : x[t] \in Int /\ p1[t] \in Int /\ high[t] = x[t] + p1[t]
    BY <1>1, <1>2, <1>8
  <2>2. IsFiniteSet(Table)
    BY <1>1
  <2> QED BY ONLY <2>1, <2>2, SumPlus
<1>18. sum(x) = sum(a) + sum(b)
  <2>1. \A t \in Table : a[t] \in Int /\ b[t] \in Int /\ x[t] = a[t] + b[t]
    BY <1>2, <1>3, <1>5
  <2>2. IsFiniteSet(Table)
    BY <1>1
  <2> QED BY ONLY <2>1, <2>2, SumPlus
<1>19. sum(p1) = Precision * Cardinality(Table)
  <2>1. Precision \in Int
    BY <1>1
  <2>2. \A t \in Table : one[t] \in Int /\ p1[t] = Precision * one[t]
    BY <1>2
  <2>3. sum(p1) = Precision * sum(one)
    BY <1>1, <2>1, <2>2, SumTimes
  <2>4. \A t \in Table : one[t] = 1
    BY <1>2
  <2>5. sum(one) = Cardinality(Table)
    BY <1>1, <2>4, SumOfOnes
  <2> QED BY <2>3, <2>5
<1>20. sum(h) \in Nat /\ sum(b) \in Nat
  BY <1>1, <1>5, <1>8, SumOfNats
<1>21. Precision * (sum(h) + Whole(community)) = Precision * sum(h) + Precision * Whole(community)
       /\ Precision * sum(h) \in Nat /\ Precision * Whole(community) \in Nat
       /\ Precision * Cardinality(Table) \in Nat
  <2> HIDE DEF sum
  <2> QED BY <1>1, <1>14, <1>20
<1> DEFINE pt == Precision * TransfersIn(list)
           ph == Precision * sum(h)
           pw == Precision * Whole(community)
           pc == Precision * Cardinality(Table)
<1>22. pt = ph + pw /\ ph \in Nat /\ pw \in Nat /\ pc \in Nat
  BY <1>13, <1>21
<1>23. ph <= sum(a) + sum(b) + pc
  BY <1>15, <1>16, <1>17, <1>18, <1>19
<1>24. pw <= community
  BY <1>14
<1>25. TransfersIn(list) \in Nat
  <2> HIDE DEF sum
  <2> QED BY <1>13, <1>14, <1>20
<1>26. sum(a) \in Nat
  BY <1>4, <1>6
<1> HIDE DEF sum, sumSelf, sumDividend, pt, ph, pw, pc
<1>27. pt <= sumSelf + sumDividend + community + pc
  BY <1>4, <1>5, <1>6, <1>20, <1>22, <1>23, <1>24, <1>26
<1> QED BY <1>12, <1>25, <1>27 DEF pt, pc, sumSelf, sumDividend, Listed

-----------------------------------------------------------------------------
(***************************************************************************)
(* The books of rounds.                                                    *)
(***************************************************************************)
\* The sums of PotsAreSpent, role by role.
LEMMA FractionsOf ==
  ASSUME NEW w, IsWorkload(w), NEW total \in Nat, NEW D, IsFiniteSet(D)
  PROVE  /\ SumOver({role \in GroupRole : w[role] = << >>}, LAMBDA role : PotOf(role, total))
              = Unled("auditor", w, total) + Unled("validator", w, total)
         /\ Cardinality(Pot) + 3 * Cardinality(D)
              + SumOver(GroupRole, LAMBDA role : Cardinality(DOMAIN w[role]) + Leaders(w[role]))
              = Divisions(D, w)
         /\ Divisions(D, w) \in Nat
         /\ Unled("auditor", w, total) \in Nat /\ Unled("validator", w, total) \in Nat
<1> DEFINE N == {role \in GroupRole : w[role] = << >>}
           f == [role \in N |-> PotOf(role, total)]
           g == [role \in GroupRole |-> Unled(role, w, total)]
           h == [role \in GroupRole |-> Cardinality(DOMAIN w[role]) + Leaders(w[role])]
           c == Cardinality(Pot)
           d == Cardinality(D)
<1>1. \A role \in GroupRole : PotOf(role, total) \in Nat
  BY PotType DEF GroupRole, Pot
<1>2. \A role \in GroupRole : g[role] = IF role \in N THEN f[role] ELSE 0
  BY DEF Unled
<1>3. IsFiniteSet(GroupRole)
  <2>1. IsFiniteSet({"auditor"})
    BY FS_Singleton
  <2>2. IsFiniteSet({"auditor"} \cup {"validator"}) /\ GroupRole = {"auditor"} \cup {"validator"}
    BY <2>1, FS_AddElement DEF GroupRole
  <2> QED BY <2>2
<1>4. "auditor" \in GroupRole /\ "validator" \in GroupRole
  BY DEF GroupRole
<1>5. g["auditor"] = Unled("auditor", w, total) /\ g["validator"] = Unled("validator", w, total)
      /\ Unled("auditor", w, total) \in Nat /\ Unled("validator", w, total) \in Nat
  BY <1>1, <1>4 DEF Unled
<1>6. \A role \in GroupRole : Cardinality(DOMAIN w[role]) \in Nat /\ Leaders(w[role]) \in Nat
  BY LeadersType, FS_CardinalityType DEF IsWorkload, IsGroups, IsWork
<1>7. h["auditor"] = Cardinality(DOMAIN w.auditor) + Leaders(w.auditor)
      /\ h["validator"] = Cardinality(DOMAIN w.validator) + Leaders(w.validator)
      /\ h["auditor"] \in Nat /\ h["validator"] \in Nat
  BY <1>4, <1>6
<1>8. SumFunctionOnSet(g, GroupRole) = SumFunctionOnSet(f, N)
  <2>1. N \in SUBSET GroupRole /\ \A role \in N : f[role] \in Int
    BY <1>1
  <2> HIDE DEF f, g, N
  <2> QED BY ONLY <1>2, <1>3, <2>1, SumWithin
<1>9. SumFunctionOnSet(g, GroupRole) = g["auditor"] + g["validator"]
  <2>1. g["auditor"] \in Int /\ g["validator"] \in Int
    BY <1>5
  <2> HIDE DEF g
  <2> QED BY <2>1, RolesSum
<1>10. SumFunctionOnSet(h, GroupRole) = h["auditor"] + h["validator"]
  <2>1. h["auditor"] \in Int /\ h["validator"] \in Int
    BY <1>7
  <2> HIDE DEF h
  <2> QED BY <2>1, RolesSum
<1>11. c \in Nat /\ d \in Nat
  BY PotIsFinite, FS_CardinalityType
<1>12. Divisions(D, w) = c + 3 * d + (Cardinality(DOMAIN w.auditor) + Leaders(w.auditor))
         + (Cardinality(DOMAIN w.validator) + Leaders(w.validator))
  BY DEF Divisions
<1>13. SumOver(N, LAMBDA role : PotOf(role, total)) = SumFunctionOnSet(f, N)
  BY DEF SumOver
<1>14. SumOver(GroupRole, LAMBDA role : Cardinality(DOMAIN w[role]) + Leaders(w[role]))
         = SumFunctionOnSet(h, GroupRole)
  BY DEF SumOver
<1> HIDE DEF f, g, h, c, d
<1>15. Divisions(D, w) = c + 3 * d + SumFunctionOnSet(h, GroupRole) /\ Divisions(D, w) \in Nat
  <2>1. Divisions(D, w) = c + 3 * d + h["auditor"] + h["validator"]
    BY <1>7, <1>12
  <2> QED BY <1>7, <1>10, <1>11, <2>1
<1> QED BY <1>5, <1>8, <1>9, <1>13, <1>14, <1>15 DEF c, d

\* Adding to one year.
LEMMA YearAdded ==
  ASSUME NEW m, IsRewards(m), NEW y, NEW v \in Nat, NEW new, new = MapWith(m, y, AmountOf(m, y) + v)
  PROVE  IsRewards(new) /\ Total(new) = Total(m) + v
<1> DEFINE D == DOMAIN m
           E == D \cup {y}
           f == [x \in D |-> m[x]]
           g == [x \in E |-> new[x]]
           b == [x \in E |-> AmountOf(m, x)]
<1>1. IsFiniteSet(D) /\ \A x \in D : m[x] \in Nat
  BY DEF IsRewards
<1>2. IsFiniteSet(E)
  BY <1>1, FS_AddElement
<1>3. DOMAIN new = E /\ \A x \in E : new[x] = IF x = y THEN AmountOf(m, y) + v ELSE m[x]
  BY DEF MapWith
<1>4. \A x \in E : AmountOf(m, x) \in Nat
  BY <1>1 DEF AmountOf
<1>5. \A x \in E : /\ b[x] \in Int /\ g[x] \in Nat
                   /\ (x # y => g[x] = b[x])
                   /\ (x \in D => b[x] = f[x]) /\ (x \notin D => b[x] = 0)
  <2> SUFFICES ASSUME NEW x \in E
               PROVE  /\ b[x] \in Int /\ g[x] \in Nat
                      /\ (x # y => g[x] = b[x])
                      /\ (x \in D => b[x] = f[x]) /\ (x \notin D => b[x] = 0)
    OBVIOUS
  <2>1. b[x] = AmountOf(m, x) /\ b[x] \in Nat /\ AmountOf(m, y) \in Nat
    BY <1>4
  <2>2. g[x] = IF x = y THEN AmountOf(m, y) + v ELSE m[x]
    BY <1>3
  <2>3. x \in D => f[x] = m[x] /\ AmountOf(m, x) = m[x]
    BY DEF AmountOf
  <2>4. x \notin D => AmountOf(m, x) = 0 /\ x = y
    BY DEF AmountOf
  <2> HIDE DEF b, g, f, D, E
  <2> QED BY <1>1, <2>1, <2>2, <2>3, <2>4
<1>6. g[y] = b[y] + v /\ b[y] \in Int /\ g[y] \in Int
  <2>1. y \in E /\ b[y] = AmountOf(m, y) /\ g[y] = AmountOf(m, y) + v
    BY <1>3
  <2>2. AmountOf(m, y) \in Nat
    BY <1>4
  <2> HIDE DEF b, g, f, E, D
  <2> QED BY <2>1, <2>2
<1>7. IsRewards(new)
  BY <1>2, <1>3, <1>5 DEF IsRewards
<1>8. Total(new) = SumFunctionOnSet(g, E) /\ Total(m) = SumFunctionOnSet(f, D)
  BY <1>3 DEF Total, SumOver
<1>9. y \in E /\ D \in SUBSET E
  OBVIOUS
<1> HIDE DEF E, f, g, b, D
<1>10. SumFunctionOnSet(g, E) = SumFunctionOnSet(b, E) + (g[y] - b[y])
  <2>1. \A x \in E : b[x] \in Int /\ g[x] \in Int
    BY <1>5
  <2>2. \A x \in E \ {y} : g[x] = b[x]
    BY <1>5
  <2> QED BY <1>2, <1>9, <2>1, <2>2, SumChange
<1>11. SumFunctionOnSet(b, E) = SumFunctionOnSet(f, D)
  <2>1. \A x \in E : b[x] = IF x \in D THEN f[x] ELSE 0
    BY <1>5
  <2>2. \A x \in D : f[x] \in Int
    BY <1>5, <1>9
  <2> QED BY ONLY <1>2, <1>9, <2>1, <2>2, SumWithin
<1>12. SumFunctionOnSet(f, D) \in Int
  <2>1. \A x \in D : f[x] \in Int
    BY <1>5, <1>9
  <2> QED BY <1>1, <2>1, SumTakeOut
<1> QED BY <1>6, <1>7, <1>8, <1>10, <1>11, <1>12

\* The issuance that rounds have computed, on the schedule.
OnSchedule(rec, done) ==
  \A U : IsReserve(U) =>
    /\ rec.issued_until_last_year_end = U[YearOf(rec.last_issuance_time)]
    /\ ClocksPerYear * done.amount <= Scheduled(U, rec.last_issuance_time)
    /\ Scheduled(U, rec.last_issuance_time)
         <= ClocksPerYear * (done.amount + done.rounds + YearOf(rec.last_issuance_time))

LEMMA RoundOnSchedule ==
  ASSUME NEW rec, NEW last \in Nat, rec.last_issuance_time = last,
         NEW done, done.amount \in Nat, done.rounds \in Nat, OnSchedule(rec, done),
         NEW h \in Nat, last <= h,
         NEW calc, calc = calc_issuance(rec, h),
         NEW new, new = [amount |-> done.amount + calc.issuance, rounds |-> done.rounds + 1]
  PROVE  /\ calc.issuance \in Nat
         /\ calc.record.last_issuance_time = h
         /\ calc.record.issued_until_last_year_end \in Nat
         /\ OnSchedule(calc.record, new)
<1> DEFINE x == calc.issuance
           a == done.amount
           r == done.rounds
           yl == YearOf(last)
           yh == YearOf(h)
           p == ClocksPerYear
<1>1. p \in Nat /\ yl \in Nat /\ yh \in Nat /\ a \in Nat /\ r \in Nat
  BY RewardAssumption, YearFacts
<1>2. ASSUME NEW U, IsReserve(U)
      PROVE  /\ x \in Nat
             /\ calc.record.last_issuance_time = h
             /\ calc.record.issued_until_last_year_end = U[yh]
             /\ U[yh] \in Nat
             /\ p * (a + x) <= Scheduled(U, h)
             /\ Scheduled(U, h) <= p * (a + x + (r + 1) + yh)
  <2>1. /\ rec.issued_until_last_year_end = U[yl]
        /\ p * a <= Scheduled(U, last)
        /\ Scheduled(U, last) <= p * (a + r + yl)
    BY <1>2 DEF OnSchedule
  <2>2. /\ x \in Nat
        /\ calc.record.last_issuance_time = h
        /\ calc.record.issued_until_last_year_end = U[yh]
        /\ p * x <= Scheduled(U, h) - Scheduled(U, last)
        /\ Scheduled(U, h) - Scheduled(U, last) <= p * (x + (yh - yl) + 1)
    BY <1>2, <2>1, IssuanceOnSchedule
  <2>3. Scheduled(U, h) \in Nat /\ Scheduled(U, last) \in Nat /\ U[yh] \in Nat
    BY <1>1, <1>2, WorthType DEF IsReserve
  <2> HIDE DEF x, a, r, yl, yh, p
  <2>4. /\ p * (a + x) = p * a + p * x /\ p * a \in Nat /\ p * x \in Nat
        /\ p * (a + x + (r + 1) + yh) = p * (a + r + yl) + p * (x + (yh - yl) + 1)
        /\ p * (a + r + yl) \in Nat /\ p * (x + (yh - yl) + 1) \in Int
    BY <1>1, <2>2
  <2> DEFINE low == p * (a + x)
             high == p * (a + x + (r + 1) + yh)
             l1 == p * a
             l2 == p * x
             h1 == p * (a + r + yl)
             h2 == p * (x + (yh - yl) + 1)
  <2>5. low = l1 + l2 /\ l1 \in Nat /\ l2 \in Nat /\ high = h1 + h2 /\ h1 \in Nat /\ h2 \in Int
    BY <2>4
  <2>6. l1 <= Scheduled(U, last) /\ l2 <= Scheduled(U, h) - Scheduled(U, last)
        /\ Scheduled(U, last) <= h1 /\ Scheduled(U, h) - Scheduled(U, last) <= h2
    BY <2>1, <2>2
  <2> HIDE DEF low, high, l1, l2, h1, h2
  <2>7. low <= Scheduled(U, h) /\ Scheduled(U, h) <= high
    BY <2>3, <2>5, <2>6
  <2> QED BY <2>2, <2>3, <2>7 DEF low, high
<1>3. PICK U : IsReserve(U)
  BY ReserveExists
<1>4. /\ x \in Nat
      /\ calc.record.last_issuance_time = h
      /\ calc.record.issued_until_last_year_end \in Nat
  BY <1>2, <1>3
<1>5. new.amount = a + x /\ new.rounds = r + 1
  OBVIOUS
<1>6. OnSchedule(calc.record, new)
  <2> HIDE DEF x, a, r
  <2> QED BY <1>2, <1>4, <1>5 DEF OnSchedule
<1> QED BY <1>4, <1>6

\* What was given out of a round's issuance, from the round's details.
IsSpent(d) ==
  LET spent == Total(d.earned) + d.community
      leaders(role) == SumOver(DOMAIN d.work[role], LAMBDA g : Cardinality(DOMAIN d.work[role][g]))
      unled == SumOver({role \in GroupRole : d.work[role] = << >>},
                       LAMBDA role : PotOf(role, d.issuance))
      divisions == Cardinality(Pot) + 3 * Cardinality(DOMAIN d.earned)
                     + SumOver(GroupRole, LAMBDA role : Cardinality(DOMAIN d.work[role]) + leaders(role))
  IN  /\ spent <= d.issuance
      /\ d.issuance - spent - unled <= divisions

LEMMA SpentBySums ==
  ASSUME NEW d, IsWorkload(d.work), d.issuance \in Nat, IsFiniteSet(DOMAIN d.earned),
         Total(d.earned) + d.community <= d.issuance,
         d.issuance - (Total(d.earned) + d.community)
             - (Unled("auditor", d.work, d.issuance) + Unled("validator", d.work, d.issuance))
           <= Divisions(DOMAIN d.earned, d.work)
  PROVE  IsSpent(d)
<1> DEFINE w == d.work
           total == d.issuance
           D == DOMAIN d.earned
           unled == SumOver({role \in GroupRole : w[role] = << >>}, LAMBDA role : PotOf(role, total))
           divisions == Cardinality(Pot) + 3 * Cardinality(D)
             + SumOver(GroupRole, LAMBDA role : Cardinality(DOMAIN w[role]) + Leaders(w[role]))
<1>1. unled = Unled("auditor", w, total) + Unled("validator", w, total)
      /\ divisions = Divisions(D, w)
  <2> DEFINE u == Unled("auditor", w, total) + Unled("validator", w, total)
  <2>1. IsWorkload(w) /\ total \in Nat /\ IsFiniteSet(D)
    OBVIOUS
  <2> HIDE DEF w, total, D
  <2> QED BY <2>1, FractionsOf
<1>2. total - (Total(d.earned) + d.community) - unled <= divisions
  <2> HIDE DEF unled, divisions
  <2> QED BY <1>1
<1> QED BY <1>2 DEF IsSpent, Leaders

\* Tasks that are queued, none of a later round than now.
Queued(list, now) ==
  \E S : IsList(list, S) /\ AreTasks(S) /\ \A x \in S : x.round \in 0 .. now

LEMMA QueuedRounds ==
  ASSUME NEW list, NEW now \in Nat, Queued(list, now)
  PROVE  /\ \A i \in DOMAIN list : list[i].round <= now
         /\ Queued(list, now + 1)
         /\ TransfersIn(list) \in Nat
<1>1. PICK S : IsList(list, S) /\ AreTasks(S) /\ \A x \in S : x.round \in 0 .. now
  BY DEF Queued
<1>2. S = {list[i] : i \in DOMAIN list}
  BY <1>1, ListsAreFinite
<1>3. \A i \in DOMAIN list : list[i].round <= now
  BY <1>1, <1>2
<1>4. \A x \in S : x.round \in 0 .. now + 1
  BY <1>1
<1>5. TransfersIn(list) \in Nat
  BY <1>1, ListValue, ValueType
<1> QED BY <1>1, <1>3, <1>4, <1>5 DEF Queued

LEMMA NothingQueued == \A now \in Nat : Queued(<< >>, now) /\ TransfersIn(<< >>) = 0
<1> SUFFICES ASSUME NEW now \in Nat PROVE Queued(<< >>, now) /\ TransfersIn(<< >>) = 0
  OBVIOUS
<1> DEFINE e == << >>
<1>1. IsList(e, {})
  BY ListOfOne
<1>2. AreTasks({})
  BY FS_EmptySet DEF AreTasks
<1>3. ValueOf({}) = 0
  BY SumOfNone DEF ValueOf
<1>4. TransfersIn(e) = 0
  <2> HIDE DEF e
  <2> QED BY <1>1, <1>2, <1>3, ListValue
<1> QED BY <1>1, <1>2, <1>4 DEF Queued

LEMMA TasksExecuted ==
  ASSUME NEW list, NEW now \in Nat, Queued(list, now),
         NEW out, out = SumOver({x \in Executed(list) : x.action = "transfer"}, LAMBDA x : x.amount)
  PROVE  /\ Queued(Remaining(list), now)
         /\ out \in Nat
         /\ TransfersIn(list) = out + TransfersIn(Remaining(list))
         /\ TransfersIn(Remaining(list)) \in Nat
<1>1. PICK S : IsList(list, S) /\ AreTasks(S) /\ \A x \in S : x.round \in 0 .. now
  BY DEF Queued
<1> DEFINE r == Remaining(list)
           R == Range(r)
<1>2. /\ IsList(r, R) /\ R \subseteq S
      /\ out \in Nat /\ TransfersIn(r) \in Nat /\ TransfersIn(list) = out + TransfersIn(r)
  BY <1>1, ExecutedValue
<1> HIDE DEF r, R
<1>3. AreTasks(R)
  BY <1>1, <1>2, FS_Subset DEF AreTasks
<1>4. Queued(r, now)
  BY <1>1, <1>2, <1>3 DEF Queued
<1> QED BY <1>2, <1>4 DEF r

-----------------------------------------------------------------------------
(***************************************************************************)
(* One round: what it gives out, queues and books.                         *)
(***************************************************************************)
LEMMA InputsType ==
  /\ \A m \in Registries : IsNodes(m)
  /\ \A tk \in TicketSets : IsTally(tk)
  /\ \A info \in Workloads : DOMAIN info = GroupRole /\ \A role \in GroupRole : IsWork(info[role])
BY InputAssumption DEF IsNodes, IsTally

IsDetail(d) ==
  /\ \A n \in DOMAIN d.earned : d.dividend[n] \in 0 .. d.earned[n]
  /\ IsSpent(d)

\* What reward() computes from a total.
IsRound(nodes, tk, w, total, round, earned, dividend, self, community, list) ==
  /\ earned = [n \in DOMAIN nodes |-> Earned(nodes, tk, w, total, n)]
  /\ dividend = [n \in DOMAIN nodes |-> Dividend(nodes, tk, earned[n], n)]
  /\ self = [n \in DOMAIN nodes |-> earned[n] - dividend[n]]
  /\ community = CommunityReward(nodes, tk, w, total)
  /\ list = dispatch_all_reward(round, NodeRewards(self), DividendRewards(tk, dividend), community)

\* A ratio of what is earned is no more than that.
LEMMA DividendType ==
  ASSUME NEW nodes, IsNodes(nodes), NEW tk, NEW n \in DOMAIN nodes, NEW earned \in Nat
  PROVE  Dividend(nodes, tk, earned, n) \in 0 .. earned
<1> DEFINE r == nodes[n].ratio
           p == earned * r
           q == p \div 100
<1>1. r \in 0 .. 100
  BY DEF IsNodes
<1>2. p \in Nat /\ p <= 100 * earned
  <2>1. earned * r <= earned * 100
    <3> HIDE DEF r
    <3> QED BY <1>1, Products
  <2>2. earned * r \in Nat
    <3> HIDE DEF r
    <3> QED BY <1>1
  <2> QED BY <2>1, <2>2
<1>3. Dividend(nodes, tk, earned, n) = IF r > 0 /\ VotesOf(tk, n) > 0 THEN q ELSE 0
  BY DEF Dividend
<1> HIDE DEF r, p
<1>4. q \in Nat /\ q <= earned
  BY <1>2
<1> HIDE DEF q
<1> QED BY <1>3, <1>4

LEMMA RoundBooks ==
  ASSUME NEW nodes, IsNodes(nodes), NEW tk, IsTally(tk), NEW w, IsWorkload(w), NEW total \in Nat,
         NEW round \in Nat, NEW earned, NEW dividend, NEW self, NEW community, NEW list,
         IsRound(nodes, tk, w, total, round, earned, dividend, self, community, list)
  PROVE  /\ IsDetail([issuance |-> total, community |-> community, earned |-> earned,
                      dividend |-> dividend, work |-> w])
         /\ Queued(list, round)
         /\ TransfersIn(list) \in Nat
         /\ Precision * TransfersIn(list) <= total + Precision * Cardinality(Table)
<1> DEFINE D == DOMAIN nodes
           sum(f) == SumFunctionOnSet(f, D)
           unled == Unled("auditor", w, total) + Unled("validator", w, total)
           d == [issuance |-> total, community |-> community, earned |-> earned,
                 dividend |-> dividend, work |-> w]
<1>0. /\ earned = [n \in D |-> Earned(nodes, tk, w, total, n)]
      /\ dividend = [n \in D |-> Dividend(nodes, tk, earned[n], n)]
      /\ self = [n \in D |-> earned[n] - dividend[n]]
      /\ community = CommunityReward(nodes, tk, w, total)
      /\ list = dispatch_all_reward(round, NodeRewards(self), DividendRewards(tk, dividend), community)
  BY DEF IsRound
<1>1. IsFiniteSet(D) /\ D \subseteq Node
  BY NodesAreFinite DEF IsNodes
<1>2. /\ \A n \in D : earned[n] \in Nat
      /\ sum(earned) \in Nat
      /\ community \in Nat
      /\ sum(earned) + community <= total
      /\ total - (sum(earned) + community) - unled <= Divisions(D, w)
  <2>1. \A n \in DOMAIN nodes : earned[n] = Earned(nodes, tk, w, total, n)
    BY <1>0
  <2>2. community = CommunityReward(nodes, tk, w, total)
    BY <1>0
  <2> QED BY <2>1, <2>2, RoundGives
<1>3. /\ DOMAIN earned = D /\ DOMAIN self = D /\ DOMAIN dividend = D
      /\ \A n \in D : self[n] = earned[n] - dividend[n] /\ self[n] \in Nat /\ dividend[n] \in Nat
  <2>1. /\ DOMAIN earned = D /\ DOMAIN self = D /\ DOMAIN dividend = D
        /\ \A n \in D : self[n] = earned[n] - dividend[n]
                       /\ dividend[n] = Dividend(nodes, tk, earned[n], n)
    BY <1>0
  <2>2. \A n \in D : dividend[n] \in 0 .. earned[n]
    BY <1>2, <2>1, DividendType
  <2> QED BY <1>2, <2>1, <2>2
<1>4. sum(earned) = sum(self) + sum(dividend)
  <2>1. \A n \in D : self[n] \in Int /\ dividend[n] \in Int /\ earned[n] = self[n] + dividend[n]
    BY <1>2, <1>3
  <2> QED BY ONLY <1>1, <2>1, SumPlus
<1>5. Total(earned) = sum(earned)
  <2>1. earned = [n \in D |-> earned[n]]
    BY <1>0
  <2> HIDE DEF D
  <2> QED BY <1>3, <2>1 DEF Total, SumOver
<1>6. /\ \E S : IsList(list, S) /\ AreTasks(S) /\ \A x \in S : x.round = round
      /\ TransfersIn(list) \in Nat
      /\ Precision * TransfersIn(list)
           <= sum(self) + sum(dividend) + community + Precision * Cardinality(Table)
  <2>1. /\ DOMAIN self \subseteq Node /\ \A n \in DOMAIN self : self[n] \in Nat
        /\ DOMAIN dividend \subseteq Node /\ \A n \in DOMAIN dividend : dividend[n] \in Nat
    BY <1>1, <1>3
  <2>2. list = dispatch_all_reward(round, NodeRewards(self), DividendRewards(tk, dividend), community)
    BY <1>0
  <2>3. /\ \E S : IsList(list, S) /\ AreTasks(S) /\ \A x \in S : x.round = round
        /\ TransfersIn(list) \in Nat
        /\ Precision * TransfersIn(list)
             <= SumFunctionOnSet(self, DOMAIN self) + SumFunctionOnSet(dividend, DOMAIN dividend)
                  + community + Precision * Cardinality(Table)
    BY ONLY IsTally(tk), <1>2, <2>1, <2>2, RoundTransfers
  <2> QED BY <1>3, <2>3
<1>7. Queued(list, round)
  <2>1. PICK S : IsList(list, S) /\ AreTasks(S) /\ \A x \in S : x.round = round
    BY <1>6
  <2>2. \A x \in S : x.round \in 0 .. round
    BY <2>1
  <2> QED BY <2>1, <2>2 DEF Queued
<1>8. Precision * TransfersIn(list) <= total + Precision * Cardinality(Table)
  <2> DEFINE pt == Precision * TransfersIn(list)
             pc == Precision * Cardinality(Table)
  <2>1. pt \in Int /\ pc \in Int
    BY <1>6, RewardAssumption, DispatchAssumption, FS_CardinalityType
  <2>2. pt <= sum(self) + sum(dividend) + community + pc
    BY <1>6
  <2>3. sum(self) \in Nat /\ sum(dividend) \in Nat
    BY <1>1, <1>3, SumOfNats
  <2> HIDE DEF pt, pc, sum
  <2>4. pt <= total + pc
    BY <1>2, <1>4, <2>1, <2>2, <2>3
  <2> QED BY <2>4 DEF pt, pc
<1>9. /\ d.issuance = total /\ d.community = community /\ d.earned = earned
      /\ d.dividend = dividend /\ d.work = w
  OBVIOUS
<1> HIDE DEF d
<1>10. IsSpent(d)
  <2>1. IsWorkload(d.work) /\ d.issuance \in Nat /\ IsFiniteSet(DOMAIN d.earned)
    BY <1>1, <1>3, <1>9
  <2>2. Total(d.earned) + d.community <= d.issuance
    BY <1>2, <1>5, <1>9
  <2>3. d.issuance - (Total(d.earned) + d.community)
            - (Unled("auditor", d.work, d.issuance) + Unled("validator", d.work, d.issuance))
          <= Divisions(DOMAIN d.earned, d.work)
    BY <1>2, <1>3, <1>5, <1>9
  <2> QED BY <2>1, <2>2, <2>3, SpentBySums
<1>11. \A n \in DOMAIN d.earned : d.dividend[n] \in 0 .. d.earned[n]
  <2> SUFFICES ASSUME NEW n \in D PROVE dividend[n] \in 0 .. earned[n]
    BY <1>3, <1>9
  <2>1. earned[n] \in Nat /\ dividend[n] \in Nat /\ self[n] \in Nat /\ self[n] = earned[n] - dividend[n]
    BY <1>2, <1>3
  <2> QED BY ONLY <2>1
<1> QED BY <1>6, <1>7, <1>8, <1>10, <1>11 DEF IsDetail, d

LEMMA MergedWork ==
  ASSUME NEW old, IsWork(old), NEW new, IsWork(new)
  PROVE  IsGroups(Merged(old, new))
<1> DEFINE part(m, g) == IF g \in DOMAIN m THEN m[g] ELSE << >>
           G == DOMAIN old \cup DOMAIN new
           at(g) == [n \in DOMAIN part(old, g) \cup DOMAIN part(new, g) |->
                       AmountOf(part(old, g), n) + AmountOf(part(new, g), n)]
           m == [g \in G |-> at(g)]
<1>1. Merged(old, new) = m
  BY DEF Merged
<1>2. IsFiniteSet(G)
  BY FS_Union DEF IsWork
<1>3. ASSUME NEW g \in G
      PROVE  /\ DOMAIN part(old, g) \subseteq Node /\ DOMAIN part(new, g) \subseteq Node
             /\ \A n : AmountOf(part(old, g), n) \in Nat /\ AmountOf(part(new, g), n) \in Nat
  BY DEF IsWork, AmountOf
<1> HIDE DEF part
<1>4. \A g \in G : DOMAIN m[g] \subseteq Node /\ \A n \in DOMAIN m[g] : m[g][n] \in Nat
  <2> SUFFICES ASSUME NEW g \in G
               PROVE  DOMAIN m[g] \subseteq Node /\ \A n \in DOMAIN m[g] : m[g][n] \in Nat
    OBVIOUS
  <2> QED BY <1>3
<1>5. DOMAIN m = G /\ m = [g \in G |-> m[g]]
  OBVIOUS
<1> HIDE DEF m, G
<1>6. IsGroups(m)
  BY <1>2, <1>4, <1>5 DEF IsGroups, IsWork
<1> QED BY <1>1, <1>6

-----------------------------------------------------------------------------
(***************************************************************************)
(* The inductive invariant.  A round needs of the steps before it that the *)
(* tasks are listed once, that the workload is a map of maps and that the  *)
(* record stands for the clocks that were issued.                          *)
(***************************************************************************)
Shape ==
  /\ registry \in Seq(Registries)
  /\ IsWorkload(work)
  /\ IsRewards(issued.years)
  /\ Queued(tasks, time)

Inv ==
  /\ TypeOK
  /\ Shape
  /\ OnSchedule(record, computed)
  /\ IsSpent(detail)
  /\ IssuanceIsTransferred

LEMMA NoWork == IsWorkload([role \in GroupRole |-> << >>])
<1> DEFINE e == << >>
<1>1. DOMAIN e = {} /\ e = [g \in DOMAIN e |-> e[g]] /\ IsFiniteSet(DOMAIN e)
  BY FS_EmptySet
<1>2. IsGroups(e)
  BY <1>1 DEF IsGroups, IsWork
<1> QED BY <1>2 DEF IsWorkload

LEMMA NothingIssued == OnSchedule([last_issuance_time |-> 0, issued_until_last_year_end |-> 0],
                                  [amount |-> 0, rounds |-> 0])
<1> SUFFICES ASSUME NEW U, IsReserve(U)
             PROVE  /\ 0 = U[YearOf(0)]
                    /\ ClocksPerYear * 0 <= Scheduled(U, 0)
                    /\ Scheduled(U, 0) <= ClocksPerYear * (0 + 0 + YearOf(0))
  BY DEF OnSchedule
<1>1. ClocksPerYear \in Nat \ {0}
  BY RewardAssumption
<1>2. YearOf(0) = 0
  BY <1>1, YearIs
<1>3. Scheduled(U, 0) = 0
  <2> DEFINE D == 0 .. 0 - 1
             f == ClockWorth(U)
  <2>1. D = {}
    OBVIOUS
  <2> HIDE DEF D, f
  <2>2. SumFunctionOnSet(f, D) = 0
    BY <2>1, SumOfNone
  <2> QED BY <2>2 DEF Scheduled, D, f
<1> QED BY <1>1, <1>2, <1>3 DEF IsReserve

LEMMA NoDetails ==
  /\ IsSpent(NoDetail)
  /\ \A n \in DOMAIN NoDetail.earned : NoDetail.dividend[n] \in 0 .. NoDetail.earned[n]
<1> DEFINE e == << >>
           w == [role \in GroupRole |-> << >>]
           d == NoDetail
<1>1. d.work = w /\ d.issuance = 0 /\ d.community = 0 /\ d.earned = e /\ DOMAIN e = {}
  BY DEF NoDetail
<1>2. IsFiniteSet({}) /\ Total(e) = 0
  <2> DEFINE D == {}
             f == [x \in DOMAIN e |-> e[x]]
  <2>1. DOMAIN e = D
    OBVIOUS
  <2> HIDE DEF f
  <2>2. SumFunctionOnSet(f, D) = 0
    BY SumOfNone
  <2>3. SumFunctionOnSet(f, DOMAIN e) = 0
    BY <2>1, <2>2
  <2> QED BY <2>3, FS_EmptySet DEF Total, SumOver, f
<1>3. IsWorkload(w)
  BY NoWork
<1> HIDE DEF w, d
<1>4. Unled("auditor", w, 0) \in Nat /\ Unled("validator", w, 0) \in Nat /\ Divisions({}, w) \in Nat
  <2> DEFINE z == 0
             D == {}
  <2>1. z \in Nat /\ IsFiniteSet(D)
    BY <1>2
  <2> HIDE DEF z, D
  <2>2. Unled("auditor", w, z) \in Nat /\ Unled("validator", w, z) \in Nat /\ Divisions(D, w) \in Nat
    BY <1>3, <2>1, FractionsOf
  <2> QED BY <2>2 DEF z, D
<1> DEFINE u == Unled("auditor", w, 0) + Unled("validator", w, 0)
           v == Divisions({}, w)
<1>5. 0 - (0 + 0) - u <= v
  <2>1. u \in Nat /\ v \in Nat
    BY <1>4
  <2> HIDE DEF u, v
  <2> QED BY <2>1
<1>6. IsSpent(d)
  <2>1. IsWorkload(d.work) /\ d.issuance \in Nat /\ IsFiniteSet(DOMAIN d.earned)
    BY <1>1, <1>2, <1>3
  <2>2. Total(d.earned) + d.community <= d.issuance
    BY <1>1, <1>2
  <2>3. d.issuance - (Total(d.earned) + d.community)
            - (Unled("auditor", d.work, d.issuance) + Unled("validator", d.work, d.issuance))
          <= Divisions(DOMAIN d.earned, d.work)
    BY <1>1, <1>2, <1>5
  <2> QED BY <2>1, <2>2, <2>3, SpentBySums
<1> QED BY <1>1, <1>6 DEF d

LEMMA InitInv == Init => Inv
<1> SUFFICES ASSUME Init PROVE Inv
  OBVIOUS
<1>1. PICK m \in Registries : registry = <<m>>
  BY DEF Init
<1>2. registry \in Seq(Registries) /\ Len(registry) = 1 /\ \A i \in DOMAIN registry : registry[i] \in Registries
  BY <1>1
<1>3. Total(issued.years) = 0 /\ IsRewards(issued.years) /\ DOMAIN issued.years = {} /\ issued.total = 0
  <2> DEFINE e == << >>
             D == {}
             f == [x \in DOMAIN e |-> e[x]]
  <2>1. issued.years = e /\ DOMAIN e = D /\ issued.total = 0
    BY DEF Init
  <2>2. IsRewards(e)
    BY <2>1, FS_EmptySet DEF IsRewards
  <2>3. SumFunctionOnSet(f, DOMAIN e) = 0
    <3> HIDE DEF f
    <3>1. SumFunctionOnSet(f, D) = 0
      BY SumOfNone
    <3> QED BY <2>1, <3>1
  <2> QED BY <2>1, <2>2, <2>3 DEF Total, SumOver
<1>4. tasks = << >> /\ Queued(tasks, time) /\ TransfersIn(tasks) = 0 /\ time = 1
  BY NothingQueued DEF Init
<1>5. IsWorkload(work)
  BY NoWork DEF Init
<1>6. OnSchedule(record, computed)
  BY NothingIssued DEF Init
<1>7. IsSpent(detail) /\ \A n \in DOMAIN detail.earned : detail.dividend[n] \in 0 .. detail.earned[n]
  BY NoDetails DEF Init
<1>8. read = [height |-> 0, time |-> 0] /\ record = [last_issuance_time |-> 0, issued_until_last_year_end |-> 0]
      /\ computed = [amount |-> 0, rounds |-> 0] /\ sent = 0 /\ reports = 0 /\ activation = 0
      /\ tickets \in TicketSets
  BY DEF Init
<1>9. /\ read.height = 0 /\ read.time = 0 /\ record.last_issuance_time = 0
      /\ record.issued_until_last_year_end = 0 /\ computed.amount = 0 /\ computed.rounds = 0
  BY <1>8
<1>10. TypeOK
  <2>1. read.height \in 0 .. latest_height
    BY <1>2, <1>9 DEF latest_height
  <2>2. DOMAIN work = GroupRole /\ \A role \in GroupRole : IsWork(work[role])
    BY <1>5 DEF IsWorkload, IsGroups
  <2>3. \A i \in DOMAIN tasks : tasks[i].round <= time
    BY <1>4
  <2>4. reports \in 0 .. MaxReports
    BY <1>8, RewardAssumption
  <2> QED BY <1>2, <1>3, <1>4, <1>7, <1>8, <1>9, <2>1, <2>2, <2>3, <2>4 DEF TypeOK
<1>11. IssuanceIsTransferred
  <2> DEFINE c == Cardinality(Table)
  <2>1. Precision \in Nat /\ c \in Nat
    BY RewardAssumption, DispatchAssumption, FS_CardinalityType
  <2>2. Precision * 0 = 0 /\ Precision * c * 0 = 0
    <3> HIDE DEF c
    <3> QED BY <2>1
  <2> QED BY <1>3, <1>4, <1>8, <1>9, <2>2 DEF IssuanceIsTransferred
<1> QED BY <1>2, <1>3, <1>4, <1>5, <1>6, <1>7, <1>10, <1>11 DEF Inv, Shape

\* A timer round that carries out tasks.
LEMMA TaskStep ==
  ASSUME Inv, execute_task, UNCHANGED <<inputs, reports, time>>
  PROVE  Inv'
<1> DEFINE out == SumOver({x \in Executed(tasks) : x.action = "transfer"}, LAMBDA x : x.amount)
<1>1. time \in Nat /\ Queued(tasks, time) /\ sent \in Nat /\ IssuanceIsTransferred
  BY DEF Inv, TypeOK, Shape
<1>2. /\ Queued(Remaining(tasks), time) /\ out \in Nat
      /\ TransfersIn(tasks) = out + TransfersIn(Remaining(tasks))
      /\ TransfersIn(Remaining(tasks)) \in Nat
  BY <1>1, TasksExecuted
<1>3. /\ tasks' = Remaining(tasks) /\ sent' = sent + out
      /\ UNCHANGED <<registry, tickets, activation, work, read, record, issued, detail, computed,
                     reports, time>>
  BY DEF execute_task, inputs
<1> HIDE DEF out
<1>4. Queued(tasks', time') /\ \A i \in DOMAIN tasks' : tasks'[i].round <= time'
  BY <1>1, <1>2, <1>3, QueuedRounds
<1>5. TypeOK'
  BY <1>1, <1>2, <1>3, <1>4 DEF Inv, TypeOK, latest_height
<1>6. Shape'
  BY <1>3, <1>4 DEF Inv, Shape
<1>7. IssuanceIsTransferred'
  <2>1. issued.total = sent + TransfersIn(tasks)
    BY <1>1 DEF IssuanceIsTransferred
  <2>2. issued'.total = sent' + TransfersIn(tasks')
    BY <1>1, <1>2, <1>3, <2>1
  <2> QED BY <1>1, <1>3, <2>2 DEF IssuanceIsTransferred
<1> QED BY <1>3, <1>5, <1>6, <1>7 DEF Inv

\* A timer round that computes what everyone gets.
LEMMA RoundStep ==
  ASSUME Inv, tasks = << >>, reward_is_expire, reward, UNCHANGED <<inputs, reports, time>>
  PROVE  Inv'
<1> DEFINE nodes == registry[read.height + 1]
           h == Age
           last == record.last_issuance_time
           calc == calc_issuance(record, h)
           total == calc.issuance
           earned == [n \in DOMAIN nodes |-> Earned(nodes, tickets, work, total, n)]
           dividend == [n \in DOMAIN nodes |-> Dividend(nodes, tickets, earned[n], n)]
           self == [n \in DOMAIN nodes |-> earned[n] - dividend[n]]
           community == CommunityReward(nodes, tickets, work, total)
           list == dispatch_all_reward(time, NodeRewards(self), DividendRewards(tickets, dividend),
                                       community)
           tokens == TransfersIn(list)
           done == [amount |-> computed.amount + total, rounds |-> computed.rounds + 1]
           d == [issuance |-> total, community |-> community, earned |-> earned,
                 dividend |-> dividend, work |-> work]
<1>1. TypeOK /\ Shape /\ OnSchedule(record, computed) /\ IsSpent(detail) /\ IssuanceIsTransferred
  BY DEF Inv
<1>2. nodes \in Registries
  BY <1>1 DEF TypeOK, Shape, latest_height
<1>3. IsNodes(nodes) /\ IsTally(tickets) /\ IsWorkload(work)
  BY <1>1, <1>2, InputsType DEF TypeOK, Shape
<1>4. time \in Nat /\ last \in Nat /\ h \in Nat /\ last <= h /\ h <= time
  <2>1. time \in Nat /\ activation \in 0 .. time /\ last \in 0 .. time
    BY <1>1 DEF TypeOK
  <2>2. time > activation + last /\ h = time - activation
    BY DEF reward_is_expire, Age
  <2> HIDE DEF h, last
  <2> QED BY ONLY <2>1, <2>2
<1>5. computed.amount \in Nat /\ computed.rounds \in Nat /\ issued.total \in Nat
  BY <1>1 DEF TypeOK
<1>6. /\ work' = [role \in GroupRole |-> << >>]
      /\ tasks' = list
      /\ issued' = Accumulated(tokens)
      /\ record' = calc.record
      /\ detail' = d
      /\ computed' = done
      /\ UNCHANGED <<read, sent>>
  BY DEF reward
<1>7. UNCHANGED <<registry, tickets, activation, reports, time>>
  BY DEF inputs
<1>8. /\ total \in Nat
      /\ calc.record.last_issuance_time = h
      /\ calc.record.issued_until_last_year_end \in Nat
      /\ OnSchedule(calc.record, done)
  <2>1. calc = calc_issuance(record, h) /\ record.last_issuance_time = last
        /\ done = [amount |-> computed.amount + calc.issuance, rounds |-> computed.rounds + 1]
    OBVIOUS
  <2> HIDE DEF calc, done, h, last
  <2> QED BY <1>1, <1>4, <1>5, <2>1, RoundOnSchedule
<1>9. /\ IsDetail(d) /\ Queued(list, time) /\ tokens \in Nat
      /\ Precision * tokens <= total + Precision * Cardinality(Table)
  <2>1. IsRound(nodes, tickets, work, total, time, earned, dividend, self, community, list)
    BY DEF IsRound
  <2>2. total \in Nat /\ time \in Nat
    BY <1>4, <1>8
  <2> HIDE DEF nodes, total, earned, dividend, self, community, list
  <2> QED BY ONLY <1>3, <2>1, <2>2, RoundBooks
<1> DEFINE year == YearOf(h) + 1
           new == MapWith(issued.years, year, AmountOf(issued.years, year) + tokens)
<1>10. issued' = [years |-> new, total |-> issued.total + tokens]
  BY <1>6 DEF Accumulated
<1> HIDE DEF nodes, h, calc, total, earned, dividend, self, community, list, d, year, done
<1>11. done = [amount |-> computed.amount + total, rounds |-> computed.rounds + 1]
  BY DEF done, total
<1>12. IsRewards(new) /\ Total(new) = Total(issued.years) + tokens
  <2>1. IsRewards(issued.years)
    BY <1>1 DEF Shape
  <2> HIDE DEF tokens
  <2> QED BY <1>9, <2>1, YearAdded
<1> HIDE DEF new, tokens
<1>13. issued'.years = new /\ issued'.total = issued.total + tokens
       /\ computed'.amount = computed.amount + total /\ computed'.rounds = computed.rounds + 1
  BY <1>6, <1>10, <1>11
<1>14. Shape'
  <2>1. IsWorkload(work')
    BY <1>6, NoWork
  <2> QED BY <1>1, <1>6, <1>7, <1>9, <1>12, <1>13, <2>1 DEF Shape
<1>15. TypeOK'
  <2>1. DOMAIN work' = GroupRole /\ \A role \in GroupRole : IsWork(work'[role])
    BY <1>6, NoWork DEF IsWorkload, IsGroups
  <2>2. \A i \in DOMAIN tasks' : tasks'[i].round <= time'
    BY <1>4, <1>6, <1>7, <1>9, QueuedRounds
  <2>3. \A n \in DOMAIN detail'.earned : detail'.dividend[n] \in 0 .. detail'.earned[n]
    BY <1>6, <1>9 DEF IsDetail
  <2>4. record'.last_issuance_time \in 0 .. time' /\ record'.issued_until_last_year_end \in Nat
    BY <1>4, <1>6, <1>7, <1>8
  <2>5. issued'.total \in Nat /\ (\A y \in DOMAIN issued'.years : issued'.years[y] \in Nat)
    BY <1>5, <1>9, <1>12, <1>13 DEF IsRewards
  <2>6. computed'.amount \in Nat /\ computed'.rounds \in Nat
    BY <1>5, <1>8, <1>13
  <2>7. /\ \A i \in DOMAIN registry' : registry'[i] \in Registries
        /\ tickets' \in TicketSets /\ activation' \in 0 .. time'
        /\ read'.height \in 0 .. latest_height' /\ read'.time \in 0 .. time'
        /\ sent' \in Nat /\ reports' \in 0 .. MaxReports /\ time' \in Nat
    BY <1>1, <1>6, <1>7 DEF TypeOK, latest_height
  <2> QED BY <2>1, <2>2, <2>3, <2>4, <2>5, <2>6, <2>7 DEF TypeOK
<1>16. IssuanceIsTransferred'
  <2> DEFINE c == Cardinality(Table)
             r == computed.rounds
             it == issued.total
             tr == TransfersIn(tasks')
  <2>1. TransfersIn(tasks) = 0 /\ tr = tokens
    BY <1>6, NothingQueued DEF tokens
  <2>2. /\ it = sent + TransfersIn(tasks)
        /\ Total(issued.years) = it
        /\ Precision * it <= computed.amount + Precision * c * r
    BY <1>1 DEF IssuanceIsTransferred
  <2>3. sent \in Nat /\ it \in Nat /\ r \in Nat /\ Precision \in Nat /\ c \in Nat
    BY <1>1, <1>5, RewardAssumption, DispatchAssumption, FS_CardinalityType DEF TypeOK
  <2>4. issued'.total = sent' + TransfersIn(tasks')
    BY <1>6, <1>9, <1>13, <2>1, <2>2, <2>3
  <2>5. Total(issued'.years) = issued'.total
    BY <1>12, <1>13, <2>2
  <2>6. /\ Precision * (it + tokens) = Precision * it + Precision * tokens
        /\ Precision * c * (r + 1) = Precision * c * r + Precision * c
        /\ Precision * it \in Nat /\ Precision * tokens \in Nat
        /\ Precision * c * r \in Nat /\ Precision * c \in Nat
    <3> HIDE DEF c, r, it
    <3> QED BY <1>9, <2>3
  <2> DEFINE p1 == Precision * it
             p2 == Precision * tokens
             q1 == Precision * c * r
             q2 == Precision * c
             p == Precision * (it + tokens)
             q == Precision * c * (r + 1)
  <2>7. /\ p = p1 + p2 /\ q = q1 + q2 /\ p1 <= computed.amount + q1 /\ p2 <= total + q2
        /\ p1 \in Nat /\ p2 \in Nat /\ q1 \in Nat /\ q2 \in Nat
    BY <1>9, <2>2, <2>6
  <2>8. Precision * issued'.total = p /\ Precision * c * computed'.rounds = q
    BY <1>13
  <2> HIDE DEF p1, p2, q1, q2, p, q
  <2>9. p <= (computed.amount + total) + q
    BY <1>5, <1>8, <2>7
  <2>10. Precision * issued'.total <= computed'.amount + Precision * c * computed'.rounds
    BY <1>13, <2>8, <2>9
  <2> QED BY <2>4, <2>5, <2>10 DEF IssuanceIsTransferred, c
<1>17. OnSchedule(record', computed') /\ IsSpent(detail')
  BY <1>6, <1>8, <1>9 DEF IsDetail
<1> QED BY <1>14, <1>15, <1>16, <1>17 DEF Inv

\* A timer round that moves on the height of the registrations.
LEMMA ReadStep ==
  ASSUME Inv, update_reg_contract_read_status, UNCHANGED <<inputs, reports, time>>
  PROVE  Inv'
<1>1. /\ registry \in Seq(Registries) /\ time \in Nat
      /\ read.height \in 0 .. latest_height
  BY DEF Inv, TypeOK, Shape
<1>2. /\ latest_height \in Int
      /\ UNCHANGED <<registry, tickets, activation, work, record, issued, tasks, detail, computed,
                     sent, reports, time>>
  BY <1>1 DEF update_reg_contract_read_status, inputs, latest_height
<1>3. read'.height \in 0 .. latest_height /\ read'.time = time
  <2>1. CASE latest_height - read.height >= HeightStep
             /\ read' = [height |-> read.height + HeightStep, time |-> time]
    <3>1. HeightStep \in Nat
      BY RewardAssumption
    <3>2. read'.height = read.height + HeightStep /\ read'.time = time
      BY <2>1
    <3> QED BY <1>1, <1>2, <2>1, <3>1, <3>2
  <2>2. CASE read' = [height |-> latest_height, time |-> time]
    <3>1. read'.height = latest_height /\ read'.time = time
      BY <2>2
    <3> QED BY <1>1, <1>2, <3>1
  <2> QED BY <2>1, <2>2 DEF update_reg_contract_read_status
<1>4. latest_height' = latest_height
  BY <1>2 DEF latest_height
<1>5. TypeOK'
  BY <1>1, <1>2, <1>3, <1>4 DEF Inv, TypeOK
<1> QED BY <1>2, <1>5 DEF Inv, Shape, IssuanceIsTransferred

\* A report of workload.
LEMMA ReportStep ==
  ASSUME Inv, NEW info \in Workloads, calculate_reward(info)
  PROVE  Inv'
<1>1. /\ reports' = reports + 1 /\ reports < MaxReports
      /\ work' = [role \in GroupRole |-> Merged(work[role], info[role])]
      /\ UNCHANGED <<registry, tickets, activation, read, record, issued, tasks, detail, computed,
                     sent, time>>
  BY DEF calculate_reward, inputs
<1>2. \A role \in GroupRole : IsGroups(Merged(work[role], info[role]))
  <2>1. \A role \in GroupRole : IsWork(work[role]) /\ IsWork(info[role])
    BY InputsType DEF Inv, Shape, IsWorkload, IsGroups
  <2> QED BY <2>1, MergedWork
<1>3. IsWorkload(work')
  BY <1>1, <1>2 DEF IsWorkload
<1>4. reports' \in 0 .. MaxReports
  BY <1>1, RewardAssumption DEF Inv, TypeOK
<1>5. TypeOK'
  BY <1>1, <1>3, <1>4 DEF Inv, TypeOK, latest_height, IsWorkload, IsGroups
<1> QED BY <1>1, <1>3, <1>5 DEF Inv, Shape, IssuanceIsTransferred

\* The next block of the registration contract, or other tallies.
LEMMA InputStep ==
  ASSUME Inv, Inputs
  PROVE  Inv'
<1>1. /\ registry \in Seq(Registries)
      /\ read.height \in 0 .. latest_height
  BY DEF Inv, TypeOK, Shape
<1>2. CASE \E m \in Registries : NewRegistry(m)
  <2>1. PICK m \in Registries : NewRegistry(m)
    BY <1>2
  <2>2. /\ registry' = Append(registry, m)
        /\ UNCHANGED <<tickets, activation, work, read, record, issued, tasks, detail, computed,
                       sent, reports, time>>
    BY <2>1 DEF NewRegistry
  <2>3. registry' \in Seq(Registries) /\ Len(registry') = Len(registry) + 1
    BY <1>1, <2>2
  <2>4. \A i \in DOMAIN registry' : registry'[i] \in Registries
    BY <2>3
  <2>5. read'.height \in 0 .. latest_height'
    <3>1. latest_height = Len(registry) - 1 /\ latest_height' = Len(registry') - 1 /\ Len(registry) \in Nat
      BY <1>1 DEF latest_height
    <3> QED BY <1>1, <2>2, <2>3, <3>1
  <2>6. TypeOK'
    BY <2>2, <2>4, <2>5 DEF Inv, TypeOK
  <2> QED BY <2>2, <2>3, <2>6 DEF Inv, Shape, IssuanceIsTransferred
<1>3. CASE \E tk \in TicketSets : NewTickets(tk)
  <2>1. /\ tickets' \in TicketSets
        /\ UNCHANGED <<registry, activation, work, read, record, issued, tasks, detail, computed,
                       sent, reports, time>>
    BY <1>3 DEF NewTickets
  <2>2. TypeOK'
    BY <2>1 DEF Inv, TypeOK, latest_height
  <2> QED BY <2>1, <2>2 DEF Inv, Shape, IssuanceIsTransferred
<1> QED BY <1>2, <1>3 DEF Inputs

\* The activation, and the clock.
LEMMA TimeStep ==
  ASSUME Inv, Activate \/ Tick
  PROVE  Inv'
<1>1. time \in Nat /\ Queued(tasks, time)
  BY DEF Inv, TypeOK, Shape
<1>2. CASE Activate
  <2>1. /\ activation' = time
        /\ UNCHANGED <<registry, tickets, work, read, record, issued, tasks, detail, computed,
                       sent, reports, time>>
    BY <1>2 DEF Activate
  <2>2. TypeOK'
    BY <1>1, <2>1 DEF Inv, TypeOK, latest_height
  <2> QED BY <2>1, <2>2 DEF Inv, Shape, IssuanceIsTransferred
<1>3. CASE Tick
  <2>1. /\ time' = time + 1
        /\ UNCHANGED <<registry, tickets, activation, work, read, record, issued, tasks, detail,
                       computed, sent, reports>>
    BY <1>3 DEF Tick, inputs
  <2>2. Queued(tasks', time') /\ time' \in Nat
    BY <1>1, <2>1, QueuedRounds
  <2>3. \A i \in DOMAIN tasks' : tasks'[i].round <= time'
    BY <2>2, QueuedRounds
  <2>4. /\ activation' \in 0 .. time' /\ read'.time \in 0 .. time'
        /\ record'.last_issuance_time \in 0 .. time'
    BY <1>1, <2>1 DEF Inv, TypeOK
  <2>5. TypeOK'
    BY <2>1, <2>2, <2>3, <2>4 DEF Inv, TypeOK, latest_height
  <2> QED BY <2>1, <2>2, <2>5 DEF Inv, Shape, IssuanceIsTransferred
<1> QED BY <1>2, <1>3

LEMMA NextInv == Inv /\ [Next]_vars => Inv'
<1> SUFFICES ASSUME Inv, [Next]_vars PROVE Inv'
  OBVIOUS
<1>1. CASE on_timer
  <2>1. UNCHANGED <<inputs, reports, time>>
    BY <1>1 DEF on_timer
  <2>2. CASE tasks # << >>
    BY <1>1, <2>1, <2>2, TaskStep DEF on_timer
  <2>3. CASE tasks = << >> /\ reward_is_expire
    BY <1>1, <2>1, <2>3, RoundStep DEF on_timer
  <2>4. CASE tasks = << >> /\ ~ reward_is_expire
    BY <1>1, <2>1, <2>4, ReadStep DEF on_timer
  <2> QED BY <2>2, <2>3, <2>4
<1>2. CASE Report
  BY <1>2, ReportStep DEF Report
<1>3. CASE Inputs
  BY <1>3, InputStep
<1>4. CASE Activate \/ Tick
  BY <1>4, TimeStep
<1>5. CASE UNCHANGED vars
  <2>1. UNCHANGED <<registry, tickets, activation, work, read, record, issued, tasks, detail,
                    computed, sent, reports, time>>
    BY <1>5 DEF vars, inputs
  <2>2. TypeOK'
    BY <2>1 DEF Inv, TypeOK, latest_height
  <2> QED BY <2>1, <2>2 DEF Inv, Shape, IssuanceIsTransferred
<1> QED BY <1>1, <1>2, <1>3, <1>4, <1>5 DEF Next

LEMMA InvHolds == Spec => []Inv
BY InitInv, NextInv, PTL DEF Spec

\* In the property, the reserve is counted up to the year of the last round.
LEMMA ScheduleKept ==
  ASSUME TypeOK, OnSchedule(record, computed)
  PROVE  IssuanceFollowsSchedule
<1> DEFINE last == record.last_issuance_time
           y == YearOf(last)
           until == CHOOSE u : IsUntil(u, y)
           D == 0 .. last - 1
           f == [c \in D |-> get_reserve_reward(until[YearOf(c)])]
<1>1. last \in Nat /\ y \in Nat
  <2>1. last \in 0 .. time /\ time \in Nat
    BY DEF TypeOK
  <2>2. last \in Nat
    BY <2>1
  <2> HIDE DEF last
  <2> QED BY <2>2, YearFacts
<1>2. IsUntil(until, y)
  <2>1. \E u : IsUntil(u, y)
    BY <1>1, UntilExists
  <2> QED BY <2>1
<1>3. PICK U : IsReserve(U)
  BY ReserveExists
<1>4. /\ ClocksPerYear * computed.amount <= Scheduled(U, last)
      /\ Scheduled(U, last) <= ClocksPerYear * (computed.amount + computed.rounds + y)
  BY <1>3 DEF OnSchedule
<1>5. SumFunctionOnSet(f, D) = Scheduled(U, last)
  <2>1. \A k \in 0 .. y : until[k] = U[k]
    <3> HIDE DEF until, y
    <3> QED BY <1>1, <1>2, <1>3, UntilIsReserve
  <2>2. \A c \in D : f[c] = ClockWorth(U)[c]
    <3> SUFFICES ASSUME NEW c \in D PROVE f[c] = ClockWorth(U)[c]
      OBVIOUS
    <3>1. c \in Nat /\ c <= last
      BY <1>1
    <3>2. YearOf(c) \in 0 .. y
      <4>1. y - YearOf(c) \in Nat /\ YearOf(c) \in Nat
        BY <1>1, <3>1, YearsPass, YearFacts
      <4> QED BY <1>1, <4>1
    <3>3. f[c] = get_reserve_reward(until[YearOf(c)])
      OBVIOUS
    <3>4. ClockWorth(U)[c] = get_reserve_reward(U[YearOf(c)])
      BY <3>1 DEF ClockWorth
    <3> QED BY <2>1, <3>2, <3>3, <3>4
  <2>3. IsFiniteSet(D)
    BY <1>1, WorthType, <1>3
  <2> HIDE DEF f, D
  <2>4. SumFunctionOnSet(f, D) = SumFunctionOnSet(ClockWorth(U), D)
    BY <2>2, <2>3, SumSame
  <2> QED BY <2>4 DEF Scheduled, D
<1>6. IssuanceFollowsSchedule
        <=> /\ ClocksPerYear * computed.amount <= SumFunctionOnSet(f, D)
            /\ SumFunctionOnSet(f, D) <= ClocksPerYear * (computed.amount + computed.rounds + y)
  BY DEF IssuanceFollowsSchedule, SumOver, IsUntil
<1> HIDE DEF f, D, until
<1> QED BY <1>4, <1>5, <1>6

\* The types of the reward contract's state, whatever the registrations, the
\* tallies, the reports and the times of the timer rounds: no dividend is more
\* than its node has earned, the height that is read has been reached, and no
\* task is of a later round than now.
THEOREM TypesHold == Spec => []TypeOK
<1>1. Inv => TypeOK
  BY DEF Inv
<1> QED BY <1>1, InvHolds, PTL

\* A round gives out no more than it issues and, but for a fraction at each
\* division and the pots of roles no group has reported for, all of it; and the
\* books of the accumulated issuance are what has been transferred or is about
\* to be, for any nodes, groups, votes, tables and shares of the pots.
THEOREM IssuanceSpent == Spec => []IssuanceIsSpent
<1>1. Inv => IssuanceIsSpent
  <2> SUFFICES ASSUME Inv PROVE IssuanceIsSpent
    OBVIOUS
  <2>1. PotsAreSpent
    BY DEF Inv, IsSpent, PotsAreSpent
  <2> QED BY <2>1 DEF Inv, IssuanceIsSpent
<1> QED BY <1>1, InvHolds, PTL

\* What the rounds have issued stays within a fraction per round and year of
\* every passed clock's share of its year's reserve, however the rounds fall.
THEOREM IssuanceOnTime == Spec => []IssuanceFollowsSchedule
<1>1. Inv => IssuanceFollowsSchedule
  BY ScheduleKept DEF Inv
<1> QED BY <1>1, InvHolds, PTL
=============================================================================
