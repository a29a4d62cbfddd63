--------------------------- MODULE ClaimingProofs ---------------------------
(***************************************************************************)
(* Proofs about module Claiming, for all tables, nodes, voters, rewards,   *)
(* votes and limits.  The list of tasks comes first: what is computed is   *)
(* on it in full, and nothing is on it twice.                              *)
(***************************************************************************)
EXTENDS Claiming, SumProofs

-----------------------------------------------------------------------------
(***************************************************************************)
(* Chunks.                                                                 *)
(***************************************************************************)
\* Chunks share no entry and leave none out.
LEMMA ChunksPartition ==
  ASSUME NEW m, IsFiniteSet(DOMAIN m)
  PROVE  /\ IsFiniteSet(Chunks(m))
         /\ UNION {DOMAIN c : c \in Chunks(m)} = DOMAIN m
         /\ \A c, d \in Chunks(m) : c # d => DOMAIN c \cap DOMAIN d = {}
         /\ \A c \in Chunks(m) : /\ c = [k \in DOMAIN c |-> c[k]]
                                 /\ IsFiniteSet(DOMAIN c)
                                 /\ \A k \in DOMAIN c : c[k] = m[k]
<1> DEFINE D == DOMAIN m
           with(n) == [k \in ChunkOf(n, D) |-> m[k]]
           f == [n \in D |-> with(n)]
<1>1. Chunks(m) = Range(f)
  BY DEF Chunks, Range
<1>2. IsFiniteSet(Chunks(m))
  <2>1. DOMAIN f = D
    OBVIOUS
  <2> HIDE DEF f
  <2> QED BY <1>1, <2>1, FiniteRange
<1>3. \A n \in D : DOMAIN with(n) = ChunkOf(n, D) /\ n \in ChunkOf(n, D)
  BY DEF ChunkOf
<1>4. \A n \in D : ChunkOf(n, D) \subseteq D
  BY DEF ChunkOf
<1>5. \A n, p \in D : ChunkOf(n, D) = ChunkOf(p, D) \/ ChunkOf(n, D) \cap ChunkOf(p, D) = {}
  BY DEF ChunkOf
<1>6. \A c \in Chunks(m) : \E n \in D : c = with(n)
  BY DEF Chunks
<1>7. \A n \in D : with(n) \in Chunks(m)
  BY DEF Chunks
<1>8. \A n, p \in D : ChunkOf(n, D) = ChunkOf(p, D) => with(n) = with(p)
  BY Zenon
<1>9. \A n \in D : /\ with(n) = [k \in DOMAIN with(n) |-> with(n)[k]]
                   /\ \A k \in DOMAIN with(n) : with(n)[k] = m[k]
  OBVIOUS
<1> HIDE DEF with
<1>10. UNION {DOMAIN c : c \in Chunks(m)} = D
  <2>1. \A c \in Chunks(m) : DOMAIN c \subseteq D
    BY <1>3, <1>4, <1>6
  <2>2. \A n \in D : \E c \in Chunks(m) : n \in DOMAIN c
    BY <1>3, <1>7
  <2> QED BY <2>1, <2>2
<1>11. \A c, d \in Chunks(m) : c # d => DOMAIN c \cap DOMAIN d = {}
  BY <1>3, <1>5, <1>6, <1>8
<1>12. \A c \in Chunks(m) : /\ c = [k \in DOMAIN c |-> c[k]]
                            /\ \A k \in DOMAIN c : c[k] = m[k]
  BY <1>6, <1>9
<1>13. \A c \in Chunks(m) : IsFiniteSet(DOMAIN c)
  BY <1>3, <1>4, <1>6, FS_Subset
<1> QED BY <1>2, <1>10, <1>11, <1>12, <1>13

\* The calls that carry the rewards m to table t.
CallsAt(action, round, t, m) == {Call(action, round, t, c) : c \in Chunks(m)}

\* They carry every reward of m, once.
LEMMA CallsAtCarryAll ==
  ASSUME NEW action, NEW round, NEW t, NEW m, IsRewards(m, Node),
         NEW C, C = CallsAt(action, round, t, m)
  PROVE  /\ IsFiniteSet(C)
         /\ \A c \in C : /\ c = Call(action, round, t, c.rewards)
                         /\ IsRewards(c.rewards, DOMAIN m)
                         /\ Total(c.rewards) \in Nat
         /\ Carried(C) = Total(m)
         /\ \A n : CarriedTo(C, n) = AmountOf(m, n)
<1> DEFINE D == DOMAIN m
           g == [c \in C |-> DOMAIN c.rewards]
<1>1. IsFiniteSet(D) /\ \A x \in D : m[x] \in Nat
  BY ClaimingAssumption, FS_Subset DEF IsRewards, IsMap
<1>2. C = Range([c \in Chunks(m) |-> Call(action, round, t, c)])
  BY DEF CallsAt, Range
<1>3. IsFiniteSet(C)
  <2> DEFINE f == [c \in Chunks(m) |-> Call(action, round, t, c)]
  <2>1. DOMAIN f = Chunks(m) /\ IsFiniteSet(Chunks(m))
    BY <1>1, ChunksPartition
  <2> HIDE DEF f
  <2>2. IsFiniteSet(Range(f))
    BY <2>1, FiniteRange
  <2> QED BY <1>2, <2>2 DEF f
<1>4. \A c \in C : c.rewards \in Chunks(m) /\ c = Call(action, round, t, c.rewards)
  BY DEF CallsAt, Call
<1>5. \A r \in Chunks(m) : \E c \in C : c.rewards = r
  <2> SUFFICES ASSUME NEW r \in Chunks(m) PROVE \E c \in C : c.rewards = r
    OBVIOUS
  <2>1. Call(action, round, t, r) \in C
    BY DEF CallsAt
  <2>2. Call(action, round, t, r).rewards = r
    BY DEF Call
  <2> QED BY <2>1, <2>2
<1>6. \A r \in Chunks(m) : /\ r = [k \in DOMAIN r |-> r[k]]
                           /\ IsFiniteSet(DOMAIN r)
                           /\ \A k \in DOMAIN r : r[k] = m[k]
  BY <1>1, ChunksPartition
<1>7. UNION {DOMAIN r : r \in Chunks(m)} = D
  BY <1>1, ChunksPartition
<1>8. \A r, q \in Chunks(m) : r # q => DOMAIN r \cap DOMAIN q = {}
  BY <1>1, ChunksPartition
<1>9. \A c, d \in C : c # d => g[c] \cap g[d] = {}
  BY <1>4, <1>8
<1>10. D = UNION {g[c] : c \in C}
  <2>1. \A c \in C : g[c] \subseteq D
    BY <1>4, <1>7
  <2>2. \A x \in D : \E c \in C : x \in g[c]
    BY <1>5, <1>7
  <2> QED BY <2>1, <2>2
<1>11. \A c \in C : IsFiniteSet(g[c]) /\ g[c] \subseteq D /\ \A x \in g[c] : c.rewards[x] = m[x]
  BY <1>4, <1>6, <1>7
<1>0. AreGroups(g, C, D)
  <2> HIDE DEF g, D
  <2> QED BY <1>3, <1>9, <1>10, <1>11 DEF AreGroups
<1>12. \A c \in C : IsRewards(c.rewards, D)
  BY <1>1, <1>4, <1>6, <1>7 DEF IsRewards, IsMap
<1>13. \A c \in C : Total(c.rewards) = SumFunctionOnSet(m, g[c])
  <2> SUFFICES ASSUME NEW c \in C PROVE Total(c.rewards) = SumFunctionOnSet(m, g[c])
    OBVIOUS
  <2> DEFINE r == [x \in DOMAIN c.rewards |-> c.rewards[x]]
  <2>1. \A x \in g[c] : r[x] = m[x]
    BY <1>11
  <2>2. SumFunctionOnSet(r, g[c]) = SumFunctionOnSet(m, g[c])
    <3> HIDE DEF r
    <3> QED BY <1>11, <2>1, SumSame
  <2> QED BY <2>2 DEF Total, SumOver
<1>14. Carried(C) = Total(m)
  <2> DEFINE h == [c \in C |-> Total(c.rewards)]
  <2>1. \A c \in C : h[c] = SumFunctionOnSet(m, g[c])
    BY <1>13
  <2>4. SumFunctionOnSet(m, D) = SumFunctionOnSet(h, C)
    <3>1. \A x \in D : m[x] \in Int
      BY <1>1
    <3> HIDE DEF h, g, D
    <3> QED BY <1>0, <2>1, <3>1, SumOfGroups
  <2>5. SumFunctionOnSet([x \in D |-> m[x]], D) = SumFunctionOnSet(m, D)
    BY <1>1, SumSame
  <2> QED BY <2>4, <2>5 DEF Total, SumOver, Carried
<1>15. ASSUME NEW n
       PROVE  CarriedTo(C, n) = AmountOf(m, n)
  <2> DEFINE h == [c \in C |-> AmountOf(c.rewards, n)]
             f == [x \in D |-> IF x = n THEN m[x] ELSE 0]
  <2>1. \A x \in D : f[x] \in Int /\ f[x] = IF x = n THEN m[x] ELSE 0
    BY <1>1
  <2>2. ASSUME NEW E \in SUBSET D
        PROVE  SumFunctionOnSet(f, E) = IF n \in E THEN m[n] ELSE 0
    <3>1. IsFiniteSet(E)
      BY <1>1, FS_Subset
    <3> HIDE DEF f
    <3>2. CASE n \in E
      <4>1. f[n] = m[n] /\ f[n] \in Int /\ \A y \in E \ {n} : f[y] = 0
        BY <2>1, <3>2
      <4>2. SumFunctionOnSet(f, E) = f[n]
        BY <3>1, <3>2, <4>1, SumOfOne
      <4> QED BY <3>2, <4>1, <4>2
    <3>3. CASE n \notin E
      <4>1. \A y \in E : f[y] = 0
        BY <2>1, <3>3
      <4> QED BY <3>1, <3>3, <4>1, SumOfZeros
    <3> QED BY <3>2, <3>3
  <2>3. \A c \in C : h[c] = SumFunctionOnSet(f, g[c])
    <3> SUFFICES ASSUME NEW c \in C PROVE h[c] = SumFunctionOnSet(f, g[c])
      OBVIOUS
    <3>1. SumFunctionOnSet(f, g[c]) = IF n \in g[c] THEN m[n] ELSE 0
      <4> HIDE DEF f, g, h
      <4> QED BY <1>11, <2>2
    <3>2. h[c] = IF n \in g[c] THEN m[n] ELSE 0
      <4>1. n \in g[c] => c.rewards[n] = m[n]
        BY <1>11
      <4> QED BY <4>1 DEF AmountOf
    <3> QED BY <3>1, <3>2
  <2>6. SumFunctionOnSet(f, D) = SumFunctionOnSet(h, C)
    <3> HIDE DEF f, g, h, D
    <3> QED BY <1>0, <2>1, <2>3, SumOfGroups
  <2>7. SumFunctionOnSet(f, D) = AmountOf(m, n)
    <3> HIDE DEF f
    <3> QED BY <2>2 DEF AmountOf
  <2> QED BY <2>6, <2>7 DEF SumOver, CarriedTo
<1>16. \A c \in C : Total(c.rewards) \in Nat
  <2>1. \A c \in C : \A x \in g[c] : m[x] \in Nat
    BY <1>1, <1>11
  <2> HIDE DEF g
  <2>2. \A c \in C : SumFunctionOnSet(m, g[c]) \in Nat
    BY <1>11, <2>1, SumOfNats
  <2> QED BY <1>13, <2>2
<1> QED BY <1>3, <1>4, <1>12, <1>14, <1>15, <1>16

\* The calls that carry a round's rewards of one kind.
AllCalls(action, round, rewards) ==
  UNION {CallsAt(action, round, t, rewards[t]) : t \in DOMAIN rewards}

\* They are all on the list, and carry the rewards of every table.
LEMMA CallsOfCarryAll ==
  ASSUME NEW action, NEW round, NEW rewards, DOMAIN rewards \subseteq Table,
         \A t \in DOMAIN rewards : IsRewards(rewards[t], Node),
         NEW A, A = AllCalls(action, round, rewards)
  PROVE  /\ IsFiniteSet(A)
         /\ IsList(CallsOf(action, round, rewards), A)
         /\ \A c \in A : /\ c = Call(action, round, c.to, c.rewards)
                         /\ c.to \in DOMAIN rewards
                         /\ IsRewards(c.rewards, DOMAIN rewards[c.to])
                         /\ Total(c.rewards) \in Nat
         /\ \A t \in DOMAIN rewards :
              {c \in A : c.to = t} = CallsAt(action, round, t, rewards[t])
         /\ \A n : CarriedTo(A, n) = GivenTo(rewards, n)
<1> DEFINE T == DOMAIN rewards
           g == [t \in T |-> CallsAt(action, round, t, rewards[t])]
<1>1. IsFiniteSet(T)
  BY ClaimingAssumption, FS_Subset
<1>2. A = UNION {g[t] : t \in T}
  BY DEF AllCalls
<1>3. \A t \in T : /\ IsFiniteSet(g[t])
                   /\ \A c \in g[t] : /\ c = Call(action, round, t, c.rewards)
                                      /\ IsRewards(c.rewards, DOMAIN rewards[t])
                                      /\ Total(c.rewards) \in Nat
  BY CallsAtCarryAll
<1>4. \A t \in T : \A c \in g[t] : c.to = t
  <2> SUFFICES ASSUME NEW t \in T, NEW c \in g[t] PROVE c.to = t
    OBVIOUS
  <2> HIDE DEF g, T
  <2>1. c = Call(action, round, t, c.rewards)
    BY <1>3
  <2> QED BY <2>1 DEF Call
<1>5. \A t, u \in T : t # u => g[t] \cap g[u] = {}
  <2> HIDE DEF g, T
  <2> QED BY <1>4
<1>6. \A c \in A : c.to \in T /\ c \in g[c.to]
  <2> HIDE DEF g, T
  <2> QED BY <1>2, <1>4
<1>7. \A t \in T : {c \in A : c.to = t} = g[t]
  <2> HIDE DEF g, T
  <2> QED BY <1>2, <1>4, <1>6
<1>8. IsFiniteSet(A)
  <2>1. \A S \in {g[t] : t \in T} : IsFiniteSet(S)
    <3> HIDE DEF g, T
    <3> QED BY <1>3
  <2>2. {g[t] : t \in T} = Range(g)
    BY DEF Range
  <2>3. DOMAIN g = T
    OBVIOUS
  <2> HIDE DEF g, T
  <2>4. IsFiniteSet({g[t] : t \in T})
    BY <1>1, <2>2, <2>3, FiniteRange
  <2> QED BY <1>2, <2>1, <2>4, FS_UNION
<1>9. IsList(CallsOf(action, round, rewards), A)
  BY <1>8, SetToSeqLists DEF CallsOf, AllCalls, CallsAt
<1>10. ASSUME NEW n
       PROVE  CarriedTo(A, n) = GivenTo(rewards, n)
  <2> DEFINE f == [c \in A |-> AmountOf(c.rewards, n)]
             h == [t \in T |-> AmountOf(rewards[t], n)]
  <2>1. \A c \in A : f[c] \in Int
    <3>1. \A c \in A : IsRewards(c.rewards, DOMAIN rewards[c.to])
      <4> HIDE DEF g, T
      <4> QED BY <1>3, <1>6
    <3> QED BY <3>1 DEF AmountOf, IsRewards
  <2>2. \A t \in T : g[t] \subseteq A
    BY <1>2
  <2>3. \A t \in T : h[t] = SumFunctionOnSet(f, g[t])
    <3> SUFFICES ASSUME NEW t \in T PROVE h[t] = SumFunctionOnSet(f, g[t])
      OBVIOUS
    <3> DEFINE k == [c \in g[t] |-> AmountOf(c.rewards, n)]
    <3>1. SumFunctionOnSet(k, g[t]) = h[t]
      <4>1. CarriedTo(g[t], n) = AmountOf(rewards[t], n)
        BY CallsAtCarryAll
      <4> QED BY <4>1 DEF SumOver, CarriedTo
    <3>2. \A c \in g[t] : k[c] = f[c]
      BY <2>2
    <3>3. SumFunctionOnSet(k, g[t]) = SumFunctionOnSet(f, g[t])
      <4> HIDE DEF k, f, g, h
      <4> QED BY <1>3, <3>2, SumSame
    <3> QED BY <3>1, <3>3
  <2>5. SumFunctionOnSet(f, A) = SumFunctionOnSet(h, T)
    <3> HIDE DEF f, g, h, T
    <3>1. AreGroups(g, T, A)
      BY <1>1, <1>2, <1>3, <1>5 DEF AreGroups
    <3> QED BY <2>1, <2>3, <3>1, SumOfGroups
  <2> QED BY <2>5 DEF SumOver, CarriedTo, GivenTo
<1>11. \A c \in A : /\ c = Call(action, round, c.to, c.rewards)
                    /\ c.to \in T
                    /\ IsRewards(c.rewards, DOMAIN rewards[c.to])
                    /\ Total(c.rewards) \in Nat
  <2> HIDE DEF g, T
  <2> QED BY <1>3, <1>6
<1> QED BY <1>7, <1>8, <1>9, <1>10, <1>11

-----------------------------------------------------------------------------
(***************************************************************************)
(* The tasks of a round.                                                   *)
(***************************************************************************)
TransfersOf(round, nodes, dividends) ==
  {Transfer(round, t, WholeUp(TableTotal(nodes, dividends, t))) :
     t \in DOMAIN nodes \cup DOMAIN dividends}

CommunityShare(round, community) ==
  IF Whole(community) > 0 THEN {Transfer(round, Community, Whole(community))} ELSE {}

NodeCalls(round, nodes) == AllCalls("recv_node_reward", round, nodes)

VoterCalls(round, dividends) == AllCalls("recv_voter_dividend_reward", round, dividends)

TasksOf(round, nodes, dividends, community) ==
  TransfersOf(round, nodes, dividends) \cup CommunityShare(round, community)
    \cup NodeCalls(round, nodes) \cup VoterCalls(round, dividends)

\* What a round gives.
IsGiven(nodes, dividends, community) ==
  /\ DOMAIN nodes \cup DOMAIN dividends \subseteq Table
  /\ \A t \in DOMAIN nodes : IsRewards(nodes[t], Accounts(Node, t))
  /\ \A t \in DOMAIN dividends : IsRewards(dividends[t], Node)
  /\ community \in Nat

\* Rewards of some accounts are rewards of any more.
LEMMA RewardsOfMore ==
  ASSUME NEW m, NEW S, IsRewards(m, S), NEW T, S \subseteq T
  PROVE  IsRewards(m, T)
BY DEF IsRewards, IsMap

\* The total of rewards is a natural number.
LEMMA TotalType ==
  ASSUME NEW m, IsRewards(m, Node)
  PROVE  Total(m) \in Nat
<1>1. IsFiniteSet(DOMAIN m) /\ \A x \in DOMAIN m : m[x] \in Nat
  BY ClaimingAssumption, FS_Subset DEF IsRewards, IsMap
<1> DEFINE f == [x \in DOMAIN m |-> m[x]]
<1>2. \A x \in DOMAIN m : f[x] \in Nat
  BY <1>1
<1>3. SumFunctionOnSet(f, DOMAIN m) \in Nat
  <2> HIDE DEF f
  <2> QED BY <1>1, <1>2, SumOfNats
<1> QED BY <1>3 DEF Total, SumOver

\* Rounded up, tokens cover the fractions.
LEMMA WholeUpCovers ==
  ASSUME NEW x \in Nat
  PROVE  WholeUp(x) \in Nat /\ x <= Precision * WholeUp(x)
<1>1. Precision \in Nat \ {0}
  BY DispatchAssumption
<1> DEFINE q == x \div Precision
           r == x % Precision
<1>2. q \in Nat /\ r \in 0 .. Precision - 1 /\ x = Precision * q + r
  BY <1>1, DivFacts
<1>3. WholeUp(x) = IF r # 0 THEN q + 1 ELSE q
  BY DEF WholeUp, Whole
<1> HIDE DEF q, r
<1>4. Precision * (q + 1) = Precision * q + Precision
  BY <1>1, <1>2
<1>5. Precision * q \in Int
  BY <1>1, <1>2
<1>6. CASE r = 0
  BY <1>1, <1>2, <1>3, <1>5, <1>6
<1>7. CASE r # 0
  <2>1. Precision * WholeUp(x) = Precision * q + Precision
    BY <1>3, <1>4, <1>7
  <2>2. WholeUp(x) \in Nat
    BY <1>2, <1>3
  <2>3. x <= Precision * q + Precision
    BY <1>1, <1>2, <1>5
  <2> QED BY <2>1, <2>2, <2>3
<1> QED BY <1>6, <1>7

\* What a table gets from a round is a natural number.
LEMMA TableTotalType ==
  ASSUME NEW nodes, NEW dividends, NEW community, IsGiven(nodes, dividends, community), NEW t
  PROVE  TableTotal(nodes, dividends, t) \in Nat
<1>1. t \in DOMAIN nodes => Total(nodes[t]) \in Nat
  BY RewardsOfMore, TotalType DEF IsGiven, Accounts
<1>2. t \in DOMAIN dividends => Total(dividends[t]) \in Nat
  BY TotalType DEF IsGiven
<1> QED BY <1>1, <1>2 DEF TableTotal

\* All that is computed in a round is on the list, once.
LEMMA DispatchLists ==
  ASSUME NEW round, NEW nodes, NEW dividends, NEW community,
         IsGiven(nodes, dividends, community)
  PROVE  /\ IsFiniteSet(TransfersOf(round, nodes, dividends))
         /\ IsList(dispatch_all_reward(round, nodes, dividends, community),
                   TasksOf(round, nodes, dividends, community))
<1> DEFINE T == DOMAIN nodes \cup DOMAIN dividends
           f == [t \in T |-> Transfer(round, t, WholeUp(TableTotal(nodes, dividends, t)))]
           A == TransfersOf(round, nodes, dividends)
           B == CommunityShare(round, community)
           C == NodeCalls(round, nodes)
           D == VoterCalls(round, dividends)
           b == IF Whole(community) > 0
                  THEN <<Transfer(round, Community, Whole(community))>> ELSE <<>>
<1>1. IsFiniteSet(T)
  BY ClaimingAssumption, FS_Subset DEF IsGiven
<1>2. IsFiniteSet(A)
  <2>1. A = Range(f) /\ DOMAIN f = T
    BY DEF TransfersOf, Range
  <2> HIDE DEF f, T, A
  <2> QED BY <1>1, <2>1, FiniteRange
<1>3. IsList(Transfers(round, nodes, dividends), A)
  <2>1. Transfers(round, nodes, dividends) = SetToSeq(A)
    BY DEF Transfers, TransfersOf
  <2> HIDE DEF A
  <2> QED BY <1>2, <2>1, SetToSeqLists
<1>4. IsList(b, B)
  <2>1. CASE Whole(community) > 0
    <3> DEFINE x == Transfer(round, Community, Whole(community))
    <3>1. b = <<x>> /\ B = {x}
      BY <2>1 DEF CommunityShare
    <3> QED BY <3>1, ListOfOne
  <2>2. CASE ~ (Whole(community) > 0)
    <3>1. b = <<>> /\ B = {}
      BY <2>2 DEF CommunityShare
    <3> QED BY <3>1, ListOfOne
  <2> QED BY <2>1, <2>2
<1>5. \A t \in DOMAIN nodes : IsRewards(nodes[t], Node)
  BY RewardsOfMore DEF IsGiven, Accounts
<1>6. /\ IsList(CallsOf("recv_node_reward", round, nodes), C)
      /\ \A c \in C : c = Call("recv_node_reward", round, c.to, c.rewards)
  BY <1>5, CallsOfCarryAll DEF IsGiven, NodeCalls
<1>7. /\ IsList(CallsOf("recv_voter_dividend_reward", round, dividends), D)
      /\ \A c \in D : c = Call("recv_voter_dividend_reward", round, c.to, c.rewards)
  BY CallsOfCarryAll DEF IsGiven, VoterCalls
<1>8. \A x \in A : x.action = "transfer" /\ x.to \in T
  BY DEF TransfersOf, Transfer
<1>9. \A x \in B : x.action = "transfer" /\ x.to = Community
  BY DEF CommunityShare, Transfer
<1>10. \A x \in C : x.action = "recv_node_reward"
  BY <1>6 DEF Call
<1>11. \A x \in D : x.action = "recv_voter_dividend_reward"
  BY <1>7 DEF Call
<1>12. A \cap B = {}
  <2>1. Community \notin T
    BY ClaimingAssumption DEF IsGiven
  <2> HIDE DEF A, B, T
  <2> QED BY <1>8, <1>9, <2>1
<1>13. (A \cup B) \cap C = {} /\ (A \cup B \cup C) \cap D = {}
  <2> HIDE DEF A, B, C, D
  <2> QED BY <1>8, <1>9, <1>10, <1>11
<1> DEFINE a == Transfers(round, nodes, dividends)
           c == CallsOf("recv_node_reward", round, nodes)
           d == CallsOf("recv_voter_dividend_reward", round, dividends)
<1>14. dispatch_all_reward(round, nodes, dividends, community) = ((a \o b) \o c) \o d
  BY DEF dispatch_all_reward
<1>15. TasksOf(round, nodes, dividends, community) = ((A \cup B) \cup C) \cup D
  BY DEF TasksOf
<1> HIDE DEF A, B, C, D, a, b, c, d
<1>16. IsList(a \o b, A \cup B)
  BY <1>3, <1>4, <1>12, ListsTogether DEF a
<1>17. IsList((a \o b) \o c, (A \cup B) \cup C)
  BY <1>6, <1>13, <1>16, ListsTogether DEF c
<1>18. IsList(((a \o b) \o c) \o d, ((A \cup B) \cup C) \cup D)
  BY <1>7, <1>13, <1>17, ListsTogether DEF d
<1> QED BY <1>2, <1>14, <1>15, <1>18 DEF A

\* A round's list, cut in two.
LEMMA ExecutedAndRemaining ==
  ASSUME NEW s, NEW S, IsList(s, S)
  PROVE  /\ Executed(s) \cup Range(Remaining(s)) = S
         /\ Executed(s) \cap Range(Remaining(s)) = {}
         /\ IsFiniteSet(Executed(s))
         /\ IsList(Remaining(s), Range(Remaining(s)))
<1> DEFINE k == RoundLength(s)
<1>1. Len(s) \in Nat
  BY DEF IsList
<1>2. k \in 0 .. Len(s)
  BY <1>1, DispatchAssumption DEF RoundLength
<1>3. Executed(s) = FrontOf(s, k) /\ Remaining(s) = RestOf(s, k)
  BY DEF Executed, Remaining, FrontOf, RestOf
<1> HIDE DEF k
<1> QED BY <1>2, <1>3, ListCut

-----------------------------------------------------------------------------
(***************************************************************************)
(* What is on its way.  A round's tasks differ from everything sent before *)
(* in their round, and from each other.                                    *)
(***************************************************************************)
Mail ==
  /\ rounds \in 0 .. MaxRounds
  /\ IsList(tasks, TasksPending)
  /\ \A x \in TasksPending : x.round = rounds /\ (x \in TransferTask \/ IsCall(x))
  /\ IsFiniteSet(transfers) /\ transfers \subseteq TransferTask
  /\ IsFiniteSet(calls) /\ \A c \in calls : IsCall(c)
  /\ TasksPending \cap (transfers \cup calls) = {}
  /\ \A c \in ToNodes : DOMAIN c.rewards \subseteq Accounts(Node, c.to)

\* Transfers and calls are told apart by their action.
LEMMA KindsDiffer ==
  /\ \A x \in TransferTask : IsTransfer(x) /\ x.action # "recv_node_reward"
  /\ \A x : IsCall(x) => ~ IsTransfer(x)
BY DEF TransferTask, IsCall, IsTransfer

\* What was sent in an earlier round stays what it is.
LEMMA MailStaysTyped ==
  ASSUME rounds \in 0 .. MaxRounds, rounds' \in {rounds, rounds + 1}
  PROVE  /\ TransferTask \subseteq TransferTask'
         /\ \A x : IsCall(x) => IsCall(x)'
<1>1. 1 .. rounds \subseteq 1 .. rounds'
  BY ClaimingAssumption
<1> QED BY <1>1 DEF TransferTask, IsCall

\* The tasks of the round computed last.
LEMMA PendingFinite ==
  ASSUME Mail
  PROVE  IsFiniteSet(TasksPending)
<1> DEFINE n == Len(tasks)
<1>1. n \in Nat /\ DOMAIN tasks = 1 .. n
  BY DEF Mail, IsList
<1>2. IsFiniteSet(DOMAIN tasks)
  BY <1>1, FS_Interval
<1>3. TasksPending = Range(tasks)
  BY DEF Mail, IsList
<1> QED BY <1>2, <1>3, FiniteRange

\* Given rewards are as the lemmas above take them.
LEMMA GivenIsGiven ==
  ASSUME NEW given \in GivenRewards
  PROVE  IsGiven(given.nodes, given.dividends, given.community)
BY ClaimingAssumption DEF IsGiven

\* The tasks a round starts with.
LEMMA RewardTasks ==
  ASSUME Mail, NEW given \in GivenRewards, reward(given)
  PROVE  /\ TasksPending = {}
         /\ TasksPending' = TasksOf(rounds', given.nodes, given.dividends, given.community)
         /\ IsList(tasks', TasksPending')
         /\ rounds' = rounds + 1 /\ rounds' \in 1 .. MaxRounds
         /\ \A x \in transfers \cup calls : x.round # rounds'
<1>1. TasksPending = {}
  BY DEF reward, TasksPending
<1>2. rounds' = rounds + 1 /\ rounds' \in 1 .. MaxRounds
  BY ClaimingAssumption DEF Mail, reward
<1>3. IsList(tasks', TasksOf(rounds', given.nodes, given.dividends, given.community))
  BY GivenIsGiven, DispatchLists DEF reward
<1>4. TasksPending' = Range(tasks')
  BY DEF TasksPending, Range
<1>5. TasksPending' = TasksOf(rounds', given.nodes, given.dividends, given.community)
  BY <1>3, <1>4 DEF IsList
<1>6. IsList(tasks', TasksPending')
  BY <1>3, <1>5
<1>7. \A x \in transfers \cup calls : x.round \in 1 .. rounds
  BY DEF Mail, TransferTask, IsCall
<1>8. rounds + 1 \notin 1 .. rounds
  BY DEF Mail
<1> QED BY <1>1, <1>2, <1>5, <1>6, <1>7, <1>8

\* The tasks of a round are of its round, well formed, and at home.
LEMMA TasksAreTyped ==
  ASSUME NEW round \in Nat, NEW nodes, NEW dividends, NEW community,
         IsGiven(nodes, dividends, community),
         NEW x \in TasksOf(round, nodes, dividends, community)
  PROVE  /\ x.round = round
         /\ \/ /\ x.action = "transfer"
               /\ x \in [action : {"transfer"}, round : {round},
                         to : Table \cup {Community}, amount : Nat]
            \/ /\ x = Call(x.action, round, x.to, x.rewards)
               /\ x.action \in {"recv_node_reward", "recv_voter_dividend_reward"}
               /\ x.to \in Table
               /\ IsRewards(x.rewards, Node)
               /\ x.action = "recv_node_reward" => DOMAIN x.rewards \subseteq Accounts(Node, x.to)
<1>1. CASE x \in TransfersOf(round, nodes, dividends)
  <2>1. PICK t \in DOMAIN nodes \cup DOMAIN dividends :
          x = Transfer(round, t, WholeUp(TableTotal(nodes, dividends, t)))
    BY <1>1 DEF TransfersOf
  <2>2. WholeUp(TableTotal(nodes, dividends, t)) \in Nat
    BY TableTotalType, WholeUpCovers
  <2>3. t \in Table
    BY DEF IsGiven
  <2> QED BY <2>1, <2>2, <2>3 DEF Transfer
<1>2. CASE x \in CommunityShare(round, community)
  <2>1. x = Transfer(round, Community, Whole(community))
    BY <1>2 DEF CommunityShare
  <2>2. Whole(community) \in Nat
    BY DispatchAssumption, DivFacts DEF Whole, IsGiven
  <2> QED BY <2>1, <2>2 DEF Transfer
<1>3. CASE x \in NodeCalls(round, nodes)
  <2>1. \A t \in DOMAIN nodes : IsRewards(nodes[t], Node)
    BY RewardsOfMore DEF IsGiven, Accounts
  <2>2. /\ x = Call("recv_node_reward", round, x.to, x.rewards)
        /\ x.to \in DOMAIN nodes
        /\ IsRewards(x.rewards, DOMAIN nodes[x.to])
    BY <1>3, <2>1, CallsOfCarryAll DEF NodeCalls, IsGiven
  <2>3. x.action = "recv_node_reward" /\ x.round = round
    BY <2>2 DEF Call
  <2>4. DOMAIN nodes[x.to] \subseteq Accounts(Node, x.to) /\ x.to \in Table
    BY <2>2 DEF IsGiven, IsRewards, IsMap
  <2>5. DOMAIN x.rewards \subseteq Accounts(Node, x.to)
    BY <2>2, <2>4 DEF IsRewards, IsMap
  <2>6. IsRewards(x.rewards, Node)
    BY <2>2, <2>4, RewardsOfMore DEF Accounts
  <2> QED BY <2>2, <2>3, <2>4, <2>5, <2>6
<1>4. CASE x \in VoterCalls(round, dividends)
  <2>1. /\ x = Call("recv_voter_dividend_reward", round, x.to, x.rewards)
        /\ x.to \in DOMAIN dividends
        /\ IsRewards(x.rewards, DOMAIN dividends[x.to])
    BY <1>4, CallsOfCarryAll DEF VoterCalls, IsGiven
  <2>2. x.action = "recv_voter_dividend_reward" /\ x.round = round
    BY <2>1 DEF Call
  <2>3. DOMAIN dividends[x.to] \subseteq Node /\ x.to \in Table
    BY <2>1 DEF IsGiven, IsRewards, IsMap
  <2>4. IsRewards(x.rewards, Node)
    BY <2>1, <2>3, RewardsOfMore
  <2> QED BY <2>1, <2>2, <2>3, <2>4
<1> QED BY <1>1, <1>2, <1>3, <1>4 DEF TasksOf

\* Initially nothing is on its way.
LEMMA InitMail == Init => Mail
<1> SUFFICES ASSUME Init PROVE Mail
  OBVIOUS
<1>1. rounds = 0 /\ tasks = <<>> /\ transfers = {} /\ calls = {}
  BY DEF Init
<1>2. TasksPending = {} /\ ToNodes = {}
  BY <1>1 DEF TasksPending, ToNodes
<1>3. IsList(tasks, TasksPending)
  <2>1. <<>> \in Seq({}) /\ DOMAIN <<>> = {}
    OBVIOUS
  <2> QED BY <1>1, <1>2, <2>1 DEF IsList, IsInjective, Range
<1>4. IsFiniteSet({})
  BY FS_EmptySet
<1>5. 0 \in 0 .. MaxRounds
  BY ClaimingAssumption
<1> QED BY <1>1, <1>2, <1>3, <1>4, <1>5 DEF Mail

\* A new round.
LEMMA RewardKeepsMail ==
  ASSUME Mail, NEW given \in GivenRewards, reward(given)
  PROVE  Mail'
<1> DEFINE N == TasksOf(rounds', given.nodes, given.dividends, given.community)
<1>1. /\ TasksPending = {} /\ TasksPending' = N
      /\ IsList(tasks', TasksPending')
      /\ rounds' = rounds + 1 /\ rounds' \in 1 .. MaxRounds
      /\ \A x \in transfers \cup calls : x.round # rounds'
  BY RewardTasks
<1>2. transfers' = transfers /\ calls' = calls
  BY DEF reward
<1>3. \A x \in N : x.round = rounds'
  BY <1>1, GivenIsGiven, TasksAreTyped
<1>4. \A x \in N : x \in TransferTask' \/ IsCall(x)'
  <2> SUFFICES ASSUME NEW x \in N PROVE x \in TransferTask' \/ IsCall(x)'
    OBVIOUS
  <2>1. rounds' \in 1 .. rounds'
    BY <1>1
  <2>2. \/ x \in [action : {"transfer"}, round : {rounds'},
                  to : Table \cup {Community}, amount : Nat]
        \/ /\ x = Call(x.action, rounds', x.to, x.rewards)
           /\ x.action \in {"recv_node_reward", "recv_voter_dividend_reward"}
           /\ x.to \in Table
           /\ IsRewards(x.rewards, Node)
    BY <1>1, GivenIsGiven, TasksAreTyped
  <2>3. x.round = rounds'
    BY <1>3
  <2> HIDE DEF N
  <2> QED BY <2>1, <2>2, <2>3 DEF TransferTask, IsCall
<1>5. \A x \in N : x.action = "recv_node_reward" => DOMAIN x.rewards \subseteq Accounts(Node, x.to)
  BY <1>1, GivenIsGiven, TasksAreTyped
<1>6. rounds \in 0 .. MaxRounds
  BY DEF Mail
<1> HIDE DEF N
<1>7. transfers' \subseteq TransferTask' /\ \A c \in calls' : IsCall(c)'
  BY <1>1, <1>2, <1>6, MailStaysTyped DEF Mail
<1>8. TasksPending' \cap (transfers' \cup calls') = {}
  BY <1>1, <1>2, <1>3
<1>9. ToNodes' \subseteq ToNodes \cup {x \in N : x.action = "recv_node_reward"}
  BY <1>1, <1>2 DEF ToNodes
<1>10. \A c \in ToNodes' : DOMAIN c.rewards \subseteq Accounts(Node, c.to)
  BY <1>5, <1>9 DEF Mail
<1>11. IsFiniteSet(transfers') /\ IsFiniteSet(calls')
  BY <1>2 DEF Mail
<1>12. rounds' \in 0 .. MaxRounds
  BY <1>1
<1>13. \A x \in TasksPending' : x.round = rounds' /\ (x \in TransferTask' \/ IsCall(x)')
  BY <1>1, <1>3, <1>4
<1> QED BY <1>1, <1>7, <1>8, <1>10, <1>11, <1>12, <1>13 DEF Mail

\* Tasks that are carried out become transfers and calls.
LEMMA ExecuteMoves ==
  ASSUME Mail, execute_task
  PROVE  /\ IsList(tasks', TasksPending')
         /\ Executed(tasks) \cup TasksPending' = TasksPending
         /\ Executed(tasks) \cap TasksPending' = {}
         /\ IsFiniteSet(Executed(tasks))
         /\ \A t : Coming(t)' = Coming(t) /\ Unrecorded(t)' = Unrecorded(t)
         /\ ToNodes' = ToNodes
<1> DEFINE E == Executed(tasks)
<1>1. IsList(tasks, TasksPending)
  BY DEF Mail
<1>2. TasksPending' = Range(Remaining(tasks)) /\ tasks' = Remaining(tasks)
  BY DEF execute_task, TasksPending, Range
<1>3. /\ E \cup Range(Remaining(tasks)) = TasksPending
      /\ E \cap Range(Remaining(tasks)) = {}
      /\ IsFiniteSet(E)
      /\ IsList(Remaining(tasks), Range(Remaining(tasks)))
  BY <1>1, ExecutedAndRemaining
<1>4. /\ transfers' = transfers \cup {x \in E : IsTransfer(x)}
      /\ calls' = calls \cup {x \in E : ~ IsTransfer(x)}
  BY DEF execute_task
<1>5. \A x \in transfers : IsTransfer(x) /\ x.action # "recv_node_reward"
  BY KindsDiffer DEF Mail
<1>6. \A x \in calls : ~ IsTransfer(x)
  BY KindsDiffer DEF Mail
<1>7. \A x : x.action = "recv_node_reward" => ~ IsTransfer(x)
  BY DEF IsTransfer
<1>8. E \cup TasksPending' = TasksPending /\ E \cap TasksPending' = {}
  BY <1>2, <1>3
<1>9. IsList(tasks', TasksPending')
  BY <1>2, <1>3
<1> HIDE DEF E
<1>10. ASSUME NEW t PROVE Coming(t)' = Coming(t) /\ Unrecorded(t)' = Unrecorded(t)
  <2>1. Coming(t)' = {x \in transfers' \cup TasksPending' : IsTransfer(x) /\ x.to = t}
    BY DEF Coming, IsTransfer
  <2>2. Unrecorded(t)' = {x \in calls' \cup TasksPending' : ~ IsTransfer(x) /\ x.to = t}
    BY DEF Unrecorded, IsTransfer
  <2>3. Coming(t)' = Coming(t)
    BY <1>4, <1>8, <2>1 DEF Coming
  <2>4. Unrecorded(t)' = Unrecorded(t)
    BY <1>4, <1>8, <2>2 DEF Unrecorded
  <2> QED BY <2>3, <2>4
<1>11. ToNodes' = ToNodes
  BY <1>4, <1>7, <1>8 DEF ToNodes
<1> QED BY <1>3, <1>8, <1>9, <1>10, <1>11 DEF E

LEMMA ExecuteKeepsMail ==
  ASSUME Mail, execute_task
  PROVE  Mail'
<1> DEFINE E == Executed(tasks)
<1>1. /\ IsList(tasks', TasksPending')
      /\ E \cup TasksPending' = TasksPending
      /\ E \cap TasksPending' = {}
      /\ IsFiniteSet(E)
      /\ ToNodes' = ToNodes
  BY ExecuteMoves
<1>2. /\ transfers' = transfers \cup {x \in E : IsTransfer(x)}
      /\ calls' = calls \cup {x \in E : ~ IsTransfer(x)}
      /\ rounds' = rounds
  BY DEF execute_task
<1> HIDE DEF E
<1>3. TransferTask' = TransferTask /\ \A x : IsCall(x)' <=> IsCall(x)
  BY <1>2 DEF TransferTask, IsCall
<1>4. \A x \in TasksPending : x.round = rounds /\ (x \in TransferTask \/ IsCall(x))
  BY DEF Mail
<1>5. transfers' \subseteq TransferTask
  BY <1>1, <1>2, <1>4, KindsDiffer DEF Mail
<1>6. \A c \in calls' : IsCall(c)
  BY <1>1, <1>2, <1>4, KindsDiffer DEF Mail
<1>7. IsFiniteSet({x \in E : IsTransfer(x)}) /\ IsFiniteSet({x \in E : ~ IsTransfer(x)})
  BY <1>1, FS_Subset
<1>8. IsFiniteSet(transfers') /\ IsFiniteSet(calls')
  BY <1>2, <1>7, FS_Union DEF Mail
<1>9. TasksPending' \cap (transfers' \cup calls') = {}
  BY <1>1, <1>2 DEF Mail
<1>10. \A c \in ToNodes' : DOMAIN c.rewards \subseteq Accounts(Node, c.to)
  BY <1>1 DEF Mail
<1>11. \A x \in TasksPending' : x.round = rounds' /\ (x \in TransferTask' \/ IsCall(x)')
  BY <1>1, <1>2, <1>3, <1>4
<1>12. rounds' \in 0 .. MaxRounds
  BY <1>2 DEF Mail
<1> QED BY <1>1, <1>3, <1>5, <1>6, <1>8, <1>9, <1>10, <1>11, <1>12 DEF Mail

\* A message that arrives is not on its way any more, and nothing else changes.
LEMMA ArrivalsKeepMail ==
  ASSUME Mail, UNCHANGED <<rounds, tasks>>,
         transfers' \subseteq transfers, calls' \subseteq calls
  PROVE  Mail'
<1>1. TasksPending' = TasksPending
  BY DEF TasksPending
<1>2. TransferTask' = TransferTask /\ \A x : IsCall(x)' <=> IsCall(x)
  BY DEF TransferTask, IsCall
<1>3. ToNodes' \subseteq ToNodes
  BY <1>1 DEF ToNodes
<1>4. IsFiniteSet(transfers') /\ IsFiniteSet(calls')
  BY FS_Subset DEF Mail
<1>5. \A c \in ToNodes' : DOMAIN c.rewards \subseteq Accounts(Node, c.to)
  BY <1>3 DEF Mail
<1>6. IsList(tasks', TasksPending')
  BY <1>1 DEF Mail
<1>7. \A x \in TasksPending' : x.round = rounds' /\ (x \in TransferTask' \/ IsCall(x)')
  BY <1>1, <1>2 DEF Mail
<1>8. TasksPending' \cap (transfers' \cup calls') = {}
  BY <1>1 DEF Mail
<1>9. transfers' \subseteq TransferTask' /\ \A c \in calls' : IsCall(c)'
  BY <1>2 DEF Mail
<1>10. rounds' \in 0 .. MaxRounds
  BY DEF Mail
<1> QED BY <1>4, <1>5, <1>6, <1>7, <1>8, <1>9, <1>10 DEF Mail

LEMMA NextKeepsMail ==
  ASSUME Mail, [Next]_vars
  PROVE  Mail'
<1>1. CASE Reward
  BY <1>1, RewardKeepsMail DEF Reward
<1>2. CASE execute_task
  BY <1>2, ExecuteKeepsMail
<1>3. CASE Receive
  <2>1. UNCHANGED <<rounds, tasks>> /\ transfers' \subseteq transfers /\ calls' \subseteq calls
    BY <1>3 DEF Receive, ReceiveTransfer, ReceiveCall, zecVars
  <2> QED BY <2>1, ArrivalsKeepMail
<1>4. CASE Claim \/ ChangeVotes \/ UNCHANGED vars
  <2>1. UNCHANGED <<rounds, tasks, transfers, calls>>
    BY <1>4 DEF Claim, claimNodeReward, claimVoterDividend, ChangeVotes, Revote, zecVars, vars
  <2> QED BY <2>1, ArrivalsKeepMail
<1> QED BY <1>1, <1>2, <1>3, <1>4 DEF Next

-----------------------------------------------------------------------------
(***************************************************************************)
(* Records.                                                                *)
(***************************************************************************)
VotesTyped ==
  /\ IsMap(votes, Voter) /\ DOMAIN votes = Voter
  /\ \A v \in Voter : votes[v] \in VotesHeld[v]

\* What a dividend call gives a voter.
Earned(c, v) ==
  SumOver(DOMAIN votes[v] \cap DOMAIN c.rewards, LAMBDA n : VoterShare(c, v, n))

\* Votes are positive, so that nobody's share is divided by 0.
LEMMA VotesArePositive ==
  ASSUME VotesTyped, NEW v \in Voter
  PROVE  /\ DOMAIN votes[v] \subseteq Node /\ IsFiniteSet(DOMAIN votes[v])
         /\ \A n \in DOMAIN votes[v] : votes[v][n] \in Nat \ {0}
         /\ \A n : AmountOf(votes[v], n) \in Nat
<1>1. DOMAIN votes[v] \subseteq Node /\ \A n \in DOMAIN votes[v] : votes[v][n] \in Nat \ {0}
  BY ClaimingAssumption DEF VotesTyped, IsMap
<1>2. IsFiniteSet(DOMAIN votes[v])
  BY <1>1, ClaimingAssumption, FS_Subset
<1> QED BY <1>1, <1>2 DEF AmountOf

LEMMA PollableFacts ==
  ASSUME VotesTyped, NEW t, NEW n
  PROVE  /\ IsFiniteSet(Accounts(Voter, t))
         /\ Pollable(t, n) \in Nat
         /\ \A v \in Accounts(Voter, t) : AmountOf(votes[v], n) <= Pollable(t, n)
<1> DEFINE A == Accounts(Voter, t)
           f == [v \in A |-> AmountOf(votes[v], n)]
<1>1. IsFiniteSet(A) /\ A \subseteq Voter
  BY ClaimingAssumption, FS_Subset DEF Accounts
<1>2. \A v \in A : f[v] \in Nat
  BY <1>1, VotesArePositive
<1>3. /\ SumFunctionOnSet(f, A) \in Nat
      /\ \A v \in A : f[v] <= SumFunctionOnSet(f, A)
  <2> HIDE DEF f, A
  <2> QED BY <1>1, <1>2, SumOfNats
<1>4. Pollable(t, n) = SumFunctionOnSet(f, A)
  BY DEF Pollable, SumOver
<1> HIDE DEF A
<1>5. \A v \in A : f[v] = AmountOf(votes[v], n)
  OBVIOUS
<1> HIDE DEF f
<1>6. Pollable(t, n) \in Nat /\ \A v \in A : AmountOf(votes[v], n) <= Pollable(t, n)
  BY <1>3, <1>4, <1>5
<1> QED BY <1>1, <1>6 DEF A

LEMMA SharesAreNumbers ==
  ASSUME VotesTyped, NEW c, IsRewards(c.rewards, Node), NEW v \in Voter, TableOf[v] = c.to
  PROVE  /\ \A n \in DOMAIN votes[v] \cap DOMAIN c.rewards :
              /\ VoterShare(c, v, n) \in Nat
              /\ Pollable(c.to, n) \in Nat \ {0}
              /\ Pollable(c.to, n) * VoterShare(c, v, n) <= c.rewards[n] * votes[v][n]
         /\ Earned(c, v) \in Nat
<1> DEFINE S == DOMAIN votes[v] \cap DOMAIN c.rewards
           f == [n \in S |-> VoterShare(c, v, n)]
<1>1. ASSUME NEW n \in S
      PROVE  /\ VoterShare(c, v, n) \in Nat
             /\ Pollable(c.to, n) \in Nat \ {0}
             /\ Pollable(c.to, n) * VoterShare(c, v, n) <= c.rewards[n] * votes[v][n]
  <2>1. votes[v][n] \in Nat \ {0} /\ c.rewards[n] \in Nat
    BY VotesArePositive DEF IsRewards
  <2>2. v \in Accounts(Voter, c.to)
    BY DEF Accounts
  <2>3. AmountOf(votes[v], n) = votes[v][n]
    BY DEF AmountOf
  <2>4. Pollable(c.to, n) \in Nat \ {0}
    BY <2>1, <2>2, <2>3, PollableFacts
  <2> DEFINE p == Pollable(c.to, n)
             x == c.rewards[n] * votes[v][n]
  <2>5. x \in Nat
    BY <2>1
  <2>6. VoterShare(c, v, n) = x \div p
    BY DEF VoterShare
  <2>7. p \in Nat \ {0}
    BY <2>4
  <2> HIDE DEF p, x
  <2>8. VoterShare(c, v, n) \in Nat /\ p * VoterShare(c, v, n) <= x
    BY <2>5, <2>6, <2>7, DivFacts
  <2> QED BY <2>4, <2>8 DEF p, x
<1>2. IsFiniteSet(S)
  BY VotesArePositive, FS_Subset
<1>3. \A n \in S : f[n] \in Nat
  BY <1>1
<1>4. SumFunctionOnSet(f, S) \in Nat
  <2> HIDE DEF f, S
  <2> QED BY <1>2, <1>3, SumOfNats
<1> QED BY <1>1, <1>4 DEF Earned, SumOver

\* A reward is added to what is there.
LEMMA AddedFacts ==
  ASSUME NEW rec \in RewardRecord, NEW x \in Nat
  PROVE  /\ Added(rec, x) \in RewardRecord
         /\ Added(rec, x).accumulated = rec.accumulated + x
         /\ Added(rec, x).unclaimed = rec.unclaimed + x
BY DEF Added, RewardRecord

\* The dividend of a voter is added to his record and to its parts.
LEMMA AddVoterReward ==
  ASSUME VotesTyped, NEW c, IsRewards(c.rewards, Node), NEW v \in Voter, TableOf[v] = c.to,
         NEW rec, IsVoterRecord(rec), NEW new, new = add_voter_reward(rec, c, v)
  PROVE  /\ IsVoterRecord(new)
         /\ new.accumulated = rec.accumulated + Earned(c, v)
         /\ new.unclaimed = rec.unclaimed + Earned(c, v)
         /\ AddsUp(rec) => AddsUp(new)
<1> DEFINE S == DOMAIN votes[v] \cap DOMAIN c.rewards
           P == DOMAIN rec.parts
           D == P \cup S
           share(n) == VoterShare(c, v, n)
           part(n) == IF n \in S THEN PartWith(rec, n, share(n)) ELSE rec.parts[n]
           e == Earned(c, v)
<1>1. new = [accumulated |-> rec.accumulated + e, unclaimed |-> rec.unclaimed + e,
             parts |-> [n \in D |-> part(n)]]
  BY DEF add_voter_reward, Earned
<1>2. /\ new.accumulated = rec.accumulated + e
      /\ new.unclaimed = rec.unclaimed + e
      /\ new.parts = [n \in D |-> part(n)]
      /\ new = [accumulated |-> new.accumulated, unclaimed |-> new.unclaimed,
                parts |-> new.parts]
  <2> HIDE DEF part, D, e
  <2> QED BY <1>1
<1>3. e \in Nat /\ \A n \in S : share(n) \in Nat
  BY SharesAreNumbers
<1>4. /\ [accumulated |-> rec.accumulated, unclaimed |-> rec.unclaimed] \in RewardRecord
      /\ P \subseteq Node /\ \A n \in P : rec.parts[n] \in RewardRecord
  BY DEF IsVoterRecord, IsMap
<1>5. rec.accumulated \in Nat /\ rec.unclaimed \in Nat /\ rec.unclaimed <= rec.accumulated
  BY <1>4 DEF RewardRecord
<1>6. Zero \in RewardRecord
  BY DEF Zero, RewardRecord
<1>7. ASSUME NEW n \in D
      PROVE  /\ part(n) \in RewardRecord
             /\ part(n).accumulated = (IF n \in P THEN rec.parts[n].accumulated ELSE 0)
                                        + (IF n \in S THEN share(n) ELSE 0)
             /\ part(n).unclaimed = (IF n \in P THEN rec.parts[n].unclaimed ELSE 0)
                                      + (IF n \in S THEN share(n) ELSE 0)
  <2>1. n \in P => rec.parts[n].accumulated \in Nat /\ rec.parts[n].unclaimed \in Nat
    BY <1>4 DEF RewardRecord
  <2>2. CASE n \in S /\ n \in P
    <3>1. part(n) = Added(rec.parts[n], share(n))
      BY <2>2 DEF PartWith
    <3>2. rec.parts[n] \in RewardRecord /\ share(n) \in Nat
      BY <1>3, <1>4, <2>2
    <3> HIDE DEF part, S, P, share
    <3>3. /\ Added(rec.parts[n], share(n)) \in RewardRecord
          /\ Added(rec.parts[n], share(n)).accumulated = rec.parts[n].accumulated + share(n)
          /\ Added(rec.parts[n], share(n)).unclaimed = rec.parts[n].unclaimed + share(n)
      BY <3>2, AddedFacts
    <3> QED BY <2>2, <3>1, <3>3
  <2>3. CASE n \in S /\ n \notin P
    <3>1. part(n) = Added(Zero, share(n))
      BY <2>3 DEF PartWith
    <3>2. Zero.accumulated = 0 /\ Zero.unclaimed = 0
      BY DEF Zero
    <3> HIDE DEF part, S, P, share
    <3> QED BY <1>3, <1>6, <2>3, <3>1, <3>2, AddedFacts
  <2>4. CASE n \notin S
    <3>1. part(n) = rec.parts[n] /\ n \in P
      BY <2>4
    <3> HIDE DEF part, S, P, share
    <3> QED BY <1>4, <2>1, <2>4, <3>1
  <2> QED BY <2>2, <2>3, <2>4
<1>8. D \subseteq Node /\ IsFiniteSet(D) /\ P \in SUBSET D /\ S \in SUBSET D
  <2>1. D \subseteq Node
    BY <1>4, VotesArePositive
  <2> QED BY <2>1, ClaimingAssumption, FS_Subset
<1>9. IsMap(new.parts, Node) /\ DOMAIN new.parts = D /\ \A n \in D : new.parts[n] = part(n)
  <2> HIDE DEF part, D
  <2> QED BY <1>2, <1>8 DEF IsMap
<1>10. IsVoterRecord(new)
  <2>1. [accumulated |-> new.accumulated, unclaimed |-> new.unclaimed] \in RewardRecord
    <3> HIDE DEF e
    <3> QED BY <1>2, <1>3, <1>5 DEF RewardRecord
  <2> HIDE DEF part, D
  <2> QED BY <1>2, <1>7, <1>9, <2>1 DEF IsVoterRecord
<1>11. ASSUME NEW f, NEW g,
              \A n \in P : f[n] \in Nat,
              \A n \in D : g[n] = (IF n \in P THEN f[n] ELSE 0) + (IF n \in S THEN share(n) ELSE 0)
       PROVE  /\ SumFunctionOnSet(g, D) = SumFunctionOnSet(f, P) + e
              /\ SumFunctionOnSet(f, P) \in Nat
  <2> DEFINE a == [n \in D |-> IF n \in P THEN f[n] ELSE 0]
             b == [n \in D |-> IF n \in S THEN share(n) ELSE 0]
             h == [n \in S |-> share(n)]
  <2>1. \A n \in D : a[n] = IF n \in P THEN f[n] ELSE 0
    OBVIOUS
  <2>2. \A n \in D : b[n] = IF n \in S THEN h[n] ELSE 0
    OBVIOUS
  <2>3. \A n \in S : h[n] \in Int
    BY <1>3
  <2>4. \A n \in D : a[n] \in Int /\ b[n] \in Int /\ g[n] = a[n] + b[n]
    <3> HIDE DEF P, S, share
    <3> QED BY <1>3, <1>11
  <2>5. e = SumFunctionOnSet(h, S)
    BY DEF Earned, SumOver
  <2>6. IsFiniteSet(P) /\ SumFunctionOnSet(f, P) \in Nat
    <3>1. IsFiniteSet(P)
      BY <1>8, FS_Subset
    <3> HIDE DEF P
    <3> QED BY <1>11, <3>1, SumOfNats
  <2>7. \A n \in P : f[n] \in Int
    BY <1>11
  <2> HIDE DEF a, b, h, D, P, S, e
  <2>8. SumFunctionOnSet(a, D) = SumFunctionOnSet(f, P)
    BY <1>8, <2>1, <2>7, SumWithin
  <2>9. SumFunctionOnSet(b, D) = SumFunctionOnSet(h, S)
    BY <1>8, <2>2, <2>3, SumWithin
  <2>10. SumFunctionOnSet(g, D) = SumFunctionOnSet(a, D) + SumFunctionOnSet(b, D)
    BY <1>8, <2>4, SumPlus
  <2> QED BY <2>5, <2>6, <2>8, <2>9, <2>10
<1>12. ASSUME AddsUp(rec) PROVE AddsUp(new)
  <2> DEFINE fa == [n \in P |-> rec.parts[n].accumulated]
             ga == [n \in D |-> new.parts[n].accumulated]
             fu == [n \in P |-> rec.parts[n].unclaimed]
             gu == [n \in D |-> new.parts[n].unclaimed]
  <2>1. \A n \in P : fa[n] \in Nat /\ fu[n] \in Nat
    BY <1>4 DEF RewardRecord
  <2>2. \A n \in D : ga[n] = (IF n \in P THEN fa[n] ELSE 0) + (IF n \in S THEN share(n) ELSE 0)
    <3> HIDE DEF part, share, D, P, S
    <3> QED BY <1>7, <1>9
  <2>3. \A n \in D : gu[n] = (IF n \in P THEN fu[n] ELSE 0) + (IF n \in S THEN share(n) ELSE 0)
    <3> HIDE DEF part, share, D, P, S
    <3> QED BY <1>7, <1>9
  <2>4. /\ rec.accumulated = SumFunctionOnSet(fa, P)
        /\ rec.unclaimed - SumFunctionOnSet(fu, P) \in 0 .. Precision - 1
    BY <1>12 DEF AddsUp, SumOver
  <2> SUFFICES /\ new.accumulated = SumFunctionOnSet(ga, D)
               /\ new.unclaimed - SumFunctionOnSet(gu, D) \in 0 .. Precision - 1
    <3> HIDE DEF D
    <3> QED BY <1>9 DEF AddsUp, SumOver
  <2> HIDE DEF fa, fu, ga, gu, D, P, S, share, e
  <2>5. SumFunctionOnSet(ga, D) = SumFunctionOnSet(fa, P) + e
    BY <1>11, <2>1, <2>2
  <2>6. SumFunctionOnSet(gu, D) = SumFunctionOnSet(fu, P) + e /\ SumFunctionOnSet(fu, P) \in Nat
    BY <1>11, <2>1, <2>3
  <2>7. Precision \in Nat
    BY DispatchAssumption
  <2>8. new.accumulated = SumFunctionOnSet(ga, D)
    BY <1>2, <2>4, <2>5
  <2>9. new.unclaimed - SumFunctionOnSet(gu, D) = rec.unclaimed - SumFunctionOnSet(fu, P)
    BY <1>2, <1>3, <1>5, <2>6
  <2> QED BY <2>4, <2>8, <2>9
<1> QED BY <1>2, <1>10, <1>12

\* A claim leaves the fraction of a token, and no part.
LEMMA ClaimedFacts ==
  ASSUME NEW rec, IsVoterRecord(rec), AddsUp(rec), NEW new, new = Claimed(rec)
  PROVE  /\ IsVoterRecord(new) /\ AddsUp(new)
         /\ new.accumulated = rec.accumulated
         /\ Whole(rec.unclaimed) \in Nat
         /\ rec.unclaimed = Precision * Whole(rec.unclaimed) + new.unclaimed
<1> DEFINE P == DOMAIN rec.parts
           part(n) == [accumulated |-> rec.parts[n].accumulated, unclaimed |-> 0]
           w == Whole(rec.unclaimed)
<1>1. /\ rec = [accumulated |-> rec.accumulated, unclaimed |-> rec.unclaimed,
                parts |-> rec.parts]
      /\ P \subseteq Node /\ \A n \in P : rec.parts[n] \in RewardRecord
  BY DEF IsVoterRecord, IsMap
<1>2. rec.accumulated \in Nat /\ rec.unclaimed \in Nat /\ rec.unclaimed <= rec.accumulated
  BY DEF IsVoterRecord, RewardRecord
<1>3. \A n \in P : [rec.parts[n] EXCEPT !.unclaimed = 0] = part(n)
  <2> SUFFICES ASSUME NEW n \in P
               PROVE  [rec.parts[n] EXCEPT !.unclaimed = 0] = part(n)
    OBVIOUS
  <2>1. rec.parts[n] \in [accumulated : Nat, unclaimed : Nat]
    BY <1>1 DEF RewardRecord
  <2> DEFINE r == rec.parts[n]
  <2>2. r \in [accumulated : Nat, unclaimed : Nat]
    BY <2>1
  <2> HIDE DEF r
  <2>3. [r EXCEPT !.unclaimed = 0] = [accumulated |-> r.accumulated, unclaimed |-> 0]
    BY <2>2
  <2> QED BY <2>3 DEF r
<1>4. new = [accumulated |-> rec.accumulated, unclaimed |-> rec.unclaimed % Precision,
             parts |-> [n \in P |-> part(n)]]
  <2> DEFINE q == [n \in P |-> [rec.parts[n] EXCEPT !.unclaimed = 0]]
  <2>1. q = [n \in P |-> part(n)]
    BY <1>3
  <2>2. new = [rec EXCEPT !.unclaimed = @ % Precision, !.parts = q]
    BY DEF Claimed
  <2> HIDE DEF q
  <2>3. new = [accumulated |-> rec.accumulated, unclaimed |-> rec.unclaimed % Precision,
               parts |-> q]
    BY <1>1, <2>2
  <2> QED BY <2>1, <2>3
<1>5. /\ new.accumulated = rec.accumulated
      /\ new.unclaimed = rec.unclaimed % Precision
      /\ DOMAIN new.parts = P
      /\ new.parts = [n \in P |-> new.parts[n]]
      /\ \A n \in P : new.parts[n] = part(n)
      /\ new = [accumulated |-> new.accumulated, unclaimed |-> new.unclaimed,
                parts |-> new.parts]
  BY <1>4
<1>6. /\ w \in Nat /\ new.unclaimed \in 0 .. Precision - 1
      /\ rec.unclaimed = Precision * w + new.unclaimed
  <2>1. Precision \in Nat \ {0}
    BY DispatchAssumption
  <2> QED BY <1>2, <1>5, <2>1, DivFacts DEF Whole
<1>7. \A n \in P : part(n) \in RewardRecord /\ rec.parts[n].accumulated \in Nat
  BY <1>1 DEF RewardRecord
<1>8. IsVoterRecord(new)
  <2>1. new.unclaimed \in Nat /\ new.unclaimed <= rec.accumulated
    <3>1. Precision * w \in Nat
      BY <1>6, DispatchAssumption
    <3> QED BY <1>2, <1>6, <3>1
  <2>2. [accumulated |-> new.accumulated, unclaimed |-> new.unclaimed] \in RewardRecord
    BY <1>2, <1>5, <2>1 DEF RewardRecord
  <2>3. \A n \in DOMAIN new.parts : new.parts[n] \in RewardRecord
    BY <1>5, <1>7
  <2>4. IsMap(new.parts, Node)
    BY <1>1, <1>5 DEF IsMap
  <2> QED BY <1>5, <2>2, <2>3, <2>4 DEF IsVoterRecord
<1>9. AddsUp(new)
  <2> DEFINE fa == [n \in P |-> rec.parts[n].accumulated]
             ga == [n \in P |-> new.parts[n].accumulated]
             gu == [n \in P |-> new.parts[n].unclaimed]
  <2>1. IsFiniteSet(P)
    BY <1>1, ClaimingAssumption, FS_Subset
  <2>2. \A n \in P : ga[n] = fa[n] /\ gu[n] = 0
    <3> SUFFICES ASSUME NEW n \in P PROVE ga[n] = fa[n] /\ gu[n] = 0
      OBVIOUS
    <3>1. new.parts[n] = part(n)
      BY <1>5
    <3>2. part(n).accumulated = rec.parts[n].accumulated /\ part(n).unclaimed = 0
      OBVIOUS
    <3>3. ga[n] = new.parts[n].accumulated /\ gu[n] = new.parts[n].unclaimed
          /\ fa[n] = rec.parts[n].accumulated
      OBVIOUS
    <3> HIDE DEF part, fa, ga, gu
    <3> QED BY <3>1, <3>2, <3>3
  <2>3. rec.accumulated = SumFunctionOnSet(fa, P)
    BY DEF AddsUp, SumOver
  <2> SUFFICES /\ new.accumulated = SumFunctionOnSet(ga, P)
               /\ new.unclaimed - SumFunctionOnSet(gu, P) \in 0 .. Precision - 1
    BY <1>5 DEF AddsUp, SumOver
  <2> HIDE DEF fa, ga, gu, P
  <2>4. SumFunctionOnSet(ga, P) = SumFunctionOnSet(fa, P)
    BY <2>1, <2>2, SumSame
  <2>5. SumFunctionOnSet(gu, P) = 0
    BY <2>1, <2>2, SumOfZeros
  <2>6. new.unclaimed - 0 \in 0 .. Precision - 1
    BY <1>6, DispatchAssumption
  <2> QED BY <1>5, <2>3, <2>4, <2>5, <2>6
<1> QED BY <1>5, <1>6, <1>8, <1>9

-----------------------------------------------------------------------------
(***************************************************************************)
(* The books of the claiming contracts.  An account has been given what it *)
(* has not claimed and what it has been paid.                              *)
(***************************************************************************)
NodesPaid == \A n \in Node :
  node_rec[n].accumulated = node_rec[n].unclaimed + Precision * node_paid[n]

VotersPaid == \A v \in Voter :
  voter_rec[v].accumulated = voter_rec[v].unclaimed + Precision * voter_paid[v]

NodeBooks == node_rec \in [Node -> RewardRecord] /\ node_paid \in [Node -> Nat] /\ NodesPaid

VoterBooks ==
  /\ IsMap(voter_rec, Voter) /\ DOMAIN voter_rec = Voter
  /\ \A v \in Voter : IsVoterRecord(voter_rec[v])
  /\ voter_paid \in [Voter -> Nat] /\ PartsAddUp /\ VotersPaid

Books ==
  /\ granted \in [Node -> Nat]
  /\ VotesTyped
  /\ balance \in [Table -> Int]
  /\ NodeBooks /\ VoterBooks

LEMMA PaidBeforeFacts ==
  ASSUME NEW r, r.accumulated \in Nat, r.unclaimed \in Nat, r.unclaimed <= r.accumulated,
         InTokens(r)
  PROVE  PaidBefore(r) \in Nat /\ r.accumulated = r.unclaimed + Precision * PaidBefore(r)
<1> DEFINE x == r.accumulated - r.unclaimed
<1>1. x \in Nat /\ x % Precision = 0 /\ PaidBefore(r) = x \div Precision
  BY DEF InTokens, PaidBefore, Whole
<1> HIDE DEF x
<1>2. PaidBefore(r) \in Nat /\ x = Precision * PaidBefore(r) + 0
  <2>1. Precision \in Nat \ {0}
    BY DispatchAssumption
  <2>2. x \div Precision \in Nat /\ x = Precision * (x \div Precision) + (x % Precision)
    BY <1>1, <2>1, DivFacts
  <2> QED BY <1>1, <2>2
<1>3. Precision * PaidBefore(r) \in Int
  BY <1>2, DispatchAssumption
<1> QED BY <1>2, <1>3 DEF x

\* A table's total of natural numbers.
LEMMA UnclaimedType ==
  ASSUME NEW rec, NEW A, IsFiniteSet(A), \A a \in A : rec[a].unclaimed \in Nat
  PROVE  Unclaimed(rec, A) \in Nat
<1> DEFINE f == [a \in A |-> rec[a].unclaimed]
<1>1. \A a \in A : f[a] \in Nat
  OBVIOUS
<1>2. SumFunctionOnSet(f, A) \in Nat
  <2> HIDE DEF f
  <2> QED BY <1>1, SumOfNats
<1> QED BY <1>2 DEF Unclaimed, SumOver

\* The accounts of a table are finitely many.
LEMMA AccountsFinite ==
  \A t : /\ IsFiniteSet(Accounts(Node, t)) /\ Accounts(Node, t) \subseteq Node
         /\ IsFiniteSet(Accounts(Voter, t)) /\ Accounts(Voter, t) \subseteq Voter
<1> SUFFICES ASSUME NEW t
             PROVE  /\ IsFiniteSet(Accounts(Node, t)) /\ Accounts(Node, t) \subseteq Node
                    /\ IsFiniteSet(Accounts(Voter, t)) /\ Accounts(Voter, t) \subseteq Voter
  OBVIOUS
<1>1. Accounts(Node, t) \subseteq Node /\ Accounts(Voter, t) \subseteq Voter
  BY DEF Accounts
<1> QED BY <1>1, ClaimingAssumption, FS_Subset

\* A call that records rewards of nodes.
LEMMA RecvNodeChanges ==
  ASSUME Mail, Books, NEW c \in calls, recv_node_reward(c)
  PROVE  /\ \A n \in Node : /\ AmountOf(c.rewards, n) \in Nat
                            /\ node_rec'[n].accumulated = node_rec[n].accumulated + AmountOf(c.rewards, n)
                            /\ node_rec'[n].unclaimed = node_rec[n].unclaimed + AmountOf(c.rewards, n)
         /\ node_rec' \in [Node -> RewardRecord]
<1>1. IsRewards(c.rewards, Node)
  BY DEF Mail, IsCall
<1>2. ASSUME NEW n \in Node
      PROVE  /\ AmountOf(c.rewards, n) \in Nat
             /\ node_rec'[n] \in RewardRecord
             /\ node_rec'[n].accumulated = node_rec[n].accumulated + AmountOf(c.rewards, n)
             /\ node_rec'[n].unclaimed = node_rec[n].unclaimed + AmountOf(c.rewards, n)
  <2>1. node_rec[n] \in RewardRecord
    BY DEF Books, NodeBooks
  <2>2. CASE n \in DOMAIN c.rewards
    <3>1. c.rewards[n] \in Nat /\ AmountOf(c.rewards, n) = c.rewards[n]
      BY <1>1, <2>2 DEF IsRewards, AmountOf
    <3>2. node_rec'[n] = Added(node_rec[n], c.rewards[n])
      BY <2>2 DEF recv_node_reward
    <3> QED BY <2>1, <3>1, <3>2, AddedFacts
  <2>3. CASE n \notin DOMAIN c.rewards
    <3>1. AmountOf(c.rewards, n) = 0
      BY <2>3 DEF AmountOf
    <3>2. node_rec'[n] = node_rec[n]
      BY <2>3 DEF recv_node_reward
    <3> QED BY <2>1, <3>1, <3>2 DEF RewardRecord
  <2> QED BY <2>2, <2>3
<1>3. node_rec' = [n \in Node |-> node_rec'[n]]
  BY DEF recv_node_reward
<1> QED BY <1>2, <1>3

\* A call that divides a dividend.
LEMMA RecvVoterChanges ==
  ASSUME Mail, Books, NEW c \in calls, recv_voter_dividend_reward(c)
  PROVE  /\ \A v \in Accounts(Voter, c.to) :
              /\ Earned(c, v) \in Nat
              /\ voter_rec'[v].accumulated = voter_rec[v].accumulated + Earned(c, v)
              /\ voter_rec'[v].unclaimed = voter_rec[v].unclaimed + Earned(c, v)
         /\ \A v \in Voter \ Accounts(Voter, c.to) : voter_rec'[v] = voter_rec[v]
         /\ IsMap(voter_rec', Voter) /\ DOMAIN voter_rec' = Voter
         /\ \A v \in Voter : IsVoterRecord(voter_rec'[v]) /\ AddsUp(voter_rec'[v])
<1>1. IsRewards(c.rewards, Node) /\ VotesTyped
  BY DEF Mail, IsCall, Books
<1>2. \A v \in Voter : IsVoterRecord(voter_rec[v]) /\ AddsUp(voter_rec[v])
  BY DEF Books, VoterBooks, PartsAddUp
<1>3. voter_rec' = [v \in Voter |-> IF TableOf[v] = c.to THEN add_voter_reward(voter_rec[v], c, v)
                                                        ELSE voter_rec[v]]
  BY DEF recv_voter_dividend_reward
<1>4. IsMap(voter_rec', Voter) /\ DOMAIN voter_rec' = Voter
  BY <1>3 DEF IsMap
<1>5. ASSUME NEW v \in Accounts(Voter, c.to)
      PROVE  /\ Earned(c, v) \in Nat
             /\ voter_rec'[v].accumulated = voter_rec[v].accumulated + Earned(c, v)
             /\ voter_rec'[v].unclaimed = voter_rec[v].unclaimed + Earned(c, v)
             /\ IsVoterRecord(voter_rec'[v]) /\ AddsUp(voter_rec'[v])
  <2>1. v \in Voter /\ TableOf[v] = c.to
    BY DEF Accounts
  <2>2. voter_rec'[v] = add_voter_reward(voter_rec[v], c, v)
    BY <1>3, <2>1
  <2>3. Earned(c, v) \in Nat
    BY <1>1, <2>1, SharesAreNumbers
  <2> QED BY <1>1, <1>2, <2>1, <2>2, <2>3, AddVoterReward
<1>6. \A v \in Voter \ Accounts(Voter, c.to) : voter_rec'[v] = voter_rec[v]
  BY <1>3 DEF Accounts
<1> QED BY <1>2, <1>4, <1>5, <1>6

\* A node claims.
LEMMA ClaimNodeChanges ==
  ASSUME Books, NEW n \in Node, claimNodeReward(n)
  PROVE  \E tokens \in Nat :
           /\ balance' = [balance EXCEPT ![TableOf[n]] = @ - tokens]
           /\ node_rec' \in [Node -> RewardRecord]
           /\ \A m \in Node \ {n} : node_rec'[m] = node_rec[m]
           /\ node_rec'[n].accumulated = node_rec[n].accumulated
           /\ node_rec[n].unclaimed = node_rec'[n].unclaimed + Precision * tokens
           /\ tokens = Whole(node_rec[n].unclaimed)
           /\ node_paid' = [node_paid EXCEPT ![n] = @ + tokens]
<1> DEFINE r == node_rec[n]
           tokens == Whole(r.unclaimed)
           new == [r EXCEPT !.unclaimed = @ - tokens * Precision]
<1>1. r \in [accumulated : Nat, unclaimed : Nat] /\ r.unclaimed <= r.accumulated
  BY DEF Books, NodeBooks, RewardRecord
<1>2. /\ tokens \in Nat /\ r.unclaimed % Precision \in Nat
      /\ r.unclaimed = Precision * tokens + (r.unclaimed % Precision)
  <2> DEFINE x == r.unclaimed
  <2>1. x \in Nat /\ tokens = x \div Precision
    BY <1>1 DEF Whole
  <2> HIDE DEF x, r, tokens
  <2>2. tokens \in Nat /\ x % Precision \in 0 .. Precision - 1
        /\ x = Precision * tokens + (x % Precision)
    BY <2>1, DispatchAssumption, DivFacts
  <2>3. x % Precision \in Nat
    BY <2>2, DispatchAssumption
  <2> QED BY <2>2, <2>3 DEF x
<1>3. /\ node_rec' = [node_rec EXCEPT ![n].unclaimed = @ - tokens * Precision]
      /\ balance' = [balance EXCEPT ![TableOf[n]] = @ - tokens]
      /\ node_paid' = [node_paid EXCEPT ![n] = @ + tokens]
  BY DEF claimNodeReward, PayOut
<1>4. DOMAIN node_rec = Node /\ node_rec = [m \in Node |-> node_rec[m]]
  BY DEF Books, NodeBooks
<1>5. node_rec'[n] = new /\ \A m \in Node \ {n} : node_rec'[m] = node_rec[m]
  BY <1>3, <1>4
<1> HIDE DEF tokens
<1>6. new = [accumulated |-> r.accumulated, unclaimed |-> r.unclaimed - tokens * Precision]
  <2> HIDE DEF r
  <2> QED BY <1>1
<1>7. Precision * tokens \in Nat /\ tokens * Precision = Precision * tokens
  BY <1>2, DispatchAssumption
<1> HIDE DEF r
<1>8. /\ new.accumulated = r.accumulated
      /\ r.unclaimed = new.unclaimed + Precision * tokens
      /\ new \in RewardRecord
  <2>1. r.unclaimed - tokens * Precision = r.unclaimed % Precision
    BY <1>1, <1>2, <1>7
  <2>2. new = [accumulated |-> r.accumulated, unclaimed |-> r.unclaimed % Precision]
    BY <1>6, <2>1
  <2>3. r.unclaimed % Precision <= r.accumulated
    BY <1>1, <1>2, <1>7
  <2> HIDE DEF new
  <2>4. new \in RewardRecord
    BY <1>1, <1>2, <2>2, <2>3 DEF RewardRecord
  <2> QED BY <1>2, <1>7, <2>2, <2>4
<1> HIDE DEF new
<1>9. node_rec' \in [Node -> RewardRecord]
  <2>1. node_rec' = [m \in Node |-> node_rec'[m]]
    BY <1>3, <1>4
  <2>2. \A m \in Node : node_rec[m] \in RewardRecord
    BY DEF Books, NodeBooks
  <2> QED BY <1>5, <1>8, <2>1, <2>2
<1>10. tokens \in Nat
  BY <1>2
<1> WITNESS tokens \in Nat
<1> QED BY <1>3, <1>5, <1>8, <1>9 DEF r, tokens

\* A voter claims.
LEMMA ClaimVoterChanges ==
  ASSUME Books, NEW v \in Voter, claimVoterDividend(v)
  PROVE  \E tokens \in Nat :
           /\ balance' = [balance EXCEPT ![TableOf[v]] = @ - tokens]
           /\ IsMap(voter_rec', Voter) /\ DOMAIN voter_rec' = Voter
           /\ \A w \in Voter : IsVoterRecord(voter_rec'[w]) /\ AddsUp(voter_rec'[w])
           /\ \A w \in Voter \ {v} : voter_rec'[w] = voter_rec[w]
           /\ voter_rec'[v].accumulated = voter_rec[v].accumulated
           /\ voter_rec[v].unclaimed = voter_rec'[v].unclaimed + Precision * tokens
           /\ tokens = Whole(voter_rec[v].unclaimed)
           /\ voter_paid' = [voter_paid EXCEPT ![v] = @ + tokens]
<1> DEFINE tokens == Whole(voter_rec[v].unclaimed)
<1>1. /\ voter_rec' = [voter_rec EXCEPT ![v] = Claimed(@)]
      /\ balance' = [balance EXCEPT ![TableOf[v]] = @ - tokens]
      /\ voter_paid' = [voter_paid EXCEPT ![v] = @ + tokens]
  BY DEF claimVoterDividend, PayOut
<1>2. /\ DOMAIN voter_rec = Voter
      /\ \A w \in Voter : IsVoterRecord(voter_rec[w]) /\ AddsUp(voter_rec[w])
  BY DEF Books, VoterBooks, PartsAddUp
<1>3. /\ voter_rec'[v] = Claimed(voter_rec[v])
      /\ \A w \in Voter \ {v} : voter_rec'[w] = voter_rec[w]
      /\ voter_rec' = [w \in Voter |-> voter_rec'[w]] /\ DOMAIN voter_rec' = Voter
  BY <1>1, <1>2
<1>4. /\ IsVoterRecord(voter_rec'[v]) /\ AddsUp(voter_rec'[v])
      /\ voter_rec'[v].accumulated = voter_rec[v].accumulated
      /\ tokens \in Nat
      /\ voter_rec[v].unclaimed = Precision * tokens + voter_rec'[v].unclaimed
  BY <1>2, <1>3, ClaimedFacts
<1>5. IsMap(voter_rec', Voter)
  BY <1>3 DEF IsMap
<1>6. \A w \in Voter : IsVoterRecord(voter_rec'[w]) /\ AddsUp(voter_rec'[w])
  BY <1>2, <1>3, <1>4
<1> HIDE DEF tokens
<1>7. voter_rec[v].unclaimed = voter_rec'[v].unclaimed + Precision * tokens
  <2>1. voter_rec'[v].unclaimed \in Nat
    BY <1>4 DEF IsVoterRecord, RewardRecord
  <2>2. Precision * tokens \in Nat
    BY <1>4, DispatchAssumption
  <2> QED BY <1>4, <2>1, <2>2
<1>8. tokens \in Nat
  BY <1>4
<1> WITNESS tokens \in Nat
<1> QED BY <1>1, <1>3, <1>4, <1>5, <1>6, <1>7 DEF tokens

\* Setup credits a table with the tokens of its old records, the fractions
\* together rounded up.
WholeTokens(rec, A) == SumOver(A, LAMBDA a : Whole(rec[a].unclaimed))
Fractions(rec, A) == SumOver(A, LAMBDA a : rec[a].unclaimed % Precision)

LEMMA RecordsInTokens ==
  ASSUME NEW rec, NEW A, IsFiniteSet(A), \A a \in A : rec[a].unclaimed \in Nat
  PROVE  /\ WholeTokens(rec, A) \in Nat /\ Fractions(rec, A) \in Nat
         /\ Unclaimed(rec, A) = Precision * WholeTokens(rec, A) + Fractions(rec, A)
<1> DEFINE u == [a \in A |-> rec[a].unclaimed]
           w == [a \in A |-> Whole(rec[a].unclaimed)]
           r == [a \in A |-> rec[a].unclaimed % Precision]
           pw == [a \in A |-> Precision * w[a]]
<1>1. Precision \in Nat \ {0}
  BY DispatchAssumption
<1>2. ASSUME NEW a \in A
      PROVE  /\ w[a] \in Nat /\ r[a] \in Nat /\ pw[a] = Precision * w[a]
             /\ pw[a] \in Int /\ u[a] = pw[a] + r[a]
  <2> DEFINE x == rec[a].unclaimed
  <2>1. x \in Nat /\ w[a] = x \div Precision /\ r[a] = x % Precision /\ u[a] = x
    BY DEF Whole
  <2>2. pw[a] = Precision * w[a]
    OBVIOUS
  <2> HIDE DEF x, w, r, u, pw
  <2>3. w[a] \in Nat /\ r[a] \in 0 .. Precision - 1 /\ x = Precision * w[a] + r[a]
    BY <1>1, <2>1, DivFacts
  <2> QED BY <1>1, <2>1, <2>2, <2>3
<1>3. /\ Unclaimed(rec, A) = SumFunctionOnSet(u, A)
      /\ WholeTokens(rec, A) = SumFunctionOnSet(w, A)
      /\ Fractions(rec, A) = SumFunctionOnSet(r, A)
  BY DEF Unclaimed, WholeTokens, Fractions, SumOver
<1> HIDE DEF u, w, r, pw
<1>4. SumFunctionOnSet(w, A) \in Nat /\ SumFunctionOnSet(r, A) \in Nat
  BY <1>2, SumOfNats
<1>5. SumFunctionOnSet(pw, A) = Precision * SumFunctionOnSet(w, A)
  BY <1>1, <1>2, SumTimes
<1>6. SumFunctionOnSet(u, A) = SumFunctionOnSet(pw, A) + SumFunctionOnSet(r, A)
  BY <1>2, SumPlus
<1> QED BY <1>3, <1>4, <1>5, <1>6

\* What setup() credits a table with, in these terms.
LEMMA SetupTokensAre ==
  ASSUME NEW t
  PROVE  SetupTokens(RecordsAt(node_rec, Node, t), RecordsAt(voter_rec, Voter, t))
           = WholeTokens(node_rec, Accounts(Node, t)) + WholeTokens(voter_rec, Accounts(Voter, t))
               + WholeUp((Fractions(node_rec, Accounts(Node, t))
                           + Fractions(voter_rec, Accounts(Voter, t))) % 2^DecimalsWidth)
<1> DEFINE A == Accounts(Node, t)
           B == Accounts(Voter, t)
           n == RecordsAt(node_rec, Node, t)
           v == RecordsAt(voter_rec, Voter, t)
<1>1. DOMAIN n = A /\ DOMAIN v = B
  BY DEF RecordsAt
<1>2. (\A a \in A : n[a] = node_rec[a]) /\ (\A a \in B : v[a] = voter_rec[a])
  BY DEF RecordsAt
<1> HIDE DEF A, B, n, v
<1>3. /\ [a \in A |-> Whole(n[a].unclaimed)] = [a \in A |-> Whole(node_rec[a].unclaimed)]
      /\ [a \in A |-> n[a].unclaimed % Precision] = [a \in A |-> node_rec[a].unclaimed % Precision]
      /\ [a \in B |-> Whole(v[a].unclaimed)] = [a \in B |-> Whole(voter_rec[a].unclaimed)]
      /\ [a \in B |-> v[a].unclaimed % Precision] = [a \in B |-> voter_rec[a].unclaimed % Precision]
  BY <1>2
<1>4. /\ SumOver(A, LAMBDA a : Whole(n[a].unclaimed)) = WholeTokens(node_rec, A)
      /\ SumOver(A, LAMBDA a : n[a].unclaimed % Precision) = Fractions(node_rec, A)
      /\ SumOver(B, LAMBDA a : Whole(v[a].unclaimed)) = WholeTokens(voter_rec, B)
      /\ SumOver(B, LAMBDA a : v[a].unclaimed % Precision) = Fractions(voter_rec, B)
  BY <1>3, Zenon DEF SumOver, WholeTokens, Fractions
<1>5. SetupTokens(n, v)
        = SumOver(A, LAMBDA a : Whole(n[a].unclaimed)) + SumOver(B, LAMBDA a : Whole(v[a].unclaimed))
            + WholeUp((SumOver(A, LAMBDA a : n[a].unclaimed % Precision)
                        + SumOver(B, LAMBDA a : v[a].unclaimed % Precision)) % 2^DecimalsWidth)
  BY <1>1, Zenon DEF SetupTokens, SumOver
<1>6. SetupTokens(n, v)
        = WholeTokens(node_rec, A) + WholeTokens(voter_rec, B)
            + WholeUp((Fractions(node_rec, A) + Fractions(voter_rec, B)) % 2^DecimalsWidth)
  BY <1>4, <1>5, Zenon DEF SumOver
<1> QED BY <1>6, Zenon DEF A, B, n, v

\* A sum that is cut to some bits is still a number.
LEMMA PowerOfTwo ==
  ASSUME NEW n \in Nat
  PROVE  2^n \in Nat \ {0}
<1> DEFINE S == 1 .. n
<1>1. IsFiniteSet(S) /\ Cardinality(S) = n
  BY FS_Interval
<1>2. IsFiniteSet(SUBSET S) /\ Cardinality(SUBSET S) = 2^Cardinality(S)
  BY <1>1, FS_SUBSET
<1>3. Cardinality(SUBSET S) \in Nat /\ Cardinality(SUBSET S) # 0
  <2>1. SUBSET S # {}
    OBVIOUS
  <2> QED BY <1>2, <2>1, FS_CardinalityType, FS_EmptySet
<1>4. Cardinality(SUBSET S) = 2^n
  BY <1>1, <1>2, Zenon
<1> HIDE DEF S
<1> QED BY <1>3, <1>4, Zenon

LEMMA SetupTokensType ==
  ASSUME NEW t,
         \A n \in Node : node_rec[n].unclaimed \in Nat,
         \A v \in Voter : voter_rec[v].unclaimed \in Nat
  PROVE  SetupTokens(RecordsAt(node_rec, Node, t), RecordsAt(voter_rec, Voter, t)) \in Nat
<1> DEFINE A == Accounts(Node, t)
           B == Accounts(Voter, t)
           p == 2^DecimalsWidth
           x == Fractions(node_rec, A) + Fractions(voter_rec, B)
<1>1. IsFiniteSet(A) /\ A \subseteq Node /\ IsFiniteSet(B) /\ B \subseteq Voter
  BY AccountsFinite
<1>2. WholeTokens(node_rec, A) \in Nat /\ Fractions(node_rec, A) \in Nat
  <2> HIDE DEF A
  <2> QED BY <1>1, RecordsInTokens
<1>3. WholeTokens(voter_rec, B) \in Nat /\ Fractions(voter_rec, B) \in Nat
  <2> HIDE DEF B
  <2> QED BY <1>1, RecordsInTokens
<1>4. x \in Nat
  BY <1>2, <1>3
<1>5. p \in Nat \ {0}
  BY ClaimingAssumption, PowerOfTwo
<1> HIDE DEF x, p
<1>6. x % p \in Nat
  BY <1>4, <1>5
<1>7. WholeUp(x % p) \in Nat
  BY <1>6, WholeUpCovers
<1>8. SetupTokens(RecordsAt(node_rec, Node, t), RecordsAt(voter_rec, Voter, t))
        = WholeTokens(node_rec, A) + WholeTokens(voter_rec, B) + WholeUp(x % p)
  BY SetupTokensAre DEF x, p
<1> HIDE DEF A, B
<1> QED BY <1>2, <1>3, <1>7, <1>8

\* The first books.
LEMMA InitBooks == Init => Books
<1> SUFFICES ASSUME Init PROVE Books
  OBVIOUS
<1>1. /\ node_rec \in [Node -> {r \in RewardRecord : InTokens(r)}]
      /\ IsMap(voter_rec, Voter) /\ DOMAIN voter_rec = Voter
      /\ \A v \in Voter : /\ IsVoterRecord(voter_rec[v]) /\ InTokens(voter_rec[v])
                          /\ AddsUp(voter_rec[v])
  BY OldRecordsAssumption DEF Init
<1>2. /\ granted = [n \in Node |-> node_rec[n].accumulated]
      /\ node_paid = [n \in Node |-> PaidBefore(node_rec[n])]
      /\ voter_paid = [v \in Voter |-> PaidBefore(voter_rec[v])]
  BY DEF Init
<1>3. /\ votes \in [Voter -> UNION {VotesHeld[v] : v \in Voter}]
      /\ \A v \in Voter : votes[v] \in VotesHeld[v]
  BY DEF Init
<1>4. balance \in [Table -> Int]
  <2>1. DOMAIN balance = Table /\ balance = [t \in Table |-> balance[t]]
    BY DEF Init
  <2>2. \A t \in Table : balance[t] = SetupTokens(RecordsAt(node_rec, Node, t),
                                                  RecordsAt(voter_rec, Voter, t))
    BY DEF Init
  <2>3. ASSUME NEW t \in Table PROVE balance[t] \in Int
    <3>1. \A n \in Node : node_rec[n].unclaimed \in Nat
      BY <1>1 DEF RewardRecord
    <3>2. \A v \in Voter : voter_rec[v].unclaimed \in Nat
      BY <1>1 DEF IsVoterRecord, RewardRecord
    <3> QED BY <2>2, <3>1, <3>2, SetupTokensType
  <2> QED BY <2>1, <2>3
<1>5. \A n \in Node : /\ node_rec[n].accumulated \in Nat /\ node_rec[n].unclaimed \in Nat
                      /\ node_rec[n].unclaimed <= node_rec[n].accumulated
                      /\ InTokens(node_rec[n])
  BY <1>1 DEF RewardRecord
<1>6. \A v \in Voter : /\ voter_rec[v].accumulated \in Nat /\ voter_rec[v].unclaimed \in Nat
                       /\ voter_rec[v].unclaimed <= voter_rec[v].accumulated
  BY <1>1 DEF IsVoterRecord, RewardRecord
<1>7. node_rec \in [Node -> RewardRecord]
  BY <1>1
<1>8. NodeBooks
  <2>1. \A n \in Node : /\ PaidBefore(node_rec[n]) \in Nat
                        /\ node_rec[n].accumulated
                             = node_rec[n].unclaimed + Precision * PaidBefore(node_rec[n])
    BY <1>5, PaidBeforeFacts
  <2> QED BY <1>2, <1>7, <2>1 DEF NodeBooks, NodesPaid
<1>9. VoterBooks
  <2>1. \A v \in Voter : /\ PaidBefore(voter_rec[v]) \in Nat
                         /\ voter_rec[v].accumulated
                              = voter_rec[v].unclaimed + Precision * PaidBefore(voter_rec[v])
    BY <1>1, <1>6, PaidBeforeFacts
  <2> QED BY <1>1, <1>2, <2>1 DEF VoterBooks, VotersPaid, PartsAddUp
<1>10. granted \in [Node -> Nat]
  BY <1>2, <1>5
<1>11. VotesTyped
  BY <1>3 DEF VotesTyped, IsMap
<1> QED BY <1>4, <1>8, <1>9, <1>10, <1>11 DEF Books

\* What a round gives a node.
LEMMA GivenToType ==
  ASSUME NEW given \in GivenRewards, NEW n
  PROVE  GivenTo(given.nodes, n) \in Nat
<1> DEFINE T == DOMAIN given.nodes
           f == [t \in T |-> AmountOf(given.nodes[t], n)]
<1>1. IsFiniteSet(T)
  BY ClaimingAssumption, FS_Subset
<1>2. \A t \in T : f[t] \in Nat
  BY ClaimingAssumption DEF IsRewards, AmountOf
<1>3. SumFunctionOnSet(f, T) \in Nat
  <2> HIDE DEF f, T
  <2> QED BY <1>1, <1>2, SumOfNats
<1> QED BY <1>3 DEF GivenTo, SumOver

\* Books of which one side is left alone.
LEMMA NodeBooksKept ==
  ASSUME NodeBooks, UNCHANGED <<node_rec, node_paid>>
  PROVE  NodeBooks'
BY DEF NodeBooks, NodesPaid

LEMMA VoterBooksKept ==
  ASSUME VoterBooks, UNCHANGED <<voter_rec, voter_paid>>
  PROVE  VoterBooks'
BY DEF VoterBooks, VotersPaid, PartsAddUp

LEMMA RecvNodeKeepsBooks ==
  ASSUME Mail, Books, NEW c \in calls, recv_node_reward(c)
  PROVE  NodeBooks'
<1>1. /\ \A n \in Node :
           /\ AmountOf(c.rewards, n) \in Nat
           /\ node_rec'[n].accumulated = node_rec[n].accumulated + AmountOf(c.rewards, n)
           /\ node_rec'[n].unclaimed = node_rec[n].unclaimed + AmountOf(c.rewards, n)
      /\ node_rec' \in [Node -> RewardRecord]
  BY RecvNodeChanges
<1>2. node_paid' = node_paid /\ node_paid \in [Node -> Nat]
  BY DEF recv_node_reward, Books, NodeBooks
<1>3. ASSUME NEW n \in Node
      PROVE  node_rec'[n].accumulated = node_rec'[n].unclaimed + Precision * node_paid[n]
  <2>1. node_rec[n].accumulated = node_rec[n].unclaimed + Precision * node_paid[n]
    BY DEF Books, NodeBooks, NodesPaid
  <2>2. node_rec[n].unclaimed \in Nat
    BY DEF Books, NodeBooks, RewardRecord
  <2>3. Precision * node_paid[n] \in Nat
    BY <1>2, DispatchAssumption
  <2> QED BY <1>1, <2>1, <2>2, <2>3
<1> QED BY <1>1, <1>2, <1>3 DEF NodeBooks, NodesPaid

LEMMA RecvVoterKeepsBooks ==
  ASSUME Mail, Books, NEW c \in calls, recv_voter_dividend_reward(c)
  PROVE  VoterBooks'
<1>1. /\ \A v \in Accounts(Voter, c.to) :
           /\ Earned(c, v) \in Nat
           /\ voter_rec'[v].accumulated = voter_rec[v].accumulated + Earned(c, v)
           /\ voter_rec'[v].unclaimed = voter_rec[v].unclaimed + Earned(c, v)
      /\ \A v \in Voter \ Accounts(Voter, c.to) : voter_rec'[v] = voter_rec[v]
      /\ IsMap(voter_rec', Voter) /\ DOMAIN voter_rec' = Voter
      /\ \A v \in Voter : IsVoterRecord(voter_rec'[v]) /\ AddsUp(voter_rec'[v])
  BY RecvVoterChanges
<1>2. voter_paid' = voter_paid /\ voter_paid \in [Voter -> Nat]
  BY DEF recv_voter_dividend_reward, Books, VoterBooks
<1>3. ASSUME NEW v \in Voter
      PROVE  voter_rec'[v].accumulated = voter_rec'[v].unclaimed + Precision * voter_paid[v]
  <2>1. voter_rec[v].accumulated = voter_rec[v].unclaimed + Precision * voter_paid[v]
    BY DEF Books, VoterBooks, VotersPaid
  <2>2. voter_rec[v].unclaimed \in Nat
    BY DEF Books, VoterBooks, IsVoterRecord, RewardRecord
  <2>3. Precision * voter_paid[v] \in Nat
    BY <1>2, DispatchAssumption
  <2>4. CASE v \in Accounts(Voter, c.to)
    BY <1>1, <2>1, <2>2, <2>3, <2>4
  <2>5. CASE v \notin Accounts(Voter, c.to)
    BY <1>1, <2>1, <2>5
  <2> QED BY <2>4, <2>5
<1> QED BY <1>1, <1>2, <1>3 DEF VoterBooks, VotersPaid, PartsAddUp

LEMMA LessTokens ==
  ASSUME NEW f \in [Table -> Int], NEW t, NEW k \in Nat
  PROVE  [f EXCEPT ![t] = @ - k] \in [Table -> Int]
<1> DEFINE g == [f EXCEPT ![t] = @ - k]
<1>1. g = [x \in Table |-> IF x = t THEN f[x] - k ELSE f[x]]
  OBVIOUS
<1>2. \A x \in Table : (IF x = t THEN f[x] - k ELSE f[x]) \in Int
  OBVIOUS
<1> HIDE DEF g
<1> QED BY <1>1, <1>2

LEMMA ClaimNodeKeepsBooks ==
  ASSUME Books, NEW n \in Node, claimNodeReward(n)
  PROVE  NodeBooks' /\ balance' \in [Table -> Int]
<1>1. PICK tokens \in Nat :
        /\ balance' = [balance EXCEPT ![TableOf[n]] = @ - tokens]
        /\ node_rec' \in [Node -> RewardRecord]
        /\ \A m \in Node \ {n} : node_rec'[m] = node_rec[m]
        /\ node_rec'[n].accumulated = node_rec[n].accumulated
        /\ node_rec[n].unclaimed = node_rec'[n].unclaimed + Precision * tokens
        /\ node_paid' = [node_paid EXCEPT ![n] = @ + tokens]
  BY ClaimNodeChanges
<1>2. balance' \in [Table -> Int]
  <2>1. balance \in [Table -> Int]
    BY DEF Books
  <2>2. balance' = [balance EXCEPT ![TableOf[n]] = @ - tokens] /\ tokens \in Nat
    BY <1>1
  <2> QED BY <2>1, <2>2, LessTokens
<1>3. node_paid \in [Node -> Nat] /\ node_paid' \in [Node -> Nat]
  BY <1>1 DEF Books, NodeBooks
<1>4. ASSUME NEW m \in Node
      PROVE  node_rec'[m].accumulated = node_rec'[m].unclaimed + Precision * node_paid'[m]
  <2>1. node_rec[m].accumulated = node_rec[m].unclaimed + Precision * node_paid[m]
    BY DEF Books, NodeBooks, NodesPaid
  <2>2. CASE m = n
    <3>1. node_paid'[n] = node_paid[n] + tokens
      BY <1>1, <1>3
    <3>2. Precision * (node_paid[n] + tokens) = Precision * node_paid[n] + Precision * tokens
      BY <1>1, <1>3, DispatchAssumption
    <3>3. Precision * node_paid[n] \in Nat /\ Precision * tokens \in Nat
      BY <1>1, <1>3, DispatchAssumption
    <3>4. node_rec'[n].unclaimed \in Nat
      BY <1>1 DEF RewardRecord
    <3> QED BY <1>1, <2>1, <2>2, <3>1, <3>2, <3>3, <3>4
  <2>3. CASE m # n
    BY <1>1, <1>3, <2>1, <2>3
  <2> QED BY <2>2, <2>3
<1> QED BY <1>1, <1>2, <1>3, <1>4 DEF NodeBooks, NodesPaid

LEMMA ClaimVoterKeepsBooks ==
  ASSUME Books, NEW v \in Voter, claimVoterDividend(v)
  PROVE  VoterBooks' /\ balance' \in [Table -> Int]
<1>1. PICK tokens \in Nat :
        /\ balance' = [balance EXCEPT ![TableOf[v]] = @ - tokens]
        /\ IsMap(voter_rec', Voter) /\ DOMAIN voter_rec' = Voter
        /\ \A w \in Voter : IsVoterRecord(voter_rec'[w]) /\ AddsUp(voter_rec'[w])
        /\ \A w \in Voter \ {v} : voter_rec'[w] = voter_rec[w]
        /\ voter_rec'[v].accumulated = voter_rec[v].accumulated
        /\ voter_rec[v].unclaimed = voter_rec'[v].unclaimed + Precision * tokens
        /\ voter_paid' = [voter_paid EXCEPT ![v] = @ + tokens]
  BY ClaimVoterChanges
<1>2. balance' \in [Table -> Int]
  <2>1. balance \in [Table -> Int]
    BY DEF Books
  <2>2. balance' = [balance EXCEPT ![TableOf[v]] = @ - tokens] /\ tokens \in Nat
    BY <1>1
  <2> QED BY <2>1, <2>2, LessTokens
<1>3. voter_paid \in [Voter -> Nat] /\ voter_paid' \in [Voter -> Nat]
  BY <1>1 DEF Books, VoterBooks
<1>4. ASSUME NEW w \in Voter
      PROVE  voter_rec'[w].accumulated = voter_rec'[w].unclaimed + Precision * voter_paid'[w]
  <2>1. voter_rec[w].accumulated = voter_rec[w].unclaimed + Precision * voter_paid[w]
    BY DEF Books, VoterBooks, VotersPaid
  <2>2. CASE w = v
    <3>1. voter_paid'[v] = voter_paid[v] + tokens
      BY <1>1, <1>3
    <3>2. Precision * (voter_paid[v] + tokens) = Precision * voter_paid[v] + Precision * tokens
      BY <1>1, <1>3, DispatchAssumption
    <3>3. Precision * voter_paid[v] \in Nat /\ Precision * tokens \in Nat
      BY <1>1, <1>3, DispatchAssumption
    <3>4. voter_rec'[v].unclaimed \in Nat
      BY <1>1 DEF IsVoterRecord, RewardRecord
    <3> QED BY <1>1, <2>1, <2>2, <3>1, <3>2, <3>3, <3>4
  <2>3. CASE w # v
    BY <1>1, <1>3, <2>1, <2>3
  <2> QED BY <2>2, <2>3
<1> QED BY <1>1, <1>2, <1>3, <1>4 DEF VoterBooks, VotersPaid, PartsAddUp

LEMMA NextKeepsBooks ==
  ASSUME Mail, Books, [Next]_vars
  PROVE  Books'
<1> USE DEF Books
<1>1. CASE Reward
  <2>1. PICK given \in GivenRewards : reward(given)
    BY <1>1 DEF Reward
  <2>2. /\ granted' = [n \in Node |-> granted[n] + GivenTo(given.nodes, n)]
        /\ UNCHANGED <<votes, balance, node_rec, voter_rec, node_paid, voter_paid>>
    BY <2>1 DEF reward, books
  <2>3. granted' \in [Node -> Nat]
    BY <2>2, GivenToType
  <2>4. VotesTyped'
    BY <2>2 DEF VotesTyped
  <2> QED BY <2>2, <2>3, <2>4, NodeBooksKept, VoterBooksKept
<1>2. CASE execute_task
  <2>1. UNCHANGED <<granted, votes, balance, node_rec, voter_rec, node_paid, voter_paid>>
    BY <1>2 DEF execute_task, books
  <2>2. VotesTyped'
    BY <2>1 DEF VotesTyped
  <2> QED BY <2>1, <2>2, NodeBooksKept, VoterBooksKept
<1>3. ASSUME NEW x \in transfers, ReceiveTransfer(x)
      PROVE  Books'
  <2>1. UNCHANGED <<granted, votes, node_rec, voter_rec, node_paid, voter_paid>>
    BY <1>3 DEF ReceiveTransfer, zecVars
  <2>2. VotesTyped'
    BY <2>1 DEF VotesTyped
  <2>3. balance' \in [Table -> Int]
    <3>1. x.amount \in Nat
      BY DEF Mail, TransferTask
    <3>2. balance' = balance \/ balance' = [balance EXCEPT ![x.to] = @ + x.amount]
      BY <1>3 DEF ReceiveTransfer
    <3> QED BY <3>1, <3>2
  <2> QED BY <2>1, <2>2, <2>3, NodeBooksKept, VoterBooksKept
<1>4. ASSUME NEW c \in calls, ReceiveCall(c)
      PROVE  Books'
  <2>1. UNCHANGED <<granted, votes>>
    BY <1>4 DEF ReceiveCall, zecVars
  <2>2. VotesTyped'
    BY <2>1 DEF VotesTyped
  <2>3. CASE recv_node_reward(c)
    <3>1. UNCHANGED <<balance, voter_rec, voter_paid>>
      BY <2>3 DEF recv_node_reward
    <3>2. NodeBooks'
      BY <2>3, RecvNodeKeepsBooks
    <3> QED BY <2>1, <2>2, <3>1, <3>2, VoterBooksKept
  <2>4. CASE recv_voter_dividend_reward(c)
    <3>1. UNCHANGED <<balance, node_rec, node_paid>>
      BY <2>4 DEF recv_voter_dividend_reward
    <3>2. VoterBooks'
      BY <2>4, RecvVoterKeepsBooks
    <3> QED BY <2>1, <2>2, <3>1, <3>2, NodeBooksKept
  <2> QED BY <1>4, <2>3, <2>4 DEF ReceiveCall
<1>5. ASSUME NEW n \in Node, claimNodeReward(n)
      PROVE  Books'
  <2>1. UNCHANGED <<granted, votes, voter_rec, voter_paid>>
    BY <1>5 DEF claimNodeReward, zecVars
  <2>2. VotesTyped'
    BY <2>1 DEF VotesTyped
  <2>3. NodeBooks' /\ balance' \in [Table -> Int]
    BY <1>5, ClaimNodeKeepsBooks
  <2> QED BY <2>1, <2>2, <2>3, VoterBooksKept
<1>6. ASSUME NEW v \in Voter, claimVoterDividend(v)
      PROVE  Books'
  <2>1. UNCHANGED <<granted, votes, node_rec, node_paid>>
    BY <1>6 DEF claimVoterDividend, zecVars
  <2>2. VotesTyped'
    BY <2>1 DEF VotesTyped
  <2>3. VoterBooks' /\ balance' \in [Table -> Int]
    BY <1>6, ClaimVoterKeepsBooks
  <2> QED BY <2>1, <2>2, <2>3, NodeBooksKept
<1>7. CASE ChangeVotes
  <2>1. PICK v \in Voter : \E m \in VotesHeld[v] : Revote(v, m)
    BY <1>7 DEF ChangeVotes
  <2>2. PICK m \in VotesHeld[v] : Revote(v, m)
    BY <2>1
  <2>3. /\ votes' = [votes EXCEPT ![v] = m]
        /\ UNCHANGED <<granted, balance, node_rec, voter_rec, node_paid, voter_paid>>
    BY <2>2 DEF Revote, zecVars, books
  <2>4. VotesTyped'
    BY <2>3 DEF VotesTyped, IsMap
  <2> QED BY <2>3, <2>4, NodeBooksKept, VoterBooksKept
<1>8. CASE UNCHANGED vars
  <2>1. UNCHANGED <<granted, votes, balance, node_rec, voter_rec, node_paid, voter_paid>>
    BY <1>8 DEF vars, zecVars, books
  <2>2. VotesTyped'
    BY <2>1 DEF VotesTyped
  <2> QED BY <2>1, <2>2, NodeBooksKept, VoterBooksKept
<1> HIDE DEF Books
<1> QED
  BY <1>1, <1>2, <1>3, <1>4, <1>5, <1>6, <1>7, <1>8 DEF Next, Receive, Claim

-----------------------------------------------------------------------------
(***************************************************************************)
(* Whatever the state, and whatever is still on its way, types are kept.   *)
(***************************************************************************)
LEMMA MailAndBooksAreTypes == Mail /\ Books => TypeOK
<1> SUFFICES ASSUME Mail, Books PROVE TypeOK
  OBVIOUS
<1>1. \A i \in DOMAIN tasks : tasks[i] \in TasksPending
  BY DEF TasksPending
<1>2. \A i \in DOMAIN tasks : /\ tasks[i] \in TransferTask \/ IsCall(tasks[i])
                              /\ tasks[i].round = rounds
  BY <1>1 DEF Mail
<1> QED BY <1>2 DEF TypeOK, Mail, Books, VotesTyped, NodeBooks, VoterBooks

LEMMA MailAndBooksAlways == Spec => [](Mail /\ Books)
<1>1. Init => Mail /\ Books
  BY InitMail, InitBooks
<1>2. Mail /\ Books /\ [Next]_vars => Mail' /\ Books'
  BY NextKeepsMail, NextKeepsBooks
<1> QED BY <1>1, <1>2, PTL DEF Spec

\* Records, tasks, what is on its way and the books of every table keep their
\* types; no claim makes what is unclaimed negative or more than what was given.
THEOREM TypeCorrect == Spec => []TypeOK
BY MailAndBooksAlways, MailAndBooksAreTypes, PTL

-----------------------------------------------------------------------------
(***************************************************************************)
(* Payments: an account has been paid the whole tokens of what it has been *)
(* given, as of its last claim.                                            *)
(***************************************************************************)
LEMMA DivShift ==
  ASSUME NEW x \in Nat, NEW q \in Nat, NEW p \in Nat \ {0}
  PROVE  (x + p * q) \div p = q + (x \div p)
<1> DEFINE a == x \div p
           r == x % p
           s == p * q
           y == x + s
           b == y \div p
           u == y % p
<1>1. a \in Nat /\ r \in 0 .. p - 1 /\ x = p * a + r
  BY DivFacts
<1>2. s \in Nat /\ y \in Nat
  OBVIOUS
<1>3. b \in Nat /\ u \in 0 .. p - 1 /\ y = p * b + u
  <2> HIDE DEF y
  <2> QED BY <1>2, DivFacts
<1> HIDE DEF a, r, b, u
<1>4. y = p * (q + a) + r
  <2>1. p * (q + a) = p * q + p * a /\ p * a \in Nat
    BY <1>1
  <2> QED BY <1>1, <1>2, <2>1
<1> HIDE DEF y, s
<1>5. b = q + a
  <2>1. CASE b <= q + a - 1
    <3>1. PICK k \in Nat : q + a = b + 1 + k
      <4>1. q + a - b - 1 \in Nat
        BY <1>1, <1>3, <2>1
      <4> QED BY <1>1, <1>3, <4>1
    <3>2. p * (b + 1 + k) = p * b + p + p * k
      BY <1>3, <3>1
    <3>3. p * k \in Nat /\ p * b \in Nat
      BY <1>3, <3>1
    <3> QED BY <1>1, <1>3, <1>4, <3>1, <3>2, <3>3
  <2>2. CASE b >= q + a + 1
    <3>1. PICK k \in Nat : b = q + a + 1 + k
      <4>1. b - (q + a) - 1 \in Nat
        BY <1>1, <1>3, <2>2
      <4> QED BY <1>1, <1>3, <4>1
    <3>2. p * (q + a + 1 + k) = p * (q + a) + p + p * k
      BY <1>1, <3>1
    <3>3. p * k \in Nat /\ p * (q + a) \in Nat
      BY <1>1, <3>1
    <3> QED BY <1>1, <1>3, <1>4, <3>1, <3>2, <3>3
  <2> QED BY <1>1, <1>3, <2>1, <2>2
<1> QED BY <1>5 DEF a, b, y, s

\* What was given, in whole tokens.
LEMMA PaidUp ==
  ASSUME NEW given, NEW unclaimed \in Nat, NEW paid \in Nat,
         given = unclaimed + Precision * paid
  PROVE  paid + Whole(unclaimed) = given \div Precision
BY DivShift, DispatchAssumption DEF Whole

NodesEntitled == [n \in Node |-> node_rec[n].accumulated]

VotersEntitled == [v \in Voter |-> voter_rec[v].accumulated]

LEMMA InitPays == Init => NodePayments!Init /\ VoterPayments!Init
<1> SUFFICES ASSUME Books PROVE NodePayments!Init /\ VoterPayments!Init
  BY InitBooks
<1>1. \A n \in Node : node_rec[n].accumulated \in Nat
  BY DEF Books, NodeBooks, RewardRecord
<1>2. \A v \in Voter : voter_rec[v].accumulated \in Nat
  BY DEF Books, VoterBooks, IsVoterRecord, RewardRecord
<1>3. node_paid \in [Node -> Nat] /\ voter_paid \in [Voter -> Nat]
  BY DEF Books, NodeBooks, VoterBooks
<1> QED BY <1>1, <1>2, <1>3 DEF NodePayments!Init, VoterPayments!Init

\* A step that grants or pays a node is one of Payments.
LEMMA NodesStep ==
  ASSUME Mail, Books, [Next]_vars
  PROVE  [NodePayments!Next]_<<NodesEntitled, node_paid>>
<1>1. CASE UNCHANGED <<node_rec, node_paid>>
  BY <1>1 DEF NodesEntitled
<1>2. ASSUME NEW c \in calls, recv_node_reward(c)
      PROVE  NodePayments!Grant
  <2>1. node_paid' = node_paid
    BY <1>2 DEF recv_node_reward
  <2>2. ASSUME NEW n \in Node
        PROVE  /\ node_rec'[n].accumulated \in Nat
               /\ node_rec'[n].accumulated >= node_rec[n].accumulated
    <3>1. /\ AmountOf(c.rewards, n) \in Nat
          /\ node_rec'[n].accumulated = node_rec[n].accumulated + AmountOf(c.rewards, n)
      BY <1>2, RecvNodeChanges
    <3>2. node_rec[n].accumulated \in Nat
      BY DEF Books, NodeBooks, RewardRecord
    <3> QED BY <3>1, <3>2
  <2> QED BY <2>1, <2>2 DEF NodePayments!Grant
<1>3. ASSUME NEW n \in Node, claimNodeReward(n)
      PROVE  NodePayments!Pay(n)
  <2>1. /\ \A m \in Node \ {n} : node_rec'[m] = node_rec[m]
        /\ node_rec'[n].accumulated = node_rec[n].accumulated
        /\ node_paid' = [node_paid EXCEPT ![n] = @ + Whole(node_rec[n].unclaimed)]
    BY <1>3, ClaimNodeChanges
  <2>2. \A m \in Node : node_rec'[m].accumulated = node_rec[m].accumulated
    BY <2>1
  <2>3. node_paid[n] + Whole(node_rec[n].unclaimed) = node_rec[n].accumulated \div Precision
    BY PaidUp DEF Books, NodeBooks, NodesPaid, RewardRecord
  <2>4. node_paid' = [node_paid EXCEPT ![n] = NodesEntitled[n] \div Precision]
    BY <2>1, <2>3 DEF NodesEntitled
  <2> QED BY <2>2, <2>4 DEF NodePayments!Pay, NodesEntitled
<1>4. CASE Reward \/ execute_task \/ ChangeVotes \/ UNCHANGED vars
  BY <1>1, <1>4 DEF Reward, reward, execute_task, ChangeVotes, Revote, vars, books
<1>5. CASE Receive
  <2>1. ASSUME NEW x \in transfers, ReceiveTransfer(x)
        PROVE  UNCHANGED <<node_rec, node_paid>>
    BY <2>1 DEF ReceiveTransfer
  <2>2. ASSUME NEW c \in calls, ReceiveCall(c), ~ recv_node_reward(c)
        PROVE  UNCHANGED <<node_rec, node_paid>>
    BY <2>2 DEF ReceiveCall, recv_voter_dividend_reward
  <2> QED BY <1>1, <1>2, <1>5, <2>1, <2>2 DEF Receive, NodePayments!Next
<1>6. CASE Claim
  <2>1. ASSUME NEW v \in Voter, claimVoterDividend(v)
        PROVE  UNCHANGED <<node_rec, node_paid>>
    BY <2>1 DEF claimVoterDividend
  <2> QED BY <1>1, <1>3, <1>6, <2>1 DEF Claim, NodePayments!Next
<1> QED BY <1>4, <1>5, <1>6 DEF Next

\* Likewise for voters.
LEMMA VotersStep ==
  ASSUME Mail, Books, [Next]_vars
  PROVE  [VoterPayments!Next]_<<VotersEntitled, voter_paid>>
<1>1. CASE UNCHANGED <<voter_rec, voter_paid>>
  BY <1>1 DEF VotersEntitled
<1>2. ASSUME NEW c \in calls, recv_voter_dividend_reward(c)
      PROVE  VoterPayments!Grant
  <2>1. voter_paid' = voter_paid
    BY <1>2 DEF recv_voter_dividend_reward
  <2>2. /\ \A v \in Accounts(Voter, c.to) :
             /\ Earned(c, v) \in Nat
             /\ voter_rec'[v].accumulated = voter_rec[v].accumulated + Earned(c, v)
        /\ \A v \in Voter \ Accounts(Voter, c.to) : voter_rec'[v] = voter_rec[v]
    BY <1>2, RecvVoterChanges
  <2>3. ASSUME NEW v \in Voter
        PROVE  /\ voter_rec'[v].accumulated \in Nat
               /\ voter_rec'[v].accumulated >= voter_rec[v].accumulated
    <3>1. voter_rec[v].accumulated \in Nat
      BY DEF Books, VoterBooks, IsVoterRecord, RewardRecord
    <3>2. CASE v \in Accounts(Voter, c.to)
      BY <2>2, <3>1, <3>2
    <3>3. CASE v \notin Accounts(Voter, c.to)
      BY <2>2, <3>1, <3>3
    <3> QED BY <3>2, <3>3
  <2> QED BY <2>1, <2>3 DEF VoterPayments!Grant
<1>3. ASSUME NEW v \in Voter, claimVoterDividend(v)
      PROVE  VoterPayments!Pay(v)
  <2>1. /\ \A w \in Voter \ {v} : voter_rec'[w] = voter_rec[w]
        /\ voter_rec'[v].accumulated = voter_rec[v].accumulated
        /\ voter_paid' = [voter_paid EXCEPT ![v] = @ + Whole(voter_rec[v].unclaimed)]
    BY <1>3, ClaimVoterChanges
  <2>2. \A w \in Voter : voter_rec'[w].accumulated = voter_rec[w].accumulated
    BY <2>1
  <2>3. voter_paid[v] + Whole(voter_rec[v].unclaimed) = voter_rec[v].accumulated \div Precision
    BY PaidUp DEF Books, VoterBooks, VotersPaid, IsVoterRecord, RewardRecord
  <2>4. voter_paid' = [voter_paid EXCEPT ![v] = VotersEntitled[v] \div Precision]
    BY <2>1, <2>3 DEF VotersEntitled
  <2> QED BY <2>2, <2>4 DEF VoterPayments!Pay, VotersEntitled
<1>4. CASE Reward \/ execute_task \/ ChangeVotes \/ UNCHANGED vars
  BY <1>1, <1>4 DEF Reward, reward, execute_task, ChangeVotes, Revote, vars, books
<1>5. CASE Receive
  <2>1. ASSUME NEW x \in transfers, ReceiveTransfer(x)
        PROVE  UNCHANGED <<voter_rec, voter_paid>>
    BY <2>1 DEF ReceiveTransfer
  <2>2. ASSUME NEW c \in calls, ReceiveCall(c), ~ recv_voter_dividend_reward(c)
        PROVE  UNCHANGED <<voter_rec, voter_paid>>
    BY <2>2 DEF ReceiveCall, recv_node_reward
  <2> QED BY <1>1, <1>2, <1>5, <2>1, <2>2 DEF Receive, VoterPayments!Next
<1>6. CASE Claim
  <2>1. ASSUME NEW n \in Node, claimNodeReward(n)
        PROVE  UNCHANGED <<voter_rec, voter_paid>>
    BY <2>1 DEF claimNodeReward
  <2> QED BY <1>1, <1>3, <1>6, <2>1 DEF Claim, VoterPayments!Next
<1> QED BY <1>4, <1>5, <1>6 DEF Next

\* Nodes and voters are paid as Payments promises: a claim pays what is whole of
\* all that the account was ever given less all that it was ever paid, whatever
\* was recorded, divided or claimed in between.
THEOREM PaidOnceOnly == Spec => PaidOnce
<1>1. Init => NodePayments!Init /\ VoterPayments!Init
  BY InitPays
<1>2. Mail /\ Books /\ [Next]_vars => [NodePayments!Next]_<<NodesEntitled, node_paid>>
  BY NodesStep
<1>3. Mail /\ Books /\ [Next]_vars => [VoterPayments!Next]_<<VotersEntitled, voter_paid>>
  BY VotersStep
<1>4. Spec => NodePayments!Spec
  BY <1>1, <1>2, MailAndBooksAlways, PTL DEF Spec, NodePayments!Spec, NodesEntitled
<1>5. Spec => VoterPayments!Spec
  BY <1>1, <1>3, MailAndBooksAlways, PTL DEF Spec, VoterPayments!Spec, VotersEntitled
<1> QED BY <1>4, <1>5 DEF PaidOnce

-----------------------------------------------------------------------------
(***************************************************************************)
(* What is on its way.                                                     *)
(***************************************************************************)
\* Two lots of mail carry what each of them does.
LEMMA CarriedTogether ==
  ASSUME NEW C, IsFiniteSet(C), NEW D, IsFiniteSet(D), C \cap D = {},
         \A c \in C \cup D : IsRewards(c.rewards, Node)
  PROVE  /\ Carried(C) \in Nat /\ Carried(D) \in Nat
         /\ Carried(C \cup D) = Carried(C) + Carried(D)
<1> DEFINE f == [c \in C \cup D |-> Total(c.rewards)]
           g == [c \in C |-> Total(c.rewards)]
           h == [c \in D |-> Total(c.rewards)]
<1>1. \A c \in C \cup D : f[c] \in Nat
  BY TotalType
<1>2. (\A c \in C : f[c] = g[c]) /\ (\A c \in D : f[c] = h[c])
  OBVIOUS
<1> SUFFICES /\ SumFunctionOnSet(g, C) \in Nat /\ SumFunctionOnSet(h, D) \in Nat
             /\ SumFunctionOnSet(f, C \cup D) = SumFunctionOnSet(g, C) + SumFunctionOnSet(h, D)
  BY DEF Carried, SumOver
<1> HIDE DEF f, g, h
<1>3. SumFunctionOnSet(f, C \cup D) = SumFunctionOnSet(f, C) + SumFunctionOnSet(f, D)
  BY <1>1, SumUnion
<1>4. SumFunctionOnSet(f, C) = SumFunctionOnSet(g, C)
  BY <1>2, SumSame
<1>5. SumFunctionOnSet(f, D) = SumFunctionOnSet(h, D)
  BY <1>2, SumSame
<1>6. SumFunctionOnSet(f, C) \in Nat /\ SumFunctionOnSet(f, D) \in Nat
  BY <1>1, SumOfNats
<1> QED BY <1>3, <1>4, <1>5, <1>6

LEMMA CarriedToTogether ==
  ASSUME NEW C, IsFiniteSet(C), NEW D, IsFiniteSet(D), C \cap D = {}, NEW n,
         \A c \in C \cup D : IsRewards(c.rewards, Node)
  PROVE  /\ CarriedTo(C, n) \in Nat /\ CarriedTo(D, n) \in Nat
         /\ CarriedTo(C \cup D, n) = CarriedTo(C, n) + CarriedTo(D, n)
<1> DEFINE f == [c \in C \cup D |-> AmountOf(c.rewards, n)]
           g == [c \in C |-> AmountOf(c.rewards, n)]
           h == [c \in D |-> AmountOf(c.rewards, n)]
<1>1. \A c \in C \cup D : f[c] \in Nat
  BY DEF IsRewards, AmountOf
<1>2. (\A c \in C : f[c] = g[c]) /\ (\A c \in D : f[c] = h[c])
  OBVIOUS
<1> SUFFICES /\ SumFunctionOnSet(g, C) \in Nat /\ SumFunctionOnSet(h, D) \in Nat
             /\ SumFunctionOnSet(f, C \cup D) = SumFunctionOnSet(g, C) + SumFunctionOnSet(h, D)
  BY DEF CarriedTo, SumOver
<1> HIDE DEF f, g, h
<1>3. SumFunctionOnSet(f, C \cup D) = SumFunctionOnSet(f, C) + SumFunctionOnSet(f, D)
  BY <1>1, SumUnion
<1>4. SumFunctionOnSet(f, C) = SumFunctionOnSet(g, C)
  BY <1>2, SumSame
<1>5. SumFunctionOnSet(f, D) = SumFunctionOnSet(h, D)
  BY <1>2, SumSame
<1>6. SumFunctionOnSet(f, C) \in Nat /\ SumFunctionOnSet(f, D) \in Nat
  BY <1>1, SumOfNats
<1> QED BY <1>3, <1>4, <1>5, <1>6

LEMMA TokensTogether ==
  ASSUME NEW X, IsFiniteSet(X), NEW Y, IsFiniteSet(Y), X \cap Y = {},
         \A x \in X \cup Y : x.amount \in Nat
  PROVE  /\ TokensOf(X) \in Nat /\ TokensOf(Y) \in Nat
         /\ TokensOf(X \cup Y) = TokensOf(X) + TokensOf(Y)
<1> DEFINE f == [x \in X \cup Y |-> x.amount]
           g == [x \in X |-> x.amount]
           h == [x \in Y |-> x.amount]
<1>1. \A x \in X \cup Y : f[x] \in Nat
  OBVIOUS
<1>2. (\A x \in X : f[x] = g[x]) /\ (\A x \in Y : f[x] = h[x])
  OBVIOUS
<1> SUFFICES /\ SumFunctionOnSet(g, X) \in Nat /\ SumFunctionOnSet(h, Y) \in Nat
             /\ SumFunctionOnSet(f, X \cup Y) = SumFunctionOnSet(g, X) + SumFunctionOnSet(h, Y)
  BY DEF TokensOf, SumOver
<1> HIDE DEF f, g, h
<1>3. SumFunctionOnSet(f, X \cup Y) = SumFunctionOnSet(f, X) + SumFunctionOnSet(f, Y)
  BY <1>1, SumUnion
<1>4. SumFunctionOnSet(f, X) = SumFunctionOnSet(g, X)
  BY <1>2, SumSame
<1>5. SumFunctionOnSet(f, Y) = SumFunctionOnSet(h, Y)
  BY <1>2, SumSame
<1>6. SumFunctionOnSet(f, X) \in Nat /\ SumFunctionOnSet(f, Y) \in Nat
  BY <1>1, SumOfNats
<1> QED BY <1>3, <1>4, <1>5, <1>6

\* Nothing carries nothing; one call or transfer, what it says.
LEMMA OneOrNone ==
  /\ Carried({}) = 0 /\ TokensOf({}) = 0 /\ \A n : CarriedTo({}, n) = 0
  /\ \A c : IsRewards(c.rewards, Node) =>
       Carried({c}) = Total(c.rewards) /\ \A n : CarriedTo({c}, n) = AmountOf(c.rewards, n)
  /\ \A x : x.amount \in Nat => TokensOf({x}) = x.amount
<1>1. Carried({}) = 0 /\ TokensOf({}) = 0 /\ \A n : CarriedTo({}, n) = 0
  BY SumOfNone DEF Carried, TokensOf, CarriedTo, SumOver
<1>2. ASSUME NEW x, NEW f, f[x] \in Nat
      PROVE  SumFunctionOnSet(f, {x}) = f[x]
  <2>1. IsFiniteSet({x}) /\ {x} \ {x} = {}
    BY FS_Singleton
  <2> QED BY <1>2, <2>1, SumOfOne
<1>3. ASSUME NEW c, IsRewards(c.rewards, Node)
      PROVE  Carried({c}) = Total(c.rewards) /\ \A n : CarriedTo({c}, n) = AmountOf(c.rewards, n)
  <2> DEFINE f == [d \in {c} |-> Total(d.rewards)]
  <2>1. f[c] = Total(c.rewards) /\ f[c] \in Nat
    BY <1>3, TotalType
  <2>2. SumFunctionOnSet(f, {c}) = Total(c.rewards)
    <3> HIDE DEF f
    <3> QED BY <1>2, <2>1
  <2>3. ASSUME NEW n
        PROVE  CarriedTo({c}, n) = AmountOf(c.rewards, n)
    <3> DEFINE g == [d \in {c} |-> AmountOf(d.rewards, n)]
    <3>1. g[c] = AmountOf(c.rewards, n) /\ g[c] \in Nat
      BY <1>3 DEF AmountOf, IsRewards
    <3>2. SumFunctionOnSet(g, {c}) = AmountOf(c.rewards, n)
      <4> HIDE DEF g
      <4> QED BY <1>2, <3>1
    <3> QED BY <3>2 DEF CarriedTo, SumOver
  <2> QED BY <2>2, <2>3 DEF Carried, SumOver
<1>4. ASSUME NEW x, x.amount \in Nat
      PROVE  TokensOf({x}) = x.amount
  <2> DEFINE f == [y \in {x} |-> y.amount]
  <2>1. f[x] = x.amount /\ f[x] \in Nat
    BY <1>4
  <2>2. SumFunctionOnSet(f, {x}) = x.amount
    <3> HIDE DEF f
    <3> QED BY <1>2, <2>1
  <2> QED BY <2>2 DEF TokensOf, SumOver
<1> QED BY <1>1, <1>3, <1>4

\* What is on its way is finite and typed.
LEMMA MailFacts ==
  ASSUME Mail
  PROVE  /\ IsFiniteSet(ToNodes) /\ \A c \in ToNodes : IsRewards(c.rewards, Node)
         /\ \A t : /\ IsFiniteSet(Unrecorded(t)) /\ IsFiniteSet(Coming(t))
                   /\ \A c \in Unrecorded(t) : IsRewards(c.rewards, Node)
                   /\ \A x \in Coming(t) : x.amount \in Nat
<1>1. IsFiniteSet(transfers \cup TasksPending) /\ IsFiniteSet(calls \cup TasksPending)
  BY PendingFinite, FS_Union DEF Mail
<1>2. /\ \A x \in transfers \cup TasksPending : IsTransfer(x) => x.amount \in Nat
      /\ \A c \in calls \cup TasksPending : ~ IsTransfer(c) => IsRewards(c.rewards, Node)
  BY KindsDiffer DEF Mail, TransferTask, IsCall
<1>3. \A c \in ToNodes : ~ IsTransfer(c)
  BY DEF ToNodes, IsTransfer
<1>4. IsFiniteSet(ToNodes) /\ \A t : IsFiniteSet(Unrecorded(t)) /\ IsFiniteSet(Coming(t))
  <2>1. ToNodes \subseteq calls \cup TasksPending
    BY DEF ToNodes
  <2>2. \A t : Unrecorded(t) \subseteq calls \cup TasksPending
    BY DEF Unrecorded
  <2>3. \A t : Coming(t) \subseteq transfers \cup TasksPending
    BY DEF Coming
  <2> QED BY <1>1, <2>1, <2>2, <2>3, FS_Subset
<1> QED BY <1>2, <1>3, <1>4 DEF ToNodes, Unrecorded, Coming

\* A new round adds its own tasks.
LEMMA RewardSends ==
  ASSUME Mail, NEW given \in GivenRewards, reward(given),
         NEW N, N = NodeCalls(rounds', given.nodes),
         NEW V, V = VoterCalls(rounds', given.dividends),
         NEW X, X = TransfersOf(rounds', given.nodes, given.dividends)
  PROVE  /\ ToNodes' = ToNodes \cup N /\ ToNodes \cap N = {}
         /\ \A t : /\ Unrecorded(t)' = Unrecorded(t) \cup ({c \in N : c.to = t} \cup {c \in V : c.to = t})
                   /\ Unrecorded(t) \cap (N \cup V) = {}
         /\ N \cap V = {}
         /\ \A t \in Table : /\ Coming(t)' = Coming(t) \cup {x \in X : x.to = t}
                             /\ Coming(t) \cap X = {}
<1> DEFINE S == CommunityShare(rounds', given.community)
<1>1. /\ TasksPending = {} /\ rounds' \in Nat
      /\ TasksPending' = X \cup S \cup N \cup V
      /\ \A x \in transfers \cup calls : x.round # rounds'
  BY RewardTasks DEF TasksOf
<1>2. transfers' = transfers /\ calls' = calls
  BY DEF reward
<1>3. \A x \in X \cup S \cup N \cup V : x.round = rounds'
  BY <1>1, GivenIsGiven, TasksAreTyped DEF TasksOf
<1>4. /\ \A x \in X \cup S : x.action = "transfer"
      /\ \A x \in S : x.to = Community
  BY DEF TransfersOf, CommunityShare, Transfer
<1>5. (\A c \in N : c.action = "recv_node_reward")
      /\ (\A c \in V : c.action = "recv_voter_dividend_reward")
  BY DEF NodeCalls, VoterCalls, AllCalls, CallsAt, Call
<1> HIDE DEF S
<1>6. ToNodes' = ToNodes \cup N /\ ToNodes \cap N = {}
  BY <1>1, <1>2, <1>3, <1>4, <1>5 DEF ToNodes
<1>7. N \cap V = {}
  BY <1>5
<1>8. ASSUME NEW t
      PROVE  /\ Unrecorded(t)' = Unrecorded(t) \cup ({c \in N : c.to = t} \cup {c \in V : c.to = t})
             /\ Unrecorded(t) \cap (N \cup V) = {}
  BY <1>1, <1>2, <1>3, <1>4, <1>5 DEF Unrecorded, IsTransfer
<1>9. ASSUME NEW t \in Table
      PROVE  /\ Coming(t)' = Coming(t) \cup {x \in X : x.to = t}
             /\ Coming(t) \cap X = {}
  <2>1. t # Community
    BY ClaimingAssumption
  <2> QED BY <1>1, <1>2, <1>3, <1>4, <1>5, <2>1 DEF Coming, IsTransfer
<1> QED BY <1>6, <1>7, <1>8, <1>9

\* What is received is on its way no longer.
LEMMA ReceiveTakes ==
  ASSUME Mail
  PROVE  /\ \A x \in transfers : ReceiveTransfer(x) =>
              /\ ToNodes' = ToNodes
              /\ \A t : /\ Unrecorded(t)' = Unrecorded(t)
                        /\ Coming(t)' = IF t = x.to THEN Coming(t) \ {x} ELSE Coming(t)
              /\ x \in Coming(x.to) /\ x.amount \in Nat
         /\ \A c \in calls : ReceiveCall(c) =>
              /\ ToNodes' = IF c.action = "recv_node_reward" THEN ToNodes \ {c} ELSE ToNodes
              /\ \A t : /\ Coming(t)' = Coming(t)
                        /\ Unrecorded(t)' = IF t = c.to THEN Unrecorded(t) \ {c} ELSE Unrecorded(t)
              /\ c \in Unrecorded(c.to) /\ IsRewards(c.rewards, Node)
              /\ c.action = "recv_node_reward" => c \in ToNodes
<1>1. TasksPending \cap (transfers \cup calls) = {}
  BY DEF Mail
<1>2. ASSUME NEW x \in transfers, ReceiveTransfer(x)
      PROVE  /\ ToNodes' = ToNodes
             /\ \A t : /\ Unrecorded(t)' = Unrecorded(t)
                       /\ Coming(t)' = IF t = x.to THEN Coming(t) \ {x} ELSE Coming(t)
             /\ x \in Coming(x.to) /\ x.amount \in Nat
  <2>1. TasksPending' = TasksPending /\ calls' = calls /\ transfers' = transfers \ {x}
    BY <1>2 DEF ReceiveTransfer, zecVars, TasksPending
  <2>2. IsTransfer(x) /\ x.amount \in Nat
    BY KindsDiffer DEF Mail, TransferTask
  <2> QED BY <1>1, <2>1, <2>2 DEF ToNodes, Unrecorded, Coming
<1>3. ASSUME NEW c \in calls, ReceiveCall(c)
      PROVE  /\ ToNodes' = IF c.action = "recv_node_reward" THEN ToNodes \ {c} ELSE ToNodes
             /\ \A t : /\ Coming(t)' = Coming(t)
                       /\ Unrecorded(t)' = IF t = c.to THEN Unrecorded(t) \ {c} ELSE Unrecorded(t)
             /\ c \in Unrecorded(c.to) /\ IsRewards(c.rewards, Node)
             /\ c.action = "recv_node_reward" => c \in ToNodes
  <2>1. TasksPending' = TasksPending /\ transfers' = transfers /\ calls' = calls \ {c}
    BY <1>3 DEF ReceiveCall, zecVars, TasksPending
  <2>2. ~ IsTransfer(c) /\ IsRewards(c.rewards, Node)
    BY KindsDiffer DEF Mail, IsCall
  <2> QED BY <1>1, <2>1, <2>2 DEF ToNodes, Unrecorded, Coming
<1> QED BY <1>2, <1>3

-----------------------------------------------------------------------------
(***************************************************************************)
(* Rewards are recorded once.                                              *)
(***************************************************************************)
LEMMA InitRecordsOnce == Init => RecordedOnce
<1> SUFFICES ASSUME Init, Books, NEW n \in Node
             PROVE  granted[n] = node_rec[n].accumulated + CarriedTo(ToNodes, n)
  BY InitBooks DEF RecordedOnce
<1>1. calls = {} /\ TasksPending = {} /\ granted[n] = node_rec[n].accumulated
  BY DEF Init, TasksPending
<1>2. ToNodes = {}
  BY <1>1 DEF ToNodes
<1>3. CarriedTo({}, n) = 0
  BY OneOrNone
<1>4. CarriedTo(ToNodes, n) = 0
  BY <1>2, <1>3, Zenon
<1>5. node_rec[n].accumulated \in Nat
  BY DEF Books, NodeBooks, RewardRecord
<1> QED BY <1>1, <1>4, <1>5

\* Nothing is computed for nodes, and nothing recorded.
LEMMA RecordedOnceStays ==
  ASSUME RecordedOnce, granted' = granted, ToNodes' = ToNodes,
         \A n \in Node : node_rec'[n].accumulated = node_rec[n].accumulated
  PROVE  RecordedOnce'
<1> SUFFICES ASSUME NEW n \in Node
             PROVE  granted'[n] = node_rec'[n].accumulated + CarriedTo(ToNodes', n)
  BY DEF RecordedOnce
<1>1. CarriedTo(ToNodes', n) = CarriedTo(ToNodes, n)
  BY Zenon
<1> QED BY <1>1 DEF RecordedOnce

LEMMA RewardRecordsOnce ==
  ASSUME Mail, Books, RecordedOnce, NEW given \in GivenRewards, reward(given)
  PROVE  RecordedOnce'
<1> DEFINE N == NodeCalls(rounds', given.nodes)
<1> SUFFICES ASSUME NEW n \in Node
             PROVE  granted'[n] = node_rec'[n].accumulated + CarriedTo(ToNodes', n)
  BY DEF RecordedOnce
<1>1. ToNodes' = ToNodes \cup N /\ ToNodes \cap N = {}
  BY RewardSends
<1>2. IsFiniteSet(ToNodes) /\ \A c \in ToNodes : IsRewards(c.rewards, Node)
  BY MailFacts
<1>3. IsGiven(given.nodes, given.dividends, given.community)
  BY GivenIsGiven
<1>4. /\ DOMAIN given.nodes \subseteq Table
      /\ \A t \in DOMAIN given.nodes : IsRewards(given.nodes[t], Node)
      /\ \A t \in DOMAIN given.nodes : DOMAIN given.nodes[t] \subseteq Node
  <2>1. \A t : Accounts(Node, t) \subseteq Node
    BY DEF Accounts
  <2> QED BY <1>3, <2>1, RewardsOfMore DEF IsGiven, IsRewards, IsMap
<1>5. /\ IsFiniteSet(N)
      /\ \A c \in N : c.to \in DOMAIN given.nodes
                      /\ IsRewards(c.rewards, DOMAIN given.nodes[c.to])
      /\ CarriedTo(N, n) = GivenTo(given.nodes, n)
  <2>1. N = AllCalls("recv_node_reward", rounds', given.nodes)
    BY DEF NodeCalls
  <2> HIDE DEF N
  <2> QED BY <1>4, <2>1, CallsOfCarryAll
<1>6. \A c \in N : IsRewards(c.rewards, Node)
  <2> HIDE DEF N
  <2> QED BY <1>4, <1>5, RewardsOfMore
<1> HIDE DEF N
<1>7. /\ CarriedTo(ToNodes, n) \in Nat /\ CarriedTo(N, n) \in Nat
      /\ CarriedTo(ToNodes \cup N, n) = CarriedTo(ToNodes, n) + CarriedTo(N, n)
  BY <1>1, <1>2, <1>5, <1>6, CarriedToTogether
<1>8. CarriedTo(ToNodes', n) = CarriedTo(ToNodes \cup N, n)
  BY <1>1, Zenon
<1>9. granted'[n] = granted[n] + GivenTo(given.nodes, n) /\ node_rec' = node_rec
  BY DEF reward, books
<1>10. node_rec[n].accumulated \in Nat
  BY DEF Books, NodeBooks, RewardRecord
<1>11. granted[n] = node_rec[n].accumulated + CarriedTo(ToNodes, n)
  BY DEF RecordedOnce
<1> QED BY <1>5, <1>7, <1>8, <1>9, <1>10, <1>11

LEMMA RecvNodeRecordsOnce ==
  ASSUME Mail, Books, RecordedOnce, NEW c \in calls, ReceiveCall(c), recv_node_reward(c)
  PROVE  RecordedOnce'
<1> SUFFICES ASSUME NEW n \in Node
             PROVE  granted'[n] = node_rec'[n].accumulated + CarriedTo(ToNodes', n)
  BY DEF RecordedOnce
<1> DEFINE R == ToNodes \ {c}
           D == {c}
<1>1. c.action = "recv_node_reward"
  BY DEF recv_node_reward
<1>2. ToNodes' = R /\ c \in ToNodes /\ IsRewards(c.rewards, Node)
  BY <1>1, ReceiveTakes
<1>3. IsFiniteSet(ToNodes) /\ \A d \in ToNodes : IsRewards(d.rewards, Node)
  BY MailFacts
<1>4. IsFiniteSet(R) /\ IsFiniteSet(D) /\ R \cap D = {} /\ ToNodes = R \cup D
  BY <1>2, <1>3, FS_Subset, FS_Singleton
<1>5. \A d \in R \cup D : IsRewards(d.rewards, Node)
  BY <1>2, <1>3
<1>6. CarriedTo(D, n) = AmountOf(c.rewards, n)
  BY <1>2, OneOrNone
<1> HIDE DEF R, D
<1>7. /\ CarriedTo(R, n) \in Nat
      /\ CarriedTo(R \cup D, n) = CarriedTo(R, n) + CarriedTo(D, n)
  BY <1>4, <1>5, CarriedToTogether
<1>8. CarriedTo(ToNodes', n) = CarriedTo(R, n) /\ CarriedTo(ToNodes, n) = CarriedTo(R \cup D, n)
  BY <1>2, <1>4, Zenon
<1>9. /\ AmountOf(c.rewards, n) \in Nat
      /\ node_rec'[n].accumulated = node_rec[n].accumulated + AmountOf(c.rewards, n)
  BY RecvNodeChanges
<1>10. node_rec[n].accumulated \in Nat
  BY DEF Books, NodeBooks, RewardRecord
<1>11. granted[n] = node_rec[n].accumulated + CarriedTo(ToNodes, n) /\ granted' = granted
  BY DEF RecordedOnce, ReceiveCall, zecVars
<1> QED BY <1>7, <1>6, <1>8, <1>9, <1>10, <1>11

LEMMA NextRecordsOnce ==
  ASSUME Mail, Books, RecordedOnce, [Next]_vars
  PROVE  RecordedOnce'
<1>1. CASE Reward
  BY <1>1, RewardRecordsOnce DEF Reward
<1>2. CASE execute_task
  <2>1. granted' = granted /\ node_rec' = node_rec
    BY <1>2 DEF execute_task, books
  <2>2. ToNodes' = ToNodes
    BY <1>2, ExecuteMoves
  <2> QED BY <2>1, <2>2, RecordedOnceStays
<1>3. ASSUME NEW x \in transfers, ReceiveTransfer(x)
      PROVE  RecordedOnce'
  <2>1. granted' = granted /\ node_rec' = node_rec
    BY <1>3 DEF ReceiveTransfer, zecVars
  <2>2. ToNodes' = ToNodes
    BY <1>3, ReceiveTakes
  <2> QED BY <2>1, <2>2, RecordedOnceStays
<1>4. ASSUME NEW c \in calls, ReceiveCall(c), recv_voter_dividend_reward(c)
      PROVE  RecordedOnce'
  <2>1. granted' = granted /\ node_rec' = node_rec /\ c.action # "recv_node_reward"
    BY <1>4 DEF ReceiveCall, recv_voter_dividend_reward, zecVars
  <2>2. ToNodes' = ToNodes
    BY <1>4, <2>1, ReceiveTakes
  <2> QED BY <2>1, <2>2, RecordedOnceStays
<1>5. CASE Receive
  BY <1>3, <1>4, <1>5, RecvNodeRecordsOnce DEF Receive, ReceiveCall
<1>6. ASSUME NEW n \in Node, claimNodeReward(n)
      PROVE  RecordedOnce'
  <2>1. \A m \in Node : node_rec'[m].accumulated = node_rec[m].accumulated
    BY <1>6, ClaimNodeChanges
  <2>2. granted' = granted /\ ToNodes' = ToNodes
    BY <1>6 DEF claimNodeReward, zecVars, ToNodes, TasksPending
  <2> QED BY <2>1, <2>2, RecordedOnceStays
<1>7. ASSUME NEW v \in Voter, claimVoterDividend(v)
      PROVE  RecordedOnce'
  <2>1. granted' = granted /\ ToNodes' = ToNodes /\ node_rec' = node_rec
    BY <1>7 DEF claimVoterDividend, zecVars, ToNodes, TasksPending
  <2> QED BY <2>1, RecordedOnceStays
<1>8. CASE ChangeVotes \/ UNCHANGED vars
  <2>1. granted' = granted /\ ToNodes' = ToNodes /\ node_rec' = node_rec
    BY <1>8 DEF ChangeVotes, Revote, vars, zecVars, books, ToNodes, TasksPending
  <2> QED BY <2>1, RecordedOnceStays
<1> QED BY <1>1, <1>2, <1>5, <1>6, <1>7, <1>8 DEF Next, Claim

\* The records hold what was computed, once: whatever a round gave a node is in
\* its record or still in exactly one task or call, however the list was cut into
\* rounds and calls overtook each other, and a voter's parts add up to his record.
THEOREM RecordsAlwaysAddUp == Spec => []RecordsAddUp
<1>1. Init => RecordedOnce
  BY InitRecordsOnce
<1>2. Mail /\ Books /\ RecordedOnce /\ [Next]_vars => RecordedOnce'
  BY NextRecordsOnce
<1>3. Books /\ RecordedOnce => RecordsAddUp
  BY DEF Books, VoterBooks, RecordsAddUp
<1> QED BY <1>1, <1>2, <1>3, MailAndBooksAlways, PTL DEF Spec

-----------------------------------------------------------------------------
(***************************************************************************)
(* What a table owes.                                                      *)
(***************************************************************************)
LEMMA UnclaimedSame ==
  ASSUME NEW A, IsFiniteSet(A), NEW rec, NEW new,
         \A a \in A : new[a].unclaimed = rec[a].unclaimed
  PROVE  Unclaimed(new, A) = Unclaimed(rec, A)
<1> DEFINE f == [a \in A |-> rec[a].unclaimed]
           g == [a \in A |-> new[a].unclaimed]
<1>1. \A a \in A : g[a] = f[a]
  OBVIOUS
<1>2. SumFunctionOnSet(g, A) = SumFunctionOnSet(f, A)
  <2> HIDE DEF f, g
  <2> QED BY <1>1, SumSame
<1> QED BY <1>2 DEF Unclaimed, SumOver

LEMMA UnclaimedGrows ==
  ASSUME NEW A, IsFiniteSet(A), NEW rec, NEW new, NEW h,
         \A a \in A : rec[a].unclaimed \in Nat /\ h[a] \in Nat
                      /\ new[a].unclaimed = rec[a].unclaimed + h[a]
  PROVE  Unclaimed(new, A) = Unclaimed(rec, A) + SumFunctionOnSet(h, A)
<1> DEFINE f == [a \in A |-> rec[a].unclaimed]
           g == [a \in A |-> new[a].unclaimed]
<1>1. \A a \in A : f[a] \in Int /\ h[a] \in Int /\ g[a] = f[a] + h[a]
  OBVIOUS
<1>2. SumFunctionOnSet(g, A) = SumFunctionOnSet(f, A) + SumFunctionOnSet(h, A)
  <2> HIDE DEF f, g
  <2> QED BY <1>1, SumPlus
<1> QED BY <1>2 DEF Unclaimed, SumOver

LEMMA UnclaimedLess ==
  ASSUME NEW A, IsFiniteSet(A), NEW rec, NEW new, NEW x \in A, NEW k \in Nat,
         \A a \in A : rec[a].unclaimed \in Nat /\ new[a].unclaimed \in Nat,
         \A a \in A \ {x} : new[a] = rec[a],
         rec[x].unclaimed = new[x].unclaimed + k
  PROVE  Unclaimed(new, A) + k = Unclaimed(rec, A)
<1> DEFINE f == [a \in A |-> rec[a].unclaimed]
           g == [a \in A |-> new[a].unclaimed]
<1>1. /\ \A a \in A : f[a] \in Nat /\ g[a] \in Nat
      /\ \A a \in A \ {x} : g[a] = f[a]
      /\ f[x] = g[x] + k
  OBVIOUS
<1>2. SumFunctionOnSet(g, A) + k = SumFunctionOnSet(f, A)
  <2> HIDE DEF f, g
  <2>1. SumFunctionOnSet(g, A) = SumFunctionOnSet(f, A) + (g[x] - f[x])
    BY <1>1, SumChange
  <2>2. SumFunctionOnSet(f, A) \in Nat
    BY <1>1, SumOfNats
  <2> QED BY <1>1, <2>1, <2>2
<1> QED BY <1>2 DEF Unclaimed, SumOver

\* What a call says of the nodes of its table is all that it carries.
LEMMA NodesOfCall ==
  ASSUME NEW c, IsRewards(c.rewards, Node), DOMAIN c.rewards \subseteq Accounts(Node, c.to),
         NEW A, A = Accounts(Node, c.to), NEW h, h = [n \in A |-> AmountOf(c.rewards, n)]
  PROVE  SumFunctionOnSet(h, A) = Total(c.rewards)
<1> DEFINE D == DOMAIN c.rewards
           f == [n \in D |-> c.rewards[n]]
<1>1. IsFiniteSet(A) /\ D \in SUBSET A
  BY AccountsFinite
<1>2. /\ \A n \in D : f[n] \in Int
      /\ \A n \in A : h[n] = IF n \in D THEN f[n] ELSE 0
  BY DEF IsRewards, AmountOf
<1>3. SumFunctionOnSet(h, A) = SumFunctionOnSet(f, D)
  <2> HIDE DEF D, f
  <2> QED BY <1>1, <1>2, SumWithin
<1> QED BY <1>3 DEF Total, SumOver

\* The voters of a table together get no more than a dividend gives: every share
\* is rounded down, and the votes they are weighed by add up to the pollable ones.
LEMMA SharesOfOneNode ==
  ASSUME VotesTyped, NEW c, IsRewards(c.rewards, Node), NEW n \in DOMAIN c.rewards,
         NEW A, A = Accounts(Voter, c.to),
         NEW s, \A v \in A : s[v] = IF n \in DOMAIN votes[v] THEN VoterShare(c, v, n) ELSE 0
  PROVE  /\ \A v \in A : s[v] \in Nat
         /\ SumFunctionOnSet(s, A) <= c.rewards[n]
<1> DEFINE p == Pollable(c.to, n)
           r == c.rewards[n]
           a == [v \in A |-> AmountOf(votes[v], n)]
           ps == [v \in A |-> p * s[v]]
           ra == [v \in A |-> r * a[v]]
<1>1. IsFiniteSet(A) /\ A \subseteq Voter /\ \A v \in A : TableOf[v] = c.to
  BY AccountsFinite DEF Accounts
<1>2. r \in Nat /\ p \in Nat
  BY PollableFacts DEF IsRewards
<1>3. SumFunctionOnSet(a, A) = p
  BY DEF Pollable, SumOver
<1>4. ASSUME NEW v \in A
      PROVE  /\ s[v] \in Nat /\ a[v] \in Nat
             /\ p * s[v] <= r * a[v]
             /\ p = 0 => s[v] = 0
  <2>1. a[v] = AmountOf(votes[v], n) /\ a[v] \in Nat
    BY <1>1, VotesArePositive
  <2>2. CASE n \in DOMAIN votes[v]
    <3>1. /\ VoterShare(c, v, n) \in Nat /\ p \in Nat \ {0}
          /\ p * VoterShare(c, v, n) <= r * votes[v][n]
      BY <1>1, <2>2, SharesAreNumbers
    <3>2. a[v] = votes[v][n]
      BY <2>1, <2>2 DEF AmountOf
    <3>3. s[v] = VoterShare(c, v, n)
      BY <2>2
    <3> HIDE DEF p, r, a
    <3> QED BY <2>1, <3>1, <3>2, <3>3
  <2>3. CASE n \notin DOMAIN votes[v]
    <3>1. s[v] = 0
      BY <2>3
    <3> HIDE DEF p, r, a
    <3>2. p * 0 = 0 /\ r * a[v] \in Nat
      BY <1>2, <2>1
    <3> QED BY <2>1, <3>1, <3>2
  <2> QED BY <2>2, <2>3
<1>5. \A v \in A : ps[v] = p * s[v] /\ ra[v] = r * a[v]
  OBVIOUS
<1> SUFFICES SumFunctionOnSet(s, A) <= r
  BY <1>4
<1> HIDE DEF p, r, a, ps, ra
<1>6. CASE p = 0
  <2>1. SumFunctionOnSet(s, A) = 0
    BY <1>1, <1>4, <1>6, SumOfZeros
  <2> QED BY <1>2, <2>1
<1>7. CASE p # 0
  <2>1. SumFunctionOnSet(s, A) \in Nat
    BY <1>1, <1>4, SumOfNats
  <2>2. SumFunctionOnSet(ps, A) = p * SumFunctionOnSet(s, A)
    <3>1. p \in Int /\ \A v \in A : s[v] \in Int /\ ps[v] = p * s[v]
      BY <1>2, <1>4, <1>5
    <3> QED BY <1>1, <3>1, SumTimes
  <2>3. SumFunctionOnSet(ra, A) = r * SumFunctionOnSet(a, A)
    <3>1. r \in Int /\ \A v \in A : a[v] \in Int /\ ra[v] = r * a[v]
      BY <1>2, <1>4, <1>5
    <3> QED BY <1>1, <3>1, SumTimes
  <2>4. SumFunctionOnSet(ps, A) <= SumFunctionOnSet(ra, A)
    <3>1. \A v \in A : ps[v] \in Int /\ ra[v] \in Int /\ ps[v] <= ra[v]
      BY <1>2, <1>4, <1>5
    <3> QED BY <1>1, <3>1, SumMonotone
  <2>5. p * SumFunctionOnSet(s, A) <= r * p
    BY <1>3, <2>2, <2>3, <2>4
  <2> DEFINE x == SumFunctionOnSet(s, A)
  <2> HIDE DEF x
  <2>6. p * x <= r * p /\ x \in Nat
    BY <2>1, <2>5 DEF x
  <2>7. x <= r
    <3> SUFFICES ASSUME x >= r + 1 PROVE FALSE
      BY <1>2, <2>6
    <3>1. PICK k \in Nat : x = r + 1 + k
      <4>1. x - r - 1 \in Nat
        BY <1>2, <2>6
      <4> QED BY <1>2, <2>6, <4>1
    <3>2. p * (r + 1 + k) = r * p + p + p * k
      BY <1>2, <3>1
    <3>3. p * k \in Nat /\ r * p \in Nat
      BY <1>2, <3>1
    <3> QED BY <1>2, <1>7, <2>6, <3>1, <3>2, <3>3
  <2> QED BY <2>7 DEF x
<1> QED BY <1>6, <1>7

LEMMA VotersOfCall ==
  ASSUME VotesTyped, NEW c, IsRewards(c.rewards, Node),
         NEW A, A = Accounts(Voter, c.to), NEW h, h = [v \in A |-> Earned(c, v)]
  PROVE  SumFunctionOnSet(h, A) <= Total(c.rewards)
<1> DEFINE D == DOMAIN c.rewards
           F == [v \in A |-> [n \in D |-> IF n \in DOMAIN votes[v] THEN VoterShare(c, v, n) ELSE 0]]
           column(n) == [v \in A |-> F[v][n]]
           f == [n \in D |-> SumFunctionOnSet(column(n), A)]
           g == [v \in A |-> SumFunctionOnSet(F[v], D)]
           r == [n \in D |-> c.rewards[n]]
<1>1. IsFiniteSet(A) /\ A \subseteq Voter /\ \A v \in A : TableOf[v] = c.to
  BY AccountsFinite DEF Accounts
<1>2. IsFiniteSet(D) /\ \A n \in D : r[n] \in Nat /\ c.rewards[n] = r[n]
  BY ClaimingAssumption, FS_Subset DEF IsRewards, IsMap
<1>3. ASSUME NEW n \in D
      PROVE  /\ \A v \in A : F[v][n] \in Nat
             /\ SumFunctionOnSet(column(n), A) <= r[n]
  <2>1. \A v \in A : column(n)[v] = IF n \in DOMAIN votes[v] THEN VoterShare(c, v, n) ELSE 0
    OBVIOUS
  <2>2. \A v \in A : column(n)[v] = F[v][n]
    OBVIOUS
  <2> DEFINE s == column(n)
  <2>3. \A v \in A : s[v] = IF n \in DOMAIN votes[v] THEN VoterShare(c, v, n) ELSE 0
    BY <2>1
  <2> HIDE DEF s
  <2>4. (\A v \in A : s[v] \in Nat) /\ SumFunctionOnSet(s, A) <= c.rewards[n]
    BY <2>3, SharesOfOneNode
  <2>5. \A v \in A : F[v][n] \in Nat
    BY <2>2, <2>4 DEF s
  <2> QED BY <2>4, <2>5, <1>2 DEF s
<1>4. ASSUME NEW v \in A
      PROVE  h[v] = g[v]
  <2> DEFINE S == DOMAIN votes[v] \cap D
             e == [n \in S |-> VoterShare(c, v, n)]
             w == F[v]
  <2>1. \A n \in S : e[n] \in Int
    BY <1>1, SharesAreNumbers
  <2>2. \A n \in D : w[n] = IF n \in S THEN e[n] ELSE 0
    OBVIOUS
  <2>3. S \in SUBSET D
    OBVIOUS
  <2>4. SumFunctionOnSet(w, D) = SumFunctionOnSet(e, S)
    <3> HIDE DEF e, w, S, D
    <3> QED BY <1>2, <2>1, <2>2, <2>3, SumWithin
  <2>5. Earned(c, v) = SumFunctionOnSet(e, S)
    BY DEF Earned, SumOver
  <2> QED BY <2>4, <2>5
<1>5. SumFunctionOnSet(h, A) = SumFunctionOnSet(g, A)
  <2> HIDE DEF g
  <2> QED BY <1>1, <1>4, SumSame
<1>6. SumFunctionOnSet(g, A) = SumFunctionOnSet(f, D)
  <2> DEFINE G == [n \in D |-> column(n)]
  <2>1. ASSUME NEW v \in A, NEW n \in D
        PROVE  F[v][n] \in Int /\ G[n][v] = F[v][n]
    <3>1. G[n][v] = F[v][n]
      OBVIOUS
    <3> HIDE DEF F, G
    <3>2. F[v][n] \in Nat
      BY <1>3
    <3> QED BY <3>1, <3>2
  <2>2. (\A v \in A : g[v] = SumFunctionOnSet(F[v], D))
        /\ (\A n \in D : f[n] = SumFunctionOnSet(G[n], A))
    <3> HIDE DEF F
    <3> QED OBVIOUS
  <2> HIDE DEF F, G, D, f, g
  <2>3. AreColumns(G, F, A, D)
    BY <2>1 DEF AreColumns
  <2> QED BY <1>1, <1>2, <2>2, <2>3, SumSwap
<1>7. \A n \in D : f[n] \in Int /\ r[n] \in Int /\ f[n] <= r[n]
  <2> SUFFICES ASSUME NEW n \in D
               PROVE  f[n] \in Int /\ r[n] \in Int /\ f[n] <= r[n]
    OBVIOUS
  <2> DEFINE s == column(n)
  <2>1. \A v \in A : s[v] \in Int
    <3> HIDE DEF F
    <3>1. \A v \in A : F[v][n] \in Nat
      BY <1>3
    <3> QED BY <3>1
  <2>2. f[n] = SumFunctionOnSet(s, A) /\ SumFunctionOnSet(s, A) <= r[n]
    BY <1>3
  <2>3. SumFunctionOnSet(s, A) \in Int
    <3> HIDE DEF s
    <3> QED BY <1>1, <2>1, SumTakeOut
  <2> QED BY <1>2, <2>2, <2>3
<1>8. SumFunctionOnSet(f, D) <= SumFunctionOnSet(r, D)
  <2> HIDE DEF f, r, D
  <2> QED BY <1>2, <1>7, SumMonotone
<1>9. Total(c.rewards) = SumFunctionOnSet(r, D)
  BY DEF Total, SumOver
<1> HIDE DEF f, g, r, D
<1> QED BY <1>5, <1>6, <1>8, <1>9

-----------------------------------------------------------------------------
(***************************************************************************)
(* Every table can pay what it owes.                                       *)
(***************************************************************************)
\* What a table owes and has, in numbers.
LEMMA OwedType ==
  ASSUME Mail, Books, NEW t \in Table
  PROVE  /\ Unclaimed(node_rec, Accounts(Node, t)) \in Nat
         /\ Unclaimed(voter_rec, Accounts(Voter, t)) \in Nat
         /\ Carried(Unrecorded(t)) \in Nat
         /\ TokensOf(Coming(t)) \in Nat
         /\ balance[t] \in Int
<1> DEFINE A == Accounts(Node, t)
           B == Accounts(Voter, t)
           C == Unrecorded(t)
           X == Coming(t)
           E == {}
<1>1. IsFiniteSet(A) /\ A \subseteq Node /\ IsFiniteSet(B) /\ B \subseteq Voter
  BY AccountsFinite
<1>2. /\ \A n \in Node : node_rec[n].unclaimed \in Nat
      /\ \A v \in Voter : voter_rec[v].unclaimed \in Nat
  BY DEF Books, NodeBooks, VoterBooks, RewardRecord, IsVoterRecord
<1>3. /\ IsFiniteSet(C) /\ \A c \in C : IsRewards(c.rewards, Node)
      /\ IsFiniteSet(X) /\ \A x \in X : x.amount \in Nat
  BY MailFacts
<1>4. IsFiniteSet(E) /\ (\A c \in E : IsRewards(c.rewards, Node)) /\ (\A x \in E : x.amount \in Nat)
  BY FS_EmptySet
<1>5. C \cap E = {} /\ X \cap E = {}
  OBVIOUS
<1>6. balance[t] \in Int
  BY DEF Books
<1> HIDE DEF A, B, C, X, E
<1>7. Unclaimed(node_rec, A) \in Nat /\ Unclaimed(voter_rec, B) \in Nat
  BY <1>1, <1>2, UnclaimedType
<1>8. Carried(C) \in Nat /\ TokensOf(X) \in Nat
  BY <1>3, <1>4, <1>5, CarriedTogether, TokensTogether
<1> QED BY <1>6, <1>7, <1>8 DEF A, B, C, X

\* setup() rounds once for all the fractions of a table, and their sum fits.
FractionsFit ==
  \A nodes \in OldNodeRecords, voters \in OldVoterRecords, t \in Table :
    Fractions(nodes, Accounts(Node, t)) + Fractions(voters, Accounts(Voter, t)) < 2^DecimalsWidth

LEMMA InitSolvent == ASSUME FractionsFit, Init PROVE Solvent
<1> SUFFICES ASSUME NEW t \in Table
             PROVE  Owed(t) <= Precision * (balance[t] + TokensOf(Coming(t)))
  BY DEF Solvent
<1> DEFINE A == Accounts(Node, t)
           B == Accounts(Voter, t)
           w == WholeTokens(node_rec, A) + WholeTokens(voter_rec, B)
           x == Fractions(node_rec, A) + Fractions(voter_rec, B)
           p == 2^DecimalsWidth
<1>1. Books
  BY InitBooks
<1>2. IsFiniteSet(A) /\ A \subseteq Node /\ IsFiniteSet(B) /\ B \subseteq Voter
  BY AccountsFinite
<1>3. /\ \A n \in Node : node_rec[n].unclaimed \in Nat
      /\ \A v \in Voter : voter_rec[v].unclaimed \in Nat
  BY <1>1 DEF Books, NodeBooks, VoterBooks, RewardRecord, IsVoterRecord
<1>4. /\ WholeTokens(node_rec, A) \in Nat /\ Fractions(node_rec, A) \in Nat
      /\ Unclaimed(node_rec, A) = Precision * WholeTokens(node_rec, A) + Fractions(node_rec, A)
      /\ WholeTokens(voter_rec, B) \in Nat /\ Fractions(voter_rec, B) \in Nat
      /\ Unclaimed(voter_rec, B) = Precision * WholeTokens(voter_rec, B) + Fractions(voter_rec, B)
  <2> HIDE DEF A, B
  <2> QED BY <1>2, <1>3, RecordsInTokens
<1>5. Unrecorded(t) = {} /\ Coming(t) = {}
  BY DEF Init, Unrecorded, Coming, TasksPending
<1>6. Carried(Unrecorded(t)) = 0 /\ TokensOf(Coming(t)) = 0
  <2>1. Carried(Unrecorded(t)) = Carried({}) /\ TokensOf(Coming(t)) = TokensOf({})
    BY <1>5, Zenon
  <2> QED BY <2>1, OneOrNone
<1>7. balance[t] = w + WholeUp(x % p)
  <2>1. balance[t] = SetupTokens(RecordsAt(node_rec, Node, t), RecordsAt(voter_rec, Voter, t))
    BY DEF Init
  <2> QED BY <2>1, SetupTokensAre
<1>8. x \in Nat /\ x < p
  BY <1>4 DEF Init, FractionsFit
<1>9. p \in Nat \ {0}
  BY PowerOfTwo, ClaimingAssumption
<1>10. x % p = x
  <2> HIDE DEF x, p
  <2> QED BY <1>8, <1>9
<1>11. WholeUp(x) \in Nat /\ x <= Precision * WholeUp(x)
  <2> HIDE DEF x
  <2> QED BY <1>8, WholeUpCovers
<1>12. balance[t] = w + WholeUp(x)
  <2>1. WholeUp(x % p) = WholeUp(x)
    <3> HIDE DEF x, p
    <3> QED BY <1>10, Zenon
  <2> QED BY <1>7, <2>1
<1>13. Precision * (w + WholeUp(x)) = Precision * WholeTokens(node_rec, A)
         + Precision * WholeTokens(voter_rec, B) + Precision * WholeUp(x)
  <2> HIDE DEF x, A, B
  <2> QED BY <1>4, <1>11, DispatchAssumption
<1>14. Owed(t) = Unclaimed(node_rec, A) + Unclaimed(voter_rec, B) + Carried(Unrecorded(t))
  BY DEF Owed
<1>15. balance[t] \in Int /\ balance[t] + TokensOf(Coming(t)) = w + WholeUp(x)
  <2> HIDE DEF x, A, B
  <2> QED BY <1>4, <1>6, <1>11, <1>12
<1>16. x = Fractions(node_rec, A) + Fractions(voter_rec, B)
  OBVIOUS
<1> HIDE DEF x, A, B, p, w
<1>17. Precision * (w + WholeUp(x)) = Precision * (balance[t] + TokensOf(Coming(t)))
  BY <1>15
<1>18. /\ Precision * WholeTokens(node_rec, A) \in Nat /\ Precision * WholeTokens(voter_rec, B) \in Nat
       /\ Precision * WholeUp(x) \in Nat
  BY <1>4, <1>11, DispatchAssumption
<1> QED BY <1>4, <1>6, <1>11, <1>13, <1>14, <1>16, <1>17, <1>18

\* The debt and the cover of a table do not change.
LEMMA SolventStays ==
  ASSUME NEW t \in Table, Owed(t) <= Precision * (balance[t] + TokensOf(Coming(t))),
         Unclaimed(node_rec', Accounts(Node, t)) = Unclaimed(node_rec, Accounts(Node, t)),
         Unclaimed(voter_rec', Accounts(Voter, t)) = Unclaimed(voter_rec, Accounts(Voter, t)),
         Unrecorded(t)' = Unrecorded(t), Coming(t)' = Coming(t), balance'[t] = balance[t]
  PROVE  Owed(t)' <= Precision * (balance'[t] + TokensOf(Coming(t)'))
<1>1. Carried(Unrecorded(t)') = Carried(Unrecorded(t)) /\ TokensOf(Coming(t)') = TokensOf(Coming(t))
  BY Zenon
<1>2. Owed(t)' = Unclaimed(node_rec', Accounts(Node, t)) + Unclaimed(voter_rec', Accounts(Voter, t))
                   + Carried(Unrecorded(t)')
  BY DEF Owed
<1> QED BY <1>1, <1>2 DEF Owed

\* A round adds to a table's debt what it gives, and sends the tokens for it.
LEMMA RewardAdds ==
  ASSUME Mail, NEW given \in GivenRewards, reward(given), NEW t \in Table
  PROVE  \E debt, cover \in Nat :
           /\ debt <= Precision * cover
           /\ Carried(Unrecorded(t)') = Carried(Unrecorded(t)) + debt
           /\ TokensOf(Coming(t)') = TokensOf(Coming(t)) + cover
<1> DEFINE N == NodeCalls(rounds', given.nodes)
           V == VoterCalls(rounds', given.dividends)
           X == TransfersOf(rounds', given.nodes, given.dividends)
           Nt == {c \in N : c.to = t}
           Vt == {c \in V : c.to = t}
           Xt == {x \in X : x.to = t}
           a == IF t \in DOMAIN given.nodes THEN Total(given.nodes[t]) ELSE 0
           b == IF t \in DOMAIN given.dividends THEN Total(given.dividends[t]) ELSE 0
           total == TableTotal(given.nodes, given.dividends, t)
           cover == IF t \in DOMAIN given.nodes \cup DOMAIN given.dividends THEN WholeUp(total) ELSE 0
<1>1. /\ Unrecorded(t)' = Unrecorded(t) \cup (Nt \cup Vt) /\ Unrecorded(t) \cap (N \cup V) = {}
      /\ N \cap V = {}
      /\ Coming(t)' = Coming(t) \cup Xt /\ Coming(t) \cap X = {}
  BY RewardSends
<1>2. IsGiven(given.nodes, given.dividends, given.community)
  BY GivenIsGiven
<1>3. /\ DOMAIN given.nodes \subseteq Table /\ DOMAIN given.dividends \subseteq Table
      /\ \A u \in DOMAIN given.nodes : IsRewards(given.nodes[u], Node)
      /\ \A u \in DOMAIN given.dividends : IsRewards(given.dividends[u], Node)
  <2>1. \A u : Accounts(Node, u) \subseteq Node
    BY DEF Accounts
  <2> QED BY <1>2, <2>1, RewardsOfMore DEF IsGiven
<1>4. /\ IsFiniteSet(Nt) /\ Carried(Nt) = a
      /\ \A c \in Nt : IsRewards(c.rewards, Node)
  <2>1. /\ IsFiniteSet(N)
        /\ \A c \in N : c.to \in DOMAIN given.nodes
        /\ \A u \in DOMAIN given.nodes :
             {c \in N : c.to = u} = CallsAt("recv_node_reward", rounds', u, given.nodes[u])
    <3>1. N = AllCalls("recv_node_reward", rounds', given.nodes)
      BY DEF NodeCalls
    <3> HIDE DEF N
    <3> QED BY <1>3, <3>1, CallsOfCarryAll
  <2>2. IsFiniteSet(Nt)
    BY <2>1, FS_Subset
  <2>3. CASE t \in DOMAIN given.nodes
    <3>1. Nt = CallsAt("recv_node_reward", rounds', t, given.nodes[t])
      BY <2>1, <2>3
    <3>2. IsRewards(given.nodes[t], Node) /\ DOMAIN given.nodes[t] \subseteq Node /\ a = Total(given.nodes[t])
      BY <1>3, <2>3 DEF IsRewards, IsMap
    <3> HIDE DEF Nt
    <3>3. /\ \A c \in Nt : IsRewards(c.rewards, DOMAIN given.nodes[t])
          /\ Carried(Nt) = Total(given.nodes[t])
      BY <3>1, <3>2, CallsAtCarryAll
    <3>4. \A c \in Nt : IsRewards(c.rewards, Node)
      BY <3>2, <3>3, RewardsOfMore
    <3> QED BY <2>2, <3>2, <3>3, <3>4
  <2>4. CASE t \notin DOMAIN given.nodes
    <3>1. Nt = {} /\ a = 0
      BY <2>1, <2>4
    <3>2. Carried(Nt) = Carried({})
      BY <3>1, Zenon
    <3> QED BY <2>2, <3>1, <3>2, OneOrNone
  <2> QED BY <2>3, <2>4
<1>5. /\ IsFiniteSet(Vt) /\ Carried(Vt) = b
      /\ \A c \in Vt : IsRewards(c.rewards, Node)
  <2>1. /\ IsFiniteSet(V)
        /\ \A c \in V : c.to \in DOMAIN given.dividends
        /\ \A u \in DOMAIN given.dividends :
             {c \in V : c.to = u} = CallsAt("recv_voter_dividend_reward", rounds', u, given.dividends[u])
    <3>1. V = AllCalls("recv_voter_dividend_reward", rounds', given.dividends)
      BY DEF VoterCalls
    <3> HIDE DEF V
    <3> QED BY <1>3, <3>1, CallsOfCarryAll
  <2>2. IsFiniteSet(Vt)
    BY <2>1, FS_Subset
  <2>3. CASE t \in DOMAIN given.dividends
    <3>1. Vt = CallsAt("recv_voter_dividend_reward", rounds', t, given.dividends[t])
      BY <2>1, <2>3
    <3>2. IsRewards(given.dividends[t], Node) /\ DOMAIN given.dividends[t] \subseteq Node
          /\ b = Total(given.dividends[t])
      BY <1>3, <2>3 DEF IsRewards, IsMap
    <3> HIDE DEF Vt
    <3>3. /\ \A c \in Vt : IsRewards(c.rewards, DOMAIN given.dividends[t])
          /\ Carried(Vt) = Total(given.dividends[t])
      BY <3>1, <3>2, CallsAtCarryAll
    <3>4. \A c \in Vt : IsRewards(c.rewards, Node)
      BY <3>2, <3>3, RewardsOfMore
    <3> QED BY <2>2, <3>2, <3>3, <3>4
  <2>4. CASE t \notin DOMAIN given.dividends
    <3>1. Vt = {} /\ b = 0
      BY <2>1, <2>4
    <3>2. Carried(Vt) = Carried({})
      BY <3>1, Zenon
    <3> QED BY <2>2, <3>1, <3>2, OneOrNone
  <2> QED BY <2>3, <2>4
<1>6. total = a + b /\ total \in Nat
  BY <1>2, TableTotalType DEF TableTotal
<1>7. WholeUp(total) \in Nat /\ total <= Precision * WholeUp(total)
  <2> HIDE DEF total
  <2> QED BY <1>6, WholeUpCovers
<1>8. cover \in Nat /\ total <= Precision * cover
  <2>1. CASE t \in DOMAIN given.nodes \cup DOMAIN given.dividends
    BY <1>7, <2>1
  <2>2. CASE t \notin DOMAIN given.nodes \cup DOMAIN given.dividends
    <3>1. cover = 0 /\ a = 0 /\ b = 0
      BY <2>2
    <3>2. total = 0
      BY <1>6, <3>1
    <3> HIDE DEF cover, total
    <3> QED BY <3>1, <3>2, DispatchAssumption
  <2> QED BY <2>1, <2>2
<1>9. IsFiniteSet(Xt) /\ TokensOf(Xt) = cover /\ \A x \in Xt : x.amount \in Nat
  <2> DEFINE f == Transfer(rounds', t, WholeUp(total))
             E == {}
             F == {f}
  <2>1. CASE t \in DOMAIN given.nodes \cup DOMAIN given.dividends
    <3>1. Xt = F
      BY <2>1 DEF TransfersOf, Transfer
    <3>2. f.amount = WholeUp(total) /\ f.amount \in Nat /\ cover = f.amount
      BY <1>7, <2>1 DEF Transfer
    <3>3. \A x \in Xt : x.amount \in Nat
      BY <3>1, <3>2
    <3>4. TokensOf(F) = f.amount /\ IsFiniteSet(F)
      <4> HIDE DEF f
      <4> QED BY <3>2, OneOrNone, FS_Singleton
    <3>5. TokensOf(Xt) = TokensOf(F)
      BY <3>1, Zenon
    <3> QED BY <3>1, <3>2, <3>3, <3>4, <3>5
  <2>2. CASE t \notin DOMAIN given.nodes \cup DOMAIN given.dividends
    <3>1. Xt = E /\ cover = 0
      BY <2>2 DEF TransfersOf, Transfer
    <3>2. TokensOf(Xt) = TokensOf(E)
      BY <3>1, Zenon
    <3> QED BY <3>1, <3>2, OneOrNone, FS_EmptySet
  <2> QED BY <2>1, <2>2
<1>10. Nt \cap Vt = {} /\ Unrecorded(t) \cap (Nt \cup Vt) = {} /\ Coming(t) \cap Xt = {}
  BY <1>1
<1>11. /\ IsFiniteSet(Unrecorded(t)) /\ \A c \in Unrecorded(t) : IsRewards(c.rewards, Node)
       /\ IsFiniteSet(Coming(t)) /\ \A x \in Coming(t) : x.amount \in Nat
  BY MailFacts
<1> DEFINE W == Nt \cup Vt
<1>12. Carried(W) = a + b
  <2> HIDE DEF Nt, Vt, a, b
  <2>1. \A c \in Nt \cup Vt : IsRewards(c.rewards, Node)
    BY <1>4, <1>5
  <2>2. Carried(Nt \cup Vt) = Carried(Nt) + Carried(Vt)
    BY <1>4, <1>5, <1>10, <2>1, CarriedTogether
  <2> QED BY <1>4, <1>5, <2>2
<1>13. IsFiniteSet(W) /\ \A c \in W : IsRewards(c.rewards, Node)
  <2> HIDE DEF Nt, Vt
  <2> QED BY <1>4, <1>5, FS_Union
<1>14. Unrecorded(t)' = Unrecorded(t) \cup W /\ Unrecorded(t) \cap W = {}
  BY <1>1, <1>10
<1> HIDE DEF W, a, b, total, cover, Xt, Nt, Vt, N, V, X
<1>15. Carried(Unrecorded(t) \cup W) = Carried(Unrecorded(t)) + Carried(W)
  <2> DEFINE C == Unrecorded(t)
  <2>1. IsFiniteSet(C) /\ C \cap W = {} /\ \A c \in C \cup W : IsRewards(c.rewards, Node)
    BY <1>11, <1>13, <1>14
  <2> HIDE DEF C
  <2>2. Carried(C \cup W) = Carried(C) + Carried(W)
    BY <1>13, <2>1, CarriedTogether
  <2> QED BY <2>2 DEF C
<1>16. TokensOf(Coming(t) \cup Xt) = TokensOf(Coming(t)) + TokensOf(Xt)
  <2> DEFINE C == Coming(t)
  <2>1. IsFiniteSet(C) /\ C \cap Xt = {} /\ \A x \in C \cup Xt : x.amount \in Nat
    BY <1>9, <1>10, <1>11
  <2> HIDE DEF C
  <2>2. TokensOf(C \cup Xt) = TokensOf(C) + TokensOf(Xt)
    BY <1>9, <2>1, TokensTogether
  <2> QED BY <2>2 DEF C
<1>17. Carried(Unrecorded(t)') = Carried(Unrecorded(t) \cup W)
       /\ TokensOf(Coming(t)') = TokensOf(Coming(t) \cup Xt)
  BY <1>1, <1>14, Zenon
<1>18. /\ total \in Nat /\ cover \in Nat
       /\ total <= Precision * cover
       /\ Carried(Unrecorded(t)') = Carried(Unrecorded(t)) + total
       /\ TokensOf(Coming(t)') = TokensOf(Coming(t)) + cover
  BY <1>6, <1>8, <1>9, <1>12, <1>15, <1>16, <1>17
<1> QED BY <1>18

\* What is taken out of what is on its way.
LEMMA TokensTaken ==
  ASSUME Mail, NEW t, NEW x \in Coming(t)
  PROVE  TokensOf(Coming(t) \ {x}) + x.amount = TokensOf(Coming(t))
<1> DEFINE C == Coming(t)
           R == C \ {x}
           D == {x}
<1>1. IsFiniteSet(C) /\ \A y \in C : y.amount \in Nat
  BY MailFacts
<1>2. IsFiniteSet(R) /\ IsFiniteSet(D) /\ R \cap D = {} /\ C = R \cup D
  BY <1>1, FS_Subset, FS_Singleton
<1>3. x.amount \in Nat /\ \A y \in R \cup D : y.amount \in Nat
  BY <1>1
<1>4. TokensOf(D) = x.amount
  BY <1>3, OneOrNone
<1> HIDE DEF C, R, D
<1>5. TokensOf(R) \in Nat /\ TokensOf(R \cup D) = TokensOf(R) + TokensOf(D)
  BY <1>2, <1>3, TokensTogether
<1>6. TokensOf(C) = TokensOf(R \cup D)
  BY <1>2, Zenon
<1>7. TokensOf(R) + x.amount = TokensOf(C)
  BY <1>3, <1>4, <1>5, <1>6
<1> QED BY <1>7 DEF R, C

LEMMA RewardsTaken ==
  ASSUME Mail, NEW t, NEW c \in Unrecorded(t)
  PROVE  Carried(Unrecorded(t) \ {c}) + Total(c.rewards) = Carried(Unrecorded(t))
<1> DEFINE C == Unrecorded(t)
           R == C \ {c}
           D == {c}
<1>1. IsFiniteSet(C) /\ \A d \in C : IsRewards(d.rewards, Node)
  BY MailFacts
<1>2. IsFiniteSet(R) /\ IsFiniteSet(D) /\ R \cap D = {} /\ C = R \cup D
  BY <1>1, FS_Subset, FS_Singleton
<1>3. IsRewards(c.rewards, Node) /\ \A d \in R \cup D : IsRewards(d.rewards, Node)
  BY <1>1
<1>4. Carried(D) = Total(c.rewards) /\ Total(c.rewards) \in Nat
  BY <1>3, OneOrNone, TotalType
<1> HIDE DEF C, R, D
<1>5. Carried(R) \in Nat /\ Carried(R \cup D) = Carried(R) + Carried(D)
  BY <1>2, <1>3, CarriedTogether
<1>6. Carried(C) = Carried(R \cup D)
  BY <1>2, Zenon
<1>7. Carried(R) + Total(c.rewards) = Carried(C)
  BY <1>4, <1>5, <1>6
<1> QED BY <1>7 DEF R, C

\* The debt of a table after a step.
LEMMA OwedNext ==
  ASSUME NEW t
  PROVE  /\ Owed(t) = Unclaimed(node_rec, Accounts(Node, t))
                        + Unclaimed(voter_rec, Accounts(Voter, t)) + Carried(Unrecorded(t))
         /\ Owed(t)' = Unclaimed(node_rec', Accounts(Node, t))
                         + Unclaimed(voter_rec', Accounts(Voter, t)) + Carried(Unrecorded(t)')
BY DEF Owed

\* Each action in turn, for any table.
LEMMA RewardStaysSolvent ==
  ASSUME Mail, Books, NEW given \in GivenRewards, reward(given), NEW t \in Table,
         Owed(t) <= Precision * (balance[t] + TokensOf(Coming(t)))
  PROVE  Owed(t)' <= Precision * (balance'[t] + TokensOf(Coming(t)'))
<1>1. PICK debt \in Nat, cover \in Nat :
        /\ debt <= Precision * cover
        /\ Carried(Unrecorded(t)') = Carried(Unrecorded(t)) + debt
        /\ TokensOf(Coming(t)') = TokensOf(Coming(t)) + cover
  BY RewardAdds
<1>2. node_rec' = node_rec /\ voter_rec' = voter_rec /\ balance' = balance
  BY DEF reward, books
<1> DEFINE u == Unclaimed(node_rec, Accounts(Node, t))
           w == Unclaimed(voter_rec, Accounts(Voter, t))
           k == Carried(Unrecorded(t))
           b == balance[t]
           x == TokensOf(Coming(t))
<1>3. u \in Nat /\ w \in Nat /\ k \in Nat /\ x \in Nat /\ b \in Int
  BY OwedType
<1>4. Owed(t) = u + w + k /\ Owed(t)' = u + w + Carried(Unrecorded(t)')
  BY <1>2, OwedNext
<1>5. balance'[t] + TokensOf(Coming(t)') = b + x + cover
  BY <1>1, <1>2, <1>3
<1> HIDE DEF u, w, k
<1>6. u + w + k <= Precision * (b + x)
  BY <1>4
<1> HIDE DEF b, x
<1>7. Precision * (b + x + cover) = Precision * (b + x) + Precision * cover
  BY <1>1, <1>3, DispatchAssumption
<1>8. Precision * (b + x) \in Int /\ Precision * cover \in Int
  BY <1>1, <1>3, DispatchAssumption
<1>9. Owed(t)' = u + w + (k + debt)
  BY <1>1, <1>4 DEF k
<1>10. u + w + (k + debt) <= Precision * (b + x + cover)
  BY <1>1, <1>3, <1>6, <1>7, <1>8
<1> QED BY <1>5, <1>9, <1>10

LEMMA ReceiveTransferStaysSolvent ==
  ASSUME Mail, Books, NEW x \in transfers, ReceiveTransfer(x), NEW t \in Table,
         Owed(t) <= Precision * (balance[t] + TokensOf(Coming(t)))
  PROVE  Owed(t)' <= Precision * (balance'[t] + TokensOf(Coming(t)'))
<1>1. /\ Unrecorded(t)' = Unrecorded(t)
      /\ Coming(t)' = IF t = x.to THEN Coming(t) \ {x} ELSE Coming(t)
      /\ x \in Coming(x.to) /\ x.amount \in Nat
  BY ReceiveTakes
<1>2. /\ node_rec' = node_rec /\ voter_rec' = voter_rec
      /\ balance' = IF x.to \in Table THEN [balance EXCEPT ![x.to] = @ + x.amount] ELSE balance
  BY DEF ReceiveTransfer
<1>3. balance \in [Table -> Int]
  BY DEF Books
<1>4. CASE t = x.to
  <2>1. TokensOf(Coming(t) \ {x}) + x.amount = TokensOf(Coming(t))
    BY <1>1, <1>4, TokensTaken
  <2>2. TokensOf(Coming(t)') = TokensOf(Coming(t) \ {x})
    BY <1>1, <1>4, Zenon
  <2>3. balance'[t] = balance[t] + x.amount
    BY <1>2, <1>3, <1>4
  <2>4. TokensOf(Coming(t)) \in Nat /\ TokensOf(Coming(t) \ {x}) \in Nat
    <3> DEFINE C == Coming(t)
               D == Coming(t) \ {x}
               E == {}
    <3>1. IsFiniteSet(C) /\ \A y \in C : y.amount \in Nat
      BY MailFacts
    <3>2. IsFiniteSet(D) /\ (\A y \in D : y.amount \in Nat) /\ IsFiniteSet(E) /\ D \cap E = {}
          /\ \A y \in D \cup E : y.amount \in Nat
      BY <3>1, FS_Subset, FS_EmptySet
    <3> HIDE DEF D, E
    <3>3. TokensOf(D) \in Nat
      BY <3>2, TokensTogether
    <3> QED BY <3>3, OwedType DEF D
  <2>5. balance'[t] + TokensOf(Coming(t)') = balance[t] + TokensOf(Coming(t))
    BY <1>1, <1>3, <2>1, <2>2, <2>3, <2>4
  <2>6. Carried(Unrecorded(t)') = Carried(Unrecorded(t))
    BY <1>1, Zenon
  <2>7. Owed(t)' = Owed(t)
    BY <1>2, <2>6, OwedNext
  <2> QED BY <2>5, <2>7
<1>5. CASE t # x.to
  <2>1. balance'[t] = balance[t] /\ Coming(t)' = Coming(t)
    BY <1>1, <1>2, <1>3, <1>5
  <2> QED BY <1>1, <1>2, <2>1, SolventStays
<1> QED BY <1>4, <1>5

LEMMA RecvNodeStaysSolvent ==
  ASSUME Mail, Books, NEW c \in calls, ReceiveCall(c), recv_node_reward(c), NEW t \in Table,
         Owed(t) <= Precision * (balance[t] + TokensOf(Coming(t)))
  PROVE  Owed(t)' <= Precision * (balance'[t] + TokensOf(Coming(t)'))
<1> DEFINE A == Accounts(Node, t)
           h == [n \in A |-> AmountOf(c.rewards, n)]
<1>1. c.action = "recv_node_reward" /\ balance' = balance /\ voter_rec' = voter_rec
  BY DEF recv_node_reward
<1>2. /\ Coming(t)' = Coming(t)
      /\ Unrecorded(t)' = IF t = c.to THEN Unrecorded(t) \ {c} ELSE Unrecorded(t)
      /\ c \in Unrecorded(c.to) /\ IsRewards(c.rewards, Node) /\ c \in ToNodes
  BY <1>1, ReceiveTakes
<1>3. DOMAIN c.rewards \subseteq Accounts(Node, c.to)
  BY <1>2 DEF Mail
<1>4. IsFiniteSet(A) /\ A \subseteq Node
  BY AccountsFinite
<1>5. \A n \in A : /\ node_rec[n].unclaimed \in Nat /\ h[n] \in Nat
                   /\ node_rec'[n].unclaimed = node_rec[n].unclaimed + h[n]
  <2>1. \A n \in Node : node_rec[n].unclaimed \in Nat
    BY DEF Books, NodeBooks, RewardRecord
  <2> QED BY <1>4, <2>1, RecvNodeChanges
<1>6. Unclaimed(node_rec', A) = Unclaimed(node_rec, A) + SumFunctionOnSet(h, A)
  <2> HIDE DEF A, h
  <2> QED BY <1>4, <1>5, UnclaimedGrows
<1>7. CASE t = c.to
  <2>1. SumFunctionOnSet(h, A) = Total(c.rewards)
    <3>1. A = Accounts(Node, c.to)
      BY <1>7
    <3> HIDE DEF A
    <3> QED BY <1>2, <1>3, <3>1, NodesOfCall
  <2>2. Carried(Unrecorded(t) \ {c}) + Total(c.rewards) = Carried(Unrecorded(t))
    BY <1>2, <1>7, RewardsTaken
  <2>3. Carried(Unrecorded(t)') = Carried(Unrecorded(t) \ {c})
        /\ TokensOf(Coming(t)') = TokensOf(Coming(t))
    BY <1>2, <1>7, Zenon
  <2>4. /\ Unclaimed(node_rec, A) \in Nat /\ Unclaimed(voter_rec, Accounts(Voter, t)) \in Nat
        /\ Carried(Unrecorded(t)) \in Nat /\ Total(c.rewards) \in Nat
    BY <1>2, OwedType, TotalType
  <2>5. Carried(Unrecorded(t)') \in Int
    <3>1. Carried(Unrecorded(t) \ {c}) \in Int
      <4> DEFINE D == Unrecorded(t) \ {c}
                 E == {}
      <4>1. IsFiniteSet(D) /\ IsFiniteSet(E) /\ D \cap E = {}
            /\ \A d \in D \cup E : IsRewards(d.rewards, Node)
        BY MailFacts, FS_Subset, FS_EmptySet
      <4> HIDE DEF D, E
      <4>2. Carried(D) \in Nat
        BY <4>1, CarriedTogether
      <4> QED BY <4>2 DEF D
    <3> QED BY <2>3, <3>1
  <2>6. Owed(t)' = Owed(t)
    <3> DEFINE u == Unclaimed(node_rec, A)
               w == Unclaimed(voter_rec, Accounts(Voter, t))
    <3>1. Owed(t) = u + w + Carried(Unrecorded(t))
          /\ Owed(t)' = Unclaimed(node_rec', A) + w + Carried(Unrecorded(t)')
      BY <1>1, OwedNext
    <3>2. Unclaimed(node_rec', A) = u + Total(c.rewards)
      BY <1>6, <2>1
    <3>3. Carried(Unrecorded(t)') + Total(c.rewards) = Carried(Unrecorded(t))
      BY <2>2, <2>3
    <3>4. u \in Nat /\ w \in Nat
      BY <2>4
    <3> HIDE DEF u, w
    <3> QED BY <2>4, <2>5, <3>1, <3>2, <3>3, <3>4
  <2> QED BY <1>1, <2>3, <2>6
<1>8. CASE t # c.to
  <2>1. \A n \in A : h[n] = 0
    BY <1>3, <1>8 DEF Accounts, AmountOf
  <2>2. SumFunctionOnSet(h, A) = 0
    <3> HIDE DEF A, h
    <3> QED BY <1>4, <2>1, SumOfZeros
  <2>3. Unclaimed(node_rec', A) = Unclaimed(node_rec, A)
    BY <1>6, <2>2, OwedType
  <2> QED BY <1>1, <1>2, <1>8, <2>3, SolventStays
<1> QED BY <1>7, <1>8

LEMMA RecvVoterStaysSolvent ==
  ASSUME Mail, Books, NEW c \in calls, ReceiveCall(c), recv_voter_dividend_reward(c),
         NEW t \in Table, Owed(t) <= Precision * (balance[t] + TokensOf(Coming(t)))
  PROVE  Owed(t)' <= Precision * (balance'[t] + TokensOf(Coming(t)'))
<1> DEFINE A == Accounts(Voter, t)
           h == [v \in A |-> Earned(c, v)]
<1>1. balance' = balance /\ node_rec' = node_rec
  BY DEF recv_voter_dividend_reward
<1>2. /\ Coming(t)' = Coming(t)
      /\ Unrecorded(t)' = IF t = c.to THEN Unrecorded(t) \ {c} ELSE Unrecorded(t)
      /\ c \in Unrecorded(c.to) /\ IsRewards(c.rewards, Node)
  BY ReceiveTakes
<1>3. IsFiniteSet(A) /\ A \subseteq Voter /\ VotesTyped
  BY AccountsFinite DEF Books
<1>4. \A v \in Voter : voter_rec[v].unclaimed \in Nat
  BY DEF Books, VoterBooks, IsVoterRecord, RewardRecord
<1>5. CASE t = c.to
  <2>1. A = Accounts(Voter, c.to)
    BY <1>5
  <2>2. \A v \in A : /\ voter_rec[v].unclaimed \in Nat /\ h[v] \in Nat
                     /\ voter_rec'[v].unclaimed = voter_rec[v].unclaimed + h[v]
    BY <1>3, <1>4, <2>1, RecvVoterChanges
  <2>3. SumFunctionOnSet(h, A) <= Total(c.rewards)
    <3> DEFINE g == h
    <3>1. g = [v \in A |-> Earned(c, v)]
      OBVIOUS
    <3> HIDE DEF A, g
    <3>2. SumFunctionOnSet(g, A) <= Total(c.rewards)
      BY <1>2, <1>3, <2>1, <3>1, VotersOfCall
    <3> QED BY <3>2 DEF g
  <2>4. SumFunctionOnSet(h, A) \in Nat
    <3> HIDE DEF A, h
    <3> QED BY <1>3, <2>2, SumOfNats
  <2>5. Unclaimed(voter_rec', A) = Unclaimed(voter_rec, A) + SumFunctionOnSet(h, A)
    <3> HIDE DEF A, h
    <3> QED BY <1>3, <2>2, UnclaimedGrows
  <2>6. Carried(Unrecorded(t) \ {c}) + Total(c.rewards) = Carried(Unrecorded(t))
    BY <1>2, <1>5, RewardsTaken
  <2>7. Carried(Unrecorded(t)') = Carried(Unrecorded(t) \ {c})
        /\ TokensOf(Coming(t)') = TokensOf(Coming(t))
    BY <1>2, <1>5, Zenon
  <2>8. /\ Unclaimed(node_rec, Accounts(Node, t)) \in Nat /\ Unclaimed(voter_rec, A) \in Nat
        /\ Carried(Unrecorded(t)) \in Nat /\ Total(c.rewards) \in Nat
        /\ TokensOf(Coming(t)) \in Nat /\ balance[t] \in Int
    BY <1>2, OwedType, TotalType
  <2>9. Carried(Unrecorded(t)') \in Int
    <3>1. Carried(Unrecorded(t) \ {c}) \in Int
      <4> DEFINE D == Unrecorded(t) \ {c}
                 E == {}
      <4>1. IsFiniteSet(D) /\ IsFiniteSet(E) /\ D \cap E = {}
            /\ \A d \in D \cup E : IsRewards(d.rewards, Node)
        BY MailFacts, FS_Subset, FS_EmptySet
      <4> HIDE DEF D, E
      <4>2. Carried(D) \in Nat
        BY <4>1, CarriedTogether
      <4> QED BY <4>2 DEF D
    <3> QED BY <2>7, <3>1
  <2>10. Owed(t)' <= Owed(t) /\ Owed(t)' \in Int /\ Owed(t) \in Int
    <3> DEFINE u == Unclaimed(node_rec, Accounts(Node, t))
               w == Unclaimed(voter_rec, A)
               e == SumFunctionOnSet(h, A)
    <3>1. Owed(t) = u + w + Carried(Unrecorded(t))
          /\ Owed(t)' = u + Unclaimed(voter_rec', A) + Carried(Unrecorded(t)')
      BY <1>1, OwedNext
    <3>2. Unclaimed(voter_rec', A) = w + e /\ e \in Nat /\ e <= Total(c.rewards)
      BY <2>3, <2>4, <2>5
    <3>3. Carried(Unrecorded(t)') + Total(c.rewards) = Carried(Unrecorded(t))
      BY <2>6, <2>7
    <3>4. u \in Nat /\ w \in Nat
      BY <2>8
    <3> HIDE DEF u, w, e, A
    <3> QED BY <2>8, <2>9, <3>1, <3>2, <3>3, <3>4
  <2>11. Precision * (balance[t] + TokensOf(Coming(t))) \in Int
    BY <2>8, DispatchAssumption
  <2>12. Precision * (balance'[t] + TokensOf(Coming(t)')) = Precision * (balance[t] + TokensOf(Coming(t)))
    BY <1>1, <2>7
  <2> QED BY <2>10, <2>11, <2>12
<1>6. CASE t # c.to
  <2>1. \A v \in A : voter_rec'[v].unclaimed = voter_rec[v].unclaimed
    <3>1. \A v \in A : v \in Voter \ Accounts(Voter, c.to)
      BY <1>6 DEF Accounts
    <3> QED BY <3>1, RecvVoterChanges
  <2>2. Unclaimed(voter_rec', A) = Unclaimed(voter_rec, A)
    <3> HIDE DEF A
    <3> QED BY <1>3, <2>1, UnclaimedSame
  <2> QED BY <1>1, <1>2, <1>6, <2>2, SolventStays
<1> QED BY <1>5, <1>6

\* A claim: the debt falls by what the tokens are worth.
LEMMA ClaimBalances ==
  ASSUME NEW debt \in Int, NEW rest \in Int, NEW b \in Int, NEW x \in Int, NEW tokens \in Nat,
         rest + Precision * tokens = debt, debt <= Precision * (b + x)
  PROVE  rest <= Precision * ((b - tokens) + x)
<1>1. Precision \in Int
  BY DispatchAssumption
<1>2. Precision * ((b - tokens) + x) = Precision * (b + x) - Precision * tokens
  BY <1>1
<1>3. Precision * (b + x) \in Int /\ Precision * tokens \in Int
  BY <1>1
<1> QED BY <1>2, <1>3

LEMMA ClaimNodeStaysSolvent ==
  ASSUME Mail, Books, NEW n \in Node, claimNodeReward(n), NEW t \in Table,
         Owed(t) <= Precision * (balance[t] + TokensOf(Coming(t)))
  PROVE  Owed(t)' <= Precision * (balance'[t] + TokensOf(Coming(t)'))
<1> DEFINE A == Accounts(Node, t)
<1>1. PICK tokens \in Nat :
        /\ balance' = [balance EXCEPT ![TableOf[n]] = @ - tokens]
        /\ node_rec' \in [Node -> RewardRecord]
        /\ \A m \in Node \ {n} : node_rec'[m] = node_rec[m]
        /\ node_rec[n].unclaimed = node_rec'[n].unclaimed + Precision * tokens
  BY ClaimNodeChanges
<1>2. /\ Coming(t)' = Coming(t) /\ Unrecorded(t)' = Unrecorded(t) /\ voter_rec' = voter_rec
  BY DEF claimNodeReward, zecVars, Coming, Unrecorded, TasksPending
<1>3. IsFiniteSet(A) /\ A \subseteq Node
  BY AccountsFinite
<1>4. \A m \in Node : node_rec[m].unclaimed \in Nat /\ node_rec'[m].unclaimed \in Nat
  BY <1>1 DEF Books, NodeBooks, RewardRecord
<1>5. balance \in [Table -> Int]
  BY DEF Books
<1>6. CASE t = TableOf[n]
  <2>1. n \in A
    BY <1>6 DEF Accounts
  <2>2. Precision * tokens \in Nat
    BY <1>1, DispatchAssumption
  <2>3. Unclaimed(node_rec', A) + Precision * tokens = Unclaimed(node_rec, A)
    <3> DEFINE k == Precision * tokens
               new == node_rec'
    <3>1. /\ \A a \in A : node_rec[a].unclaimed \in Nat /\ new[a].unclaimed \in Nat
          /\ \A a \in A \ {n} : new[a] = node_rec[a]
          /\ node_rec[n].unclaimed = new[n].unclaimed + k
          /\ k \in Nat
      BY <1>1, <1>3, <1>4, <2>2
    <3> HIDE DEF A, k, new
    <3>2. Unclaimed(new, A) + k = Unclaimed(node_rec, A)
      BY <1>3, <2>1, <3>1, UnclaimedLess
    <3> QED BY <3>2 DEF new, k
  <2>4. Unclaimed(node_rec', A) \in Nat
    <3> DEFINE new == node_rec'
    <3>1. \A a \in A : new[a].unclaimed \in Nat
      BY <1>3, <1>4
    <3> HIDE DEF A, new
    <3>2. Unclaimed(new, A) \in Nat
      BY <1>3, <3>1, UnclaimedType
    <3> QED BY <3>2 DEF new
  <2>5. Carried(Unrecorded(t)') = Carried(Unrecorded(t)) /\ TokensOf(Coming(t)') = TokensOf(Coming(t))
    BY <1>2, Zenon
  <2> DEFINE w == Unclaimed(voter_rec, Accounts(Voter, t))
             k == Carried(Unrecorded(t))
             x == TokensOf(Coming(t))
             u == Unclaimed(node_rec, A)
             new == Unclaimed(node_rec', A)
  <2>6. w \in Nat /\ k \in Nat /\ x \in Nat /\ u \in Nat /\ new \in Nat
    BY <2>4, OwedType
  <2>7. Owed(t) = u + w + k /\ Owed(t)' = new + w + k
    BY <1>2, <2>5, OwedNext
  <2>8. balance'[t] = balance[t] - tokens /\ balance[t] \in Int
    BY <1>1, <1>5, <1>6
  <2>9. new + Precision * tokens = u /\ u + w + k <= Precision * (balance[t] + x)
    BY <2>3, <2>7
  <2> HIDE DEF w, k, x, u, new
  <2>10. (new + w + k) + Precision * tokens = u + w + k
    BY <2>2, <2>6, <2>9
  <2>11. new + w + k \in Int /\ u + w + k \in Int
    BY <2>6
  <2>12. new + w + k <= Precision * ((balance[t] - tokens) + x)
    BY <1>1, <2>6, <2>8, <2>9, <2>10, <2>11, ClaimBalances
  <2> QED BY <2>5, <2>7, <2>8, <2>12 DEF x
<1>7. CASE t # TableOf[n]
  <2>1. \A m \in A : node_rec'[m].unclaimed = node_rec[m].unclaimed
    BY <1>1, <1>7 DEF Accounts
  <2>2. Unclaimed(node_rec', A) = Unclaimed(node_rec, A)
    <3> HIDE DEF A
    <3> QED BY <1>3, <2>1, UnclaimedSame
  <2>3. balance'[t] = balance[t]
    BY <1>1, <1>5, <1>7
  <2> QED BY <1>2, <2>2, <2>3, SolventStays
<1> QED BY <1>6, <1>7

LEMMA ClaimVoterStaysSolvent ==
  ASSUME Mail, Books, NEW v \in Voter, claimVoterDividend(v), NEW t \in Table,
         Owed(t) <= Precision * (balance[t] + TokensOf(Coming(t)))
  PROVE  Owed(t)' <= Precision * (balance'[t] + TokensOf(Coming(t)'))
<1> DEFINE A == Accounts(Voter, t)
<1>1. PICK tokens \in Nat :
        /\ balance' = [balance EXCEPT ![TableOf[v]] = @ - tokens]
        /\ \A w \in Voter : IsVoterRecord(voter_rec'[w])
        /\ \A w \in Voter \ {v} : voter_rec'[w] = voter_rec[w]
        /\ voter_rec[v].unclaimed = voter_rec'[v].unclaimed + Precision * tokens
  BY ClaimVoterChanges
<1>2. /\ Coming(t)' = Coming(t) /\ Unrecorded(t)' = Unrecorded(t) /\ node_rec' = node_rec
  BY DEF claimVoterDividend, zecVars, Coming, Unrecorded, TasksPending
<1>3. IsFiniteSet(A) /\ A \subseteq Voter
  BY AccountsFinite
<1>4. \A w \in Voter : voter_rec[w].unclaimed \in Nat /\ voter_rec'[w].unclaimed \in Nat
  BY <1>1 DEF Books, VoterBooks, IsVoterRecord, RewardRecord
<1>5. balance \in [Table -> Int]
  BY DEF Books
<1>6. CASE t = TableOf[v]
  <2>1. v \in A
    BY <1>6 DEF Accounts
  <2>2. Precision * tokens \in Nat
    BY <1>1, DispatchAssumption
  <2>3. Unclaimed(voter_rec', A) + Precision * tokens = Unclaimed(voter_rec, A)
    <3> DEFINE k == Precision * tokens
               new == voter_rec'
    <3>1. /\ \A a \in A : voter_rec[a].unclaimed \in Nat /\ new[a].unclaimed \in Nat
          /\ \A a \in A \ {v} : new[a] = voter_rec[a]
          /\ voter_rec[v].unclaimed = new[v].unclaimed + k
          /\ k \in Nat
      BY <1>1, <1>3, <1>4, <2>2
    <3> HIDE DEF A, k, new
    <3>2. Unclaimed(new, A) + k = Unclaimed(voter_rec, A)
      BY <1>3, <2>1, <3>1, UnclaimedLess
    <3> QED BY <3>2 DEF new, k
  <2>4. Unclaimed(voter_rec', A) \in Nat
    <3> DEFINE new == voter_rec'
    <3>1. \A a \in A : new[a].unclaimed \in Nat
      BY <1>3, <1>4
    <3> HIDE DEF A, new
    <3>2. Unclaimed(new, A) \in Nat
      BY <1>3, <3>1, UnclaimedType
    <3> QED BY <3>2 DEF new
  <2>5. Carried(Unrecorded(t)') = Carried(Unrecorded(t)) /\ TokensOf(Coming(t)') = TokensOf(Coming(t))
    BY <1>2, Zenon
  <2> DEFINE w == Unclaimed(node_rec, Accounts(Node, t))
             k == Carried(Unrecorded(t))
             x == TokensOf(Coming(t))
             u == Unclaimed(voter_rec, A)
             new == Unclaimed(voter_rec', A)
  <2>6. w \in Nat /\ k \in Nat /\ x \in Nat /\ u \in Nat /\ new \in Nat
    BY <2>4, OwedType
  <2>7. Owed(t) = w + u + k /\ Owed(t)' = w + new + k
    BY <1>2, <2>5, OwedNext
  <2>8. balance'[t] = balance[t] - tokens /\ balance[t] \in Int
    BY <1>1, <1>5, <1>6
  <2>9. new + Precision * tokens = u /\ w + u + k <= Precision * (balance[t] + x)
    BY <2>3, <2>7
  <2> HIDE DEF w, k, x, u, new
  <2>10. (w + new + k) + Precision * tokens = w + u + k
    BY <2>2, <2>6, <2>9
  <2>11. w + new + k \in Int /\ w + u + k \in Int
    BY <2>6
  <2>12. w + new + k <= Precision * ((balance[t] - tokens) + x)
    BY <1>1, <2>6, <2>8, <2>9, <2>10, <2>11, ClaimBalances
  <2> QED BY <2>5, <2>7, <2>8, <2>12 DEF x
<1>7. CASE t # TableOf[v]
  <2>1. \A w \in A : voter_rec'[w].unclaimed = voter_rec[w].unclaimed
    BY <1>1, <1>7 DEF Accounts
  <2>2. Unclaimed(voter_rec', A) = Unclaimed(voter_rec, A)
    <3> HIDE DEF A
    <3> QED BY <1>3, <2>1, UnclaimedSame
  <2>3. balance'[t] = balance[t]
    BY <1>1, <1>5, <1>7
  <2> QED BY <1>2, <2>2, <2>3, SolventStays
<1> QED BY <1>6, <1>7

LEMMA NextStaysSolvent ==
  ASSUME Mail, Books, Solvent, [Next]_vars
  PROVE  Solvent'
<1> SUFFICES ASSUME NEW t \in Table
             PROVE  Owed(t)' <= Precision * (balance'[t] + TokensOf(Coming(t)'))
  BY DEF Solvent
<1>1. Owed(t) <= Precision * (balance[t] + TokensOf(Coming(t)))
  BY DEF Solvent
<1>2. CASE Reward
  BY <1>1, <1>2, RewardStaysSolvent DEF Reward
<1>3. CASE execute_task
  <2>1. node_rec' = node_rec /\ voter_rec' = voter_rec /\ balance' = balance
    BY <1>3 DEF execute_task, books
  <2>2. Unrecorded(t)' = Unrecorded(t) /\ Coming(t)' = Coming(t)
    BY <1>3, ExecuteMoves
  <2> QED BY <1>1, <2>1, <2>2, SolventStays
<1>4. CASE Receive
  BY <1>1, <1>4, ReceiveTransferStaysSolvent, RecvNodeStaysSolvent, RecvVoterStaysSolvent
     DEF Receive, ReceiveCall
<1>5. CASE Claim
  BY <1>1, <1>5, ClaimNodeStaysSolvent, ClaimVoterStaysSolvent DEF Claim
<1>6. CASE ChangeVotes \/ UNCHANGED vars
  <2>1. /\ node_rec' = node_rec /\ voter_rec' = voter_rec /\ balance' = balance
        /\ Unrecorded(t)' = Unrecorded(t) /\ Coming(t)' = Coming(t)
    BY <1>6 DEF ChangeVotes, Revote, vars, zecVars, books, Unrecorded, Coming, TasksPending
  <2> QED BY <1>1, <2>1, SolventStays
<1> QED BY <1>2, <1>3, <1>4, <1>5, <1>6 DEF Next

\* Every claiming contract can pay what it owes once the transfers sent to it have
\* arrived, whatever rounds, calls, claims and changes of votes come in between.
\* setup() adds up the fractions of the old records in 32 bits (acc_token_decimals)
\* and nothing in the code bounds how many records there are: the theorem has to
\* suppose that the sum fits.
THEOREM AlwaysSolvent ==
  ASSUME FractionsFit
  PROVE  Spec => []Solvent
<1>1. Init => Solvent
  BY InitSolvent
<1>2. Mail /\ Books /\ Solvent /\ [Next]_vars => Solvent'
  BY NextStaysSolvent
<1> QED BY <1>1, <1>2, MailAndBooksAlways, PTL DEF Spec
=============================================================================
