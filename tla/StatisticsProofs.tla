-------------------------- MODULE StatisticsProofs --------------------------
(***************************************************************************)
(* Proofs about module Statistics: that the signatures of a block count    *)
(* once, that rounds of the slash contract lie apart and are fair, and     *)
(* that work and pledged TGAS are conserved on their way to the reward     *)
(* contract.                                                               *)
(***************************************************************************)
EXTENDS Statistics, SumProofs

(***************************************************************************)
(* Bags.  Equations between them are proved of the copies of each element. *)
(***************************************************************************)
LEMMA NoCopies == IsABag(EmptyBag) /\ \A e : Copies(e, EmptyBag) = 0
BY DEF EmptyBag, SetToBag, IsABag, Copies, BagIn, BagToSet

LEMMA CopiesType ==
  ASSUME NEW B, IsABag(B), NEW e
  PROVE  Copies(e, B) \in Nat /\ (e \in DOMAIN B <=> Copies(e, B) # 0)
BY DEF IsABag, Copies, BagIn, BagToSet

LEMMA PlusCopies ==
  ASSUME NEW A, NEW B, NEW e
  PROVE  Copies(e, A (+) B) = Copies(e, A) + Copies(e, B)
BY DEF Copies, BagIn, BagToSet, (+)

LEMMA PlusType ==
  ASSUME NEW A, NEW B, IsABag(A), IsABag(B)
  PROVE  IsABag(A (+) B) /\ DOMAIN (A (+) B) = DOMAIN A \cup DOMAIN B
BY DEF IsABag, (+)

\* Bags with the same copies of everything are equal.
LEMMA SameCopies ==
  ASSUME NEW A, NEW B, IsABag(A), IsABag(B), \A e : Copies(e, A) = Copies(e, B)
  PROVE  A = B
<1>1. \A e : (e \in DOMAIN A <=> Copies(e, A) # 0) /\ (e \in DOMAIN B <=> Copies(e, B) # 0)
  BY CopiesType
<1>2. DOMAIN A = DOMAIN B
  BY <1>1
<1>3. \A e \in DOMAIN A : A[e] = B[e]
  BY <1>2 DEF Copies, BagIn, BagToSet
<1>4. A = [e \in DOMAIN A |-> A[e]] /\ B = [e \in DOMAIN B |-> B[e]]
  BY DEF IsABag
<1> QED BY <1>2, <1>3, <1>4

\* How often e is in the bags f[x] together.
CopiesAll(e, f, S) == SumFunctionOnSet([x \in S |-> Copies(e, f[x])], S)

AreBags(f, S) == IsFiniteSet(S) /\ \A x \in S : IsABag(f[x])

LEMMA CopiesAllType ==
  ASSUME NEW f, NEW S, AreBags(f, S), NEW e
  PROVE  /\ CopiesAll(e, f, S) \in Nat
         /\ CopiesAll(e, f, S) # 0 <=> \E x \in S : e \in DOMAIN f[x]
<1> DEFINE n == [x \in S |-> Copies(e, f[x])]
<1>1. \A x \in S : n[x] \in Nat /\ (n[x] # 0 <=> e \in DOMAIN f[x])
  BY CopiesType DEF AreBags
<1>2. /\ SumFunctionOnSet(n, S) \in Nat
      /\ SumFunctionOnSet(n, S) = 0 <=> \A x \in S : n[x] = 0
  <2> HIDE DEF n
  <2> QED BY <1>1, SumOfNats DEF AreBags
<1> QED BY <1>1, <1>2 DEF CopiesAll

LEMMA SumOfBagsType ==
  ASSUME NEW f, NEW S, AreBags(f, S)
  PROVE  /\ IsABag(SumOfBags(f, S))
         /\ DOMAIN SumOfBags(f, S) = UNION {DOMAIN f[x] : x \in S}
         /\ \A e : Copies(e, SumOfBags(f, S)) = CopiesAll(e, f, S)
<1> DEFINE D == UNION {DOMAIN f[x] : x \in S}
<1>1. SumOfBags(f, S) = [e \in D |-> CopiesAll(e, f, S)]
  BY DEF SumOfBags, CopiesAll, BagToSet
<1>2. \A e : CopiesAll(e, f, S) \in Nat /\ (CopiesAll(e, f, S) # 0 <=> e \in D)
  BY CopiesAllType
<1> HIDE DEF D
<1>3. IsABag(SumOfBags(f, S)) /\ DOMAIN SumOfBags(f, S) = D
  BY <1>1, <1>2 DEF IsABag
<1>4. \A e : Copies(e, SumOfBags(f, S)) = CopiesAll(e, f, S)
  BY <1>1, <1>2 DEF Copies, BagIn, BagToSet
<1> QED BY <1>3, <1>4 DEF D

LEMMA CopiesOfNone == \A f, e : CopiesAll(e, f, {}) = 0
BY SumOfNone DEF CopiesAll

LEMMA CopiesSame ==
  ASSUME NEW f, NEW g, NEW S, \A x \in S : f[x] = g[x], NEW e
  PROVE  CopiesAll(e, f, S) = CopiesAll(e, g, S)
<1>1. [x \in S |-> Copies(e, f[x])] = [x \in S |-> Copies(e, g[x])]
  OBVIOUS
<1> QED BY <1>1 DEF CopiesAll

\* The copies in two families of bags.
LEMMA CopiesUnion ==
  ASSUME NEW f, NEW S, NEW T, AreBags(f, S), AreBags(f, T), S \cap T = {}, NEW e
  PROVE  CopiesAll(e, f, S \cup T) = CopiesAll(e, f, S) + CopiesAll(e, f, T)
<1> DEFINE n == [x \in S \cup T |-> Copies(e, f[x])]
           s == [x \in S |-> Copies(e, f[x])]
           t == [x \in T |-> Copies(e, f[x])]
<1>1. IsFiniteSet(S) /\ IsFiniteSet(T)
  BY DEF AreBags
<1>2. \A x \in S \cup T : n[x] \in Int
  BY CopiesType DEF AreBags
<1>3. (\A x \in S : n[x] = s[x]) /\ (\A x \in T : n[x] = t[x])
  OBVIOUS
<1> HIDE DEF n, s, t
<1>4. SumFunctionOnSet(n, S) = SumFunctionOnSet(s, S)
  BY <1>1, <1>3, SumSame
<1>5. SumFunctionOnSet(n, T) = SumFunctionOnSet(t, T)
  BY <1>1, <1>3, SumSame
<1>6. SumFunctionOnSet(n, S \cup T) = SumFunctionOnSet(n, S) + SumFunctionOnSet(n, T)
  BY <1>1, <1>2, SumUnion
<1> QED BY <1>4, <1>5, <1>6 DEF CopiesAll, n, s, t

LEMMA CopiesOfOne ==
  ASSUME NEW f, NEW x, IsABag(f[x]), NEW e
  PROVE  CopiesAll(e, f, {x}) = Copies(e, f[x])
<1> DEFINE n == [y \in {x} |-> Copies(e, f[y])]
           D == {x}
<1>1. n[x] = Copies(e, f[x]) /\ n[x] \in Int
  BY CopiesType
<1>2. IsFiniteSet(D)
  BY FS_Singleton
<1>4. x \in D /\ \A y \in D \ {x} : n[y] = 0
  OBVIOUS
<1> HIDE DEF n, D
<1>3. SumFunctionOnSet(n, D) = n[x]
  BY <1>1, <1>2, <1>4, SumOfOne
<1> QED BY <1>1, <1>3 DEF CopiesAll, n, D

\* One of the bags changes.
LEMMA CopiesChange ==
  ASSUME NEW f, NEW g, NEW S, AreBags(f, S), AreBags(g, S), NEW x \in S,
         \A y \in S \ {x} : g[y] = f[y], NEW e
  PROVE  CopiesAll(e, g, S) = CopiesAll(e, f, S) + (Copies(e, g[x]) - Copies(e, f[x]))
<1> DEFINE n == [y \in S |-> Copies(e, f[y])]
           m == [y \in S |-> Copies(e, g[y])]
<1>1. \A y \in S : n[y] \in Int /\ m[y] \in Int
  BY CopiesType DEF AreBags
<1>2. \A y \in S \ {x} : m[y] = n[y]
  OBVIOUS
<1>3. n[x] = Copies(e, f[x]) /\ m[x] = Copies(e, g[x]) /\ IsFiniteSet(S)
  BY DEF AreBags
<1>4. SumFunctionOnSet(m, S) = SumFunctionOnSet(n, S) + (m[x] - n[x])
  <2> HIDE DEF n, m
  <2> QED BY <1>1, <1>2, <1>3, SumChange
<1> QED BY <1>3, <1>4 DEF CopiesAll

-----------------------------------------------------------------------------
(***************************************************************************)
(* The signatures of sets of blocks.                                       *)
(***************************************************************************)
Signed(S) == [b \in S |-> block[b[1]][b[2]].info.block_count]
Asked(S) == [b \in S |-> block[b[1]][b[2]].info.subset_count]

\* A finite set of blocks that there are.
AreBlocks(S) ==
  IsFiniteSet(S) /\ \A b \in S : b[1] \in Table /\ block[b[1]][b[2]] \in Contents

LEMMA BlockContents ==
  ASSUME NEW S, AreBlocks(S)
  PROVE  /\ AreBags(Signed(S), S) /\ AreBags(Asked(S), S)
         /\ \A b \in S : /\ DOMAIN Signed(S)[b] \subseteq DOMAIN Asked(S)[b]
                         /\ DOMAIN Asked(S)[b] \subseteq Role \X Node
BY ContentAssumption DEF AreBlocks, AreBags, Signed, Asked, IsInfo, BagToSet

LEMMA InfoParts ==
  \A S : InfoOf(S) = [block_count |-> SumOfBags(Signed(S), S),
                      subset_count |-> SumOfBags(Asked(S), S)]
<1> TAKE S
<1>1. /\ [b \in S |-> [c \in S |-> block[c[1]][c[2]].info][b].block_count] = Signed(S)
      /\ [b \in S |-> [c \in S |-> block[c[1]][c[2]].info][b].subset_count] = Asked(S)
  BY DEF Signed, Asked
<1> QED BY <1>1 DEF InfoOf

LEMMA InfoOfNone == InfoOf({}) = NoInfo
<1>1. \A f : SumOfBags(f, {}) = EmptyBag
  BY DEF SumOfBags, EmptyBag, SetToBag
<1> QED BY <1>1, InfoParts DEF NoInfo

\* The signatures are counted for nodes that were asked to sign.
LEMMA InfoType ==
  ASSUME NEW S, AreBlocks(S)
  PROVE  /\ IsInfo(InfoOf(S))
         /\ DOMAIN InfoOf(S).block_count \subseteq DOMAIN InfoOf(S).subset_count
<1> DEFINE B == SumOfBags(Signed(S), S)
           A == SumOfBags(Asked(S), S)
<1>1. /\ AreBags(Signed(S), S) /\ AreBags(Asked(S), S)
      /\ \A b \in S : /\ DOMAIN Signed(S)[b] \subseteq DOMAIN Asked(S)[b]
                      /\ DOMAIN Asked(S)[b] \subseteq Role \X Node
  BY BlockContents
<1>2. IsABag(B) /\ DOMAIN B = UNION {DOMAIN Signed(S)[b] : b \in S}
  BY <1>1, SumOfBagsType
<1>3. IsABag(A) /\ DOMAIN A = UNION {DOMAIN Asked(S)[b] : b \in S}
  BY <1>1, SumOfBagsType
<1>4. InfoOf(S) = [block_count |-> B, subset_count |-> A]
  BY InfoParts
<1> HIDE DEF A, B
<1>5. DOMAIN A \subseteq Role \X Node /\ DOMAIN B \subseteq DOMAIN A
  BY <1>1, <1>2, <1>3
<1>6. /\ DOMAIN InfoOf(S) = {"block_count", "subset_count"}
      /\ InfoOf(S).block_count = B /\ InfoOf(S).subset_count = A
  BY <1>4
<1> QED BY <1>2, <1>3, <1>5, <1>6 DEF IsInfo, BagToSet

LEMMA SumOfBagsUnion ==
  ASSUME NEW f, NEW g, NEW h, NEW S, NEW T, AreBags(f, S), AreBags(g, T), S \cap T = {},
         \A x \in S : h[x] = f[x], \A x \in T : h[x] = g[x]
  PROVE  SumOfBags(h, S \cup T) = SumOfBags(f, S) (+) SumOfBags(g, T)
<1> DEFINE U == S \cup T
           F == SumOfBags(f, S)
           G == SumOfBags(g, T)
           H == SumOfBags(h, U)
<1>1. AreBags(h, S) /\ AreBags(h, T)
  BY DEF AreBags
<1>2. IsFiniteSet(U)
  BY FS_Union DEF AreBags
<1>3. AreBags(h, U)
  BY <1>1, <1>2 DEF AreBags
<1>4. IsABag(H) /\ \A e : Copies(e, H) = CopiesAll(e, h, U)
  BY <1>3, SumOfBagsType
<1>5. IsABag(F) /\ \A e : Copies(e, F) = CopiesAll(e, f, S)
  BY SumOfBagsType
<1>6. IsABag(G) /\ \A e : Copies(e, G) = CopiesAll(e, g, T)
  BY SumOfBagsType
<1>7. \A e : CopiesAll(e, h, U) = CopiesAll(e, h, S) + CopiesAll(e, h, T)
  BY <1>1, CopiesUnion
<1>8. \A e : CopiesAll(e, h, S) = CopiesAll(e, f, S) /\ CopiesAll(e, h, T) = CopiesAll(e, g, T)
  BY CopiesSame
<1> HIDE DEF F, G, H, U
<1>9. IsABag(F (+) G) /\ \A e : Copies(e, F (+) G) = Copies(e, F) + Copies(e, G)
  BY <1>5, <1>6, PlusType, PlusCopies
<1>10. \A e : Copies(e, H) = Copies(e, F (+) G)
  BY <1>4, <1>5, <1>6, <1>7, <1>8, <1>9
<1>11. H = F (+) G
  BY <1>4, <1>9, <1>10, SameCopies
<1> QED BY <1>11 DEF F, G, H, U

\* The signatures of two sets of blocks that share none.
LEMMA InfoOfBoth ==
  ASSUME NEW S, NEW T, AreBlocks(S), AreBlocks(T), S \cap T = {}
  PROVE  InfoOf(S \cup T) = accumulate_node_info(InfoOf(S), InfoOf(T))
<1> DEFINE U == S \cup T
<1>1. AreBags(Signed(S), S) /\ AreBags(Asked(S), S) /\ AreBags(Signed(T), T) /\ AreBags(Asked(T), T)
  BY BlockContents
<1>2. /\ \A x \in S : Signed(U)[x] = Signed(S)[x] /\ Asked(U)[x] = Asked(S)[x]
      /\ \A x \in T : Signed(U)[x] = Signed(T)[x] /\ Asked(U)[x] = Asked(T)[x]
  BY DEF Signed, Asked
<1>3. SumOfBags(Signed(U), U) = SumOfBags(Signed(S), S) (+) SumOfBags(Signed(T), T)
  <2> DEFINE f == Signed(S)
             g == Signed(T)
             h == Signed(U)
  <2>1. AreBags(f, S) /\ AreBags(g, T) /\ (\A x \in S : h[x] = f[x]) /\ (\A x \in T : h[x] = g[x])
    BY <1>1, <1>2
  <2> HIDE DEF f, g, h
  <2>2. SumOfBags(h, S \cup T) = SumOfBags(f, S) (+) SumOfBags(g, T)
    BY <2>1, SumOfBagsUnion
  <2> QED BY <2>2 DEF f, g, h
<1>4. SumOfBags(Asked(U), U) = SumOfBags(Asked(S), S) (+) SumOfBags(Asked(T), T)
  BY <1>1, <1>2, SumOfBagsUnion
<1> HIDE DEF U
<1>5. InfoOf(U) = accumulate_node_info(InfoOf(S), InfoOf(T))
  BY <1>3, <1>4, InfoParts DEF accumulate_node_info
<1> QED BY <1>5 DEF U

LEMMA SumOfBagsOne ==
  ASSUME NEW f, NEW x, IsABag(f[x])
  PROVE  SumOfBags(f, {x}) = f[x]
<1> DEFINE S == {x}
<1>1. AreBags(f, S)
  BY FS_Singleton DEF AreBags
<1>2. \A e : CopiesAll(e, f, S) = Copies(e, f[x])
  BY CopiesOfOne
<1> HIDE DEF S
<1>3. IsABag(SumOfBags(f, S)) /\ \A e : Copies(e, SumOfBags(f, S)) = CopiesAll(e, f, S)
  BY <1>1, SumOfBagsType
<1>4. \A e : Copies(e, SumOfBags(f, S)) = Copies(e, f[x])
  BY <1>2, <1>3
<1>5. SumOfBags(f, S) = f[x]
  BY <1>3, <1>4, SameCopies
<1> QED BY <1>5 DEF S

\* The signatures of one block.
LEMMA InfoOfOne ==
  ASSUME NEW t \in Table, NEW h, block[t][h] \in Contents
  PROVE  /\ AreBlocks({<<t, h>>})
         /\ InfoOf({<<t, h>>}) = [block_count |-> block[t][h].info.block_count,
                                  subset_count |-> block[t][h].info.subset_count]
<1> DEFINE b == <<t, h>>
           S == {b}
<1>1. AreBlocks(S)
  <2>1. IsFiniteSet(S)
    BY FS_Singleton
  <2> QED BY <2>1 DEF AreBlocks
<1>2. Signed(S)[b] = block[t][h].info.block_count /\ Asked(S)[b] = block[t][h].info.subset_count
  BY DEF Signed, Asked
<1>3. IsABag(Signed(S)[b]) /\ IsABag(Asked(S)[b])
  BY <1>2, ContentAssumption DEF IsInfo
<1>4. SumOfBags(Signed(S), S) = Signed(S)[b] /\ SumOfBags(Asked(S), S) = Asked(S)[b]
  BY <1>3, SumOfBagsOne
<1> HIDE DEF S, b
<1>5. InfoOf(S) = [block_count |-> Signed(S)[b], subset_count |-> Asked(S)[b]]
  BY <1>4, InfoParts
<1> QED BY <1>1, <1>2, <1>5 DEF S, b

\* Signatures of blocks that stay as they are.
LEMMA InfoStays ==
  ASSUME NEW S, \A b \in S : block'[b[1]][b[2]] = block[b[1]][b[2]]
  PROVE  InfoOf(S)' = InfoOf(S)
<1>1. [c \in S |-> block'[c[1]][c[2]].info] = [c \in S |-> block[c[1]][c[2]].info]
  OBVIOUS
<1> QED BY <1>1 DEF InfoOf

-----------------------------------------------------------------------------
(***************************************************************************)
(* What the records look like.                                             *)
(***************************************************************************)
\* A table's full blocks are at multiples of FullInterval, without gaps, so that
\* the next one is above them all.
BlocksKept ==
  \A t \in Table :
    /\ IsFiniteSet(DOMAIN block[t])
    /\ \A h \in DOMAIN block[t] : /\ h \in Nat \ {0}
                                  /\ h <= Cardinality(DOMAIN block[t]) * FullInterval
                                  /\ block[t][h] \in Contents

\* A table collects ascending heights; it has something to report if and only if it
\* has collected since the last report.
TablesKept ==
  /\ fulltable_height \in [Table -> Nat] /\ fulltable_num \in [Table -> Nat]
  /\ table_tgas \in [Table -> Int]
  /\ \A t \in Table : /\ IsABag(table_work[t])
                      /\ pending[t] \subseteq collected[t]
                      /\ collected[t] \subseteq DOMAIN block[t]
                      /\ \A h \in collected[t] : h <= fulltable_height[t]
                      /\ fulltable_num[t] # 0 => fulltable_height[t] \in pending[t]

\* The maps over tables are maps over all tables.
MapsKept ==
  /\ block = [t \in Table |-> block[t]]
  /\ unqualified = [t \in Table |-> unqualified[t]]
  /\ table_work = [t \in Table |-> table_work[t]]
  /\ pending = [t \in Table |-> pending[t]]
  /\ collected = [t \in Table |-> collected[t]]

IsSlashCall(m) == /\ m.type = "slash" /\ m.table \in Table /\ m.height \in Nat
                  /\ m.blocks \subseteq Collected /\ m.blocks # {}

IsWorkCall(m) == /\ m.type = "workload" /\ m.table \in Table /\ m.height \in Nat \ {0}
                 /\ IsABag(m.work) /\ m.tgas \in Int

IsRewardCall(m) == m.type = "reward" /\ IsABag(m.work)

CallsKept ==
  /\ IsABag(calls) /\ IsFiniteSet(DOMAIN calls)
  /\ \A m \in DOMAIN calls : IsSlashCall(m) \/ IsWorkCall(m) \/ IsRewardCall(m)

ZecKept ==
  /\ counted \subseteq Collected
  /\ tableblock_num \in Nat /\ summarized \in [Table -> Nat]
  /\ slash_delete \in BOOLEAN /\ last_slash_time \in Nat /\ last_slash_time <= time
  /\ time \in Nat
  /\ \A r \in rounds : r.blocks \subseteq Collected

WorkKept ==
  /\ IsABag(zec_work) /\ zec_tgas \in Int /\ IsABag(reward_work) /\ IsABag(early_work)
  /\ activated \in BOOLEAN /\ work_taken \in [Table -> Nat]

Kept == BlocksKept /\ TablesKept /\ MapsKept /\ CallsKept /\ ZecKept /\ WorkKept

LEMMA CollectedMembers ==
  /\ \A u \in Table : \A k \in collected[u] : <<u, k>> \in Collected
  /\ \A b \in Collected : \E u \in Table : \E k \in collected[u] : b = <<u, k>>
BY DEF Collected

\* The blocks that have been collected are blocks.
LEMMA CollectedBlocks ==
  ASSUME BlocksKept, TablesKept
  PROVE  /\ IsFiniteSet(Collected)
         /\ \A t \in Table : {t} \X pending[t] \subseteq Collected
         /\ \A S \in SUBSET Collected : AreBlocks(S)
<1> DEFINE F == {{t} \X collected[t] : t \in Table}
<1>1. \A t \in Table : IsFiniteSet({t} \X collected[t])
  <2> SUFFICES ASSUME NEW t \in Table PROVE IsFiniteSet({t} \X collected[t])
    OBVIOUS
  <2>1. IsFiniteSet(collected[t])
    BY FS_Subset DEF BlocksKept, TablesKept
  <2>2. IsFiniteSet({t})
    BY FS_Singleton
  <2> QED BY <2>1, <2>2, FS_Product
<1>2. IsFiniteSet(F)
  <2> DEFINE f == [t \in Table |-> {t} \X collected[t]]
  <2>1. f \in Surjection(Table, F)
    BY DEF Surjection
  <2> HIDE DEF f, F
  <2> QED BY <2>1, FS_Surjection, NumberAssumption
<1>3. \A S \in F : IsFiniteSet(S)
  BY <1>1
<1>4. IsFiniteSet(UNION F)
  <2> HIDE DEF F
  <2> QED BY <1>2, <1>3, FS_UNION
<1>5. IsFiniteSet(Collected)
  BY <1>4 DEF Collected
<1>6. \A t \in Table : {t} \X pending[t] \subseteq Collected
  BY DEF Collected, TablesKept
<1>7. \A b \in Collected : b[1] \in Table /\ block[b[1]][b[2]] \in Contents
  BY DEF Collected, TablesKept, BlocksKept
<1>8. \A S \in SUBSET Collected : AreBlocks(S)
  BY <1>5, <1>7, FS_Subset DEF AreBlocks
<1> QED BY <1>5, <1>6, <1>8

\* The records of the calls and of ZEC as far as they are about collected blocks.
LEMMA CollectedStays ==
  ASSUME Collected \subseteq Collected', NEW m
  PROVE  IsSlashCall(m) => IsSlashCall(m)'
BY DEF IsSlashCall

LEMMA InitKept == Init => Kept
<1> SUFFICES ASSUME Init PROVE Kept
  OBVIOUS
<1>1. BlocksKept /\ MapsKept /\ TablesKept
  BY FS_EmptySet, NoCopies DEF Init, BlocksKept, MapsKept, TablesKept
<1>2. CallsKept
  BY FS_EmptySet, NoCopies DEF Init, CallsKept, EmptyBag, SetToBag
<1>3. ZecKept
  <2>1. slash_delete \in BOOLEAN
    BY DEF Init
  <2>2. /\ tableblock_num \in Nat /\ summarized \in [Table -> Nat] /\ last_slash_time \in Nat
        /\ last_slash_time <= time /\ time \in Nat
    BY DEF Init
  <2>3. counted \subseteq Collected /\ \A r \in rounds : r.blocks \subseteq Collected
    BY DEF Init
  <2> QED BY <2>1, <2>2, <2>3 DEF ZecKept
<1>4. WorkKept
  BY NoCopies DEF Init, WorkKept
<1> QED BY <1>4, <1>1, <1>2, <1>3 DEF Kept

\* A step that leaves blocks and tables alone.
LEMMA TablesUntouched ==
  ASSUME Kept, UNCHANGED block, UNCHANGED tableVars
  PROVE  BlocksKept' /\ TablesKept' /\ MapsKept' /\ Collected' = Collected
BY DEF Kept, BlocksKept, TablesKept, MapsKept, tableVars, Collected

LEMMA CollectKeeps ==
  ASSUME Kept, NEW t \in Table, NEW h \in DOMAIN block[t], on_collect_statistic_info(t, h)
  PROVE  Kept' /\ Collected' = Collected \cup {<<t, h>>} /\ h \notin collected[t]
<1>1. /\ h \in Nat \ {0} /\ h > fulltable_height[t] /\ block[t][h] \in Contents
      /\ fulltable_height[t] \in Nat
  BY DEF Kept, BlocksKept, TablesKept, on_collect_statistic_info, Unprocessed
<1>2. h \notin collected[t]
  BY <1>1 DEF Kept, TablesKept
<1>3. /\ collected' = [collected EXCEPT ![t] = @ \cup {h}]
      /\ pending' = [pending EXCEPT ![t] = @ \cup {h}]
      /\ fulltable_height' = [fulltable_height EXCEPT ![t] = h]
      /\ fulltable_num' = [fulltable_num EXCEPT ![t] = @ + 1]
      /\ table_work' = [table_work EXCEPT ![t] = @ (+) block[t][h].work]
      /\ table_tgas' = [table_tgas EXCEPT ![t] = @ + block[t][h].tgas]
      /\ UNCHANGED <<block, calls, slashVars, workVars, activated, reward_work, time>>
  BY DEF on_collect_statistic_info, process_workload_statistic_data
<1>4. BlocksKept' /\ MapsKept'
  BY <1>3 DEF Kept, BlocksKept, MapsKept, on_collect_statistic_info
<1>5. TablesKept'
  <2>1. IsABag(block[t][h].work) /\ block[t][h].tgas \in Int
    BY <1>1, ContentAssumption
  <2>2. IsABag(table_work[t] (+) block[t][h].work)
    BY <2>1, PlusType DEF Kept, TablesKept
  <2>3. /\ fulltable_height' \in [Table -> Nat] /\ fulltable_num' \in [Table -> Nat]
        /\ table_tgas' \in [Table -> Int]
    BY <1>1, <1>3, <2>1 DEF Kept, TablesKept
  <2>4. \A u \in Table : IsABag(table_work'[u])
    BY <1>3, <2>2 DEF Kept, TablesKept, MapsKept
  <2>5. \A u \in Table : pending'[u] \subseteq collected'[u] /\ collected'[u] \subseteq DOMAIN block'[u]
    BY <1>3 DEF Kept, TablesKept, MapsKept
  <2>6. \A u \in Table : \A k \in collected'[u] : k <= fulltable_height'[u]
    <3> SUFFICES ASSUME NEW u \in Table, NEW k \in collected'[u] PROVE k <= fulltable_height'[u]
      OBVIOUS
    <3>1. CASE u # t
      BY <1>3, <3>1 DEF Kept, TablesKept, MapsKept
    <3>2. CASE u = t
      <4>1. fulltable_height'[u] = h /\ (k \in collected[t] \/ k = h)
        BY <1>3, <3>2 DEF Kept, TablesKept, MapsKept
      <4>2. \A j \in collected[t] : j <= fulltable_height[t] /\ j \in Nat
        BY DEF Kept, TablesKept, BlocksKept
      <4> QED BY <1>1, <4>1, <4>2
    <3> QED BY <3>1, <3>2
  <2>7. \A u \in Table : fulltable_num'[u] # 0 => fulltable_height'[u] \in pending'[u]
    BY <1>3 DEF Kept, TablesKept, MapsKept
  <2> QED BY <2>3, <2>4, <2>5, <2>6, <2>7 DEF TablesKept
<1>6. Collected' = Collected \cup {<<t, h>>}
  <2>1. \A u \in Table : collected'[u] = IF u = t THEN collected[u] \cup {h} ELSE collected[u]
    BY <1>3 DEF Kept, MapsKept
  <2>2. Collected \cup {<<t, h>>} \subseteq Collected'
    <3>1. \A u \in Table : \A k \in collected'[u] : <<u, k>> \in Collected'
      BY DEF Collected
    <3>2. \A b \in Collected : b \in Collected'
      <4> SUFFICES ASSUME NEW b \in Collected PROVE b \in Collected'
        OBVIOUS
      <4>0. PICK u \in Table : \E k \in collected[u] : b = <<u, k>>
        BY CollectedMembers
      <4>1. PICK k \in collected[u] : b = <<u, k>>
        BY <4>0
      <4>2. k \in collected'[u]
        BY <2>1, <4>1
      <4> QED BY <3>1, <4>1, <4>2
    <3>3. h \in collected'[t]
      BY <2>1
    <3> QED BY <3>1, <3>2, <3>3
  <2>3. Collected' \subseteq Collected \cup {<<t, h>>}
    <3>1. \A b \in Collected' : \E u \in Table : \E k \in collected'[u] : b = <<u, k>>
      BY DEF Collected
    <3> SUFFICES ASSUME NEW b \in Collected', b # <<t, h>> PROVE b \in Collected
      OBVIOUS
    <3>0. PICK u \in Table : \E k \in collected'[u] : b = <<u, k>>
      BY <3>1
    <3>2. PICK k \in collected'[u] : b = <<u, k>>
      BY <3>0
    <3>3. k \in collected[u]
      BY <2>1, <3>2
    <3> QED BY <3>2, <3>3, CollectedMembers
  <2> QED BY <2>2, <2>3
<1>7. CallsKept'
  BY <1>3, <1>6, CollectedStays DEF Kept, CallsKept, IsWorkCall, IsRewardCall
<1>8. ZecKept' /\ WorkKept'
  BY <1>3, <1>6 DEF Kept, ZecKept, WorkKept, slashVars, workVars
<1> QED BY <1>2, <1>4, <1>5, <1>6, <1>7, <1>8 DEF Kept

-----------------------------------------------------------------------------
(***************************************************************************)
(* Calls on their way.                                                     *)
(***************************************************************************)
LEMMA SendingAdds ==
  ASSUME IsABag(calls), IsFiniteSet(DOMAIN calls), NEW msgs, IsFiniteSet(msgs),
         calls' = Sending(msgs)
  PROVE  /\ IsABag(calls') /\ IsFiniteSet(DOMAIN calls') /\ DOMAIN calls' = DOMAIN calls \cup msgs
         /\ \A m : Copies(m, calls') = Copies(m, calls) + IF m \in msgs THEN 1 ELSE 0
<1>1. /\ IsABag(SetToBag(msgs)) /\ DOMAIN SetToBag(msgs) = msgs
      /\ \A m : Copies(m, SetToBag(msgs)) = IF m \in msgs THEN 1 ELSE 0
  BY DEF IsABag, SetToBag, Copies, BagIn, BagToSet
<1>2. calls' = calls (+) SetToBag(msgs)
  BY DEF Sending
<1>3. IsABag(calls') /\ DOMAIN calls' = DOMAIN calls \cup msgs
  BY <1>1, <1>2, PlusType
<1>4. IsFiniteSet(DOMAIN calls')
  BY <1>3, FS_Union
<1> QED BY <1>1, <1>2, <1>3, <1>4, PlusCopies

LEMMA WithoutRemoves ==
  ASSUME IsABag(calls), IsFiniteSet(DOMAIN calls), NEW m \in DOMAIN calls, calls' = Without(m)
  PROVE  /\ IsABag(calls') /\ IsFiniteSet(DOMAIN calls')
         /\ DOMAIN calls' \subseteq DOMAIN calls
         /\ \A k \in DOMAIN calls : k # m => k \in DOMAIN calls' /\ calls'[k] = calls[k]
         /\ Copies(m, calls') = calls[m] - 1
<1>1. DOMAIN SetToBag({m}) = {m} /\ SetToBag({m})[m] = 1
  BY DEF SetToBag
<1>2. /\ DOMAIN calls' = {k \in DOMAIN calls : (IF k = m THEN calls[k] - 1 ELSE calls[k]) > 0}
      /\ \A k \in DOMAIN calls' : calls'[k] = IF k = m THEN calls[k] - 1 ELSE calls[k]
  BY <1>1 DEF Without, (-)
<1>3. calls' = [k \in DOMAIN calls' |-> calls'[k]]
  BY DEF Without, (-)
<1>4. \A k \in DOMAIN calls : calls[k] \in Nat /\ calls[k] > 0
  BY DEF IsABag
<1>5. IsABag(calls')
  BY <1>2, <1>3, <1>4 DEF IsABag
<1>6. IsFiniteSet(DOMAIN calls')
  BY <1>2, FS_Subset
<1>7. Copies(m, calls') = calls[m] - 1
  BY <1>2, <1>4 DEF Copies, BagIn, BagToSet
<1> QED BY <1>2, <1>4, <1>5, <1>6, <1>7

-----------------------------------------------------------------------------
\* The report of what a table has collected since the last one.
LEMMA ReportedCalls ==
  ASSUME Kept, NEW t \in Table, fulltable_num[t] # 0
  PROVE  /\ IsSlashCall(SlashReport(t)) /\ IsWorkCall(WorkReport(t))
         /\ SlashReport(t).type = "slash" /\ WorkReport(t).type = "workload"
         /\ SlashReport(t).blocks = {t} \X pending[t]
         /\ <<t, fulltable_height[t]>> \in {t} \X pending[t]
         /\ SlashReport(t).info = unqualified[t]
         /\ WorkReport(t).work = table_work[t] /\ WorkReport(t).tgas = table_tgas[t]
<1>1. fulltable_height[t] \in pending[t] /\ fulltable_height[t] \in Nat \ {0}
  BY DEF Kept, TablesKept, BlocksKept
<1>2. {t} \X pending[t] \subseteq Collected
  BY CollectedBlocks DEF Kept
<1>3. IsSlashCall(SlashReport(t))
  <2> DEFINE P == {t} \X pending[t]
  <2>1. <<t, fulltable_height[t]>> \in P
    BY <1>1
  <2>2. /\ SlashReport(t).type = "slash" /\ SlashReport(t).table = t
        /\ SlashReport(t).height = fulltable_height[t] /\ SlashReport(t).blocks = P
    BY DEF SlashReport
  <2> HIDE DEF P
  <2>3. P # {}
    BY <2>1
  <2> QED BY <1>1, <1>2, <2>2, <2>3 DEF IsSlashCall, P
<1>4. IsWorkCall(WorkReport(t))
  BY <1>1 DEF IsWorkCall, WorkReport, Kept, TablesKept
<1> QED BY <1>1, <1>3, <1>4 DEF SlashReport, WorkReport

\* The calls a report sends.
ReportOf(t) == IF table_work[t] # EmptyBag THEN {SlashReport(t), WorkReport(t)} ELSE {SlashReport(t)}

LEMMA ReportKeeps ==
  ASSUME Kept, NEW t \in Table, report_summarized_statistic_info(t)
  PROVE  /\ Kept' /\ Collected' = Collected
         /\ calls' = Sending(ReportOf(t)) /\ IsFiniteSet(ReportOf(t))
         /\ table_work' = [table_work EXCEPT ![t] = EmptyBag]
         /\ table_tgas' = IF table_work[t] # EmptyBag THEN [table_tgas EXCEPT ![t] = 0]
                                                      ELSE table_tgas
<1>1. /\ fulltable_num[t] # 0 /\ upload_workload(t)
      /\ unqualified' = [unqualified EXCEPT ![t] = NoInfo]
      /\ fulltable_num' = [fulltable_num EXCEPT ![t] = 0]
      /\ pending' = [pending EXCEPT ![t] = {}]
      /\ UNCHANGED <<block, fulltable_height, collected, slashVars, workVars, reward_work,
                     activated, time>>
  BY DEF report_summarized_statistic_info
<1>2. calls' = Sending(ReportOf(t))
  BY <1>1 DEF upload_workload, ReportOf
<1>3. IsFiniteSet(ReportOf(t))
  <2> DEFINE A == {SlashReport(t)}
             B == {WorkReport(t)}
  <2>1. IsFiniteSet(A) /\ IsFiniteSet(B)
    BY FS_Singleton
  <2>2. IsFiniteSet(A \cup B)
    <3> HIDE DEF A, B
    <3> QED BY <2>1, FS_Union
  <2>3. ReportOf(t) = A \/ ReportOf(t) = A \cup B
    BY DEF ReportOf
  <2> HIDE DEF A, B
  <2> QED BY <2>1, <2>2, <2>3
<1>4. table_work' = [table_work EXCEPT ![t] = EmptyBag]
  <2>1. CASE table_work[t] # EmptyBag
    BY <1>1, <2>1 DEF upload_workload
  <2>2. CASE table_work[t] = EmptyBag
    <3>1. table_work' = table_work
      BY <1>1, <2>2 DEF upload_workload
    <3> QED BY <2>2, <3>1 DEF Kept, MapsKept
  <2> QED BY <2>1, <2>2
<1>5. table_tgas' = IF table_work[t] # EmptyBag THEN [table_tgas EXCEPT ![t] = 0] ELSE table_tgas
  BY <1>1 DEF upload_workload
<1>6. Collected' = Collected
  BY <1>1 DEF Collected
<1>7. BlocksKept' /\ MapsKept'
  BY <1>1, <1>4 DEF Kept, BlocksKept, MapsKept
<1>8. TablesKept'
  <2>1. fulltable_num' \in [Table -> Nat] /\ fulltable_height' \in [Table -> Nat]
    BY <1>1 DEF Kept, TablesKept
  <2>2. table_tgas' \in [Table -> Int]
    BY <1>5 DEF Kept, TablesKept
  <2>3. \A u \in Table : IsABag(table_work'[u])
    BY <1>4, NoCopies DEF Kept, TablesKept, MapsKept
  <2>4. \A u \in Table : /\ pending'[u] \subseteq collected'[u]
                         /\ collected'[u] \subseteq DOMAIN block'[u]
                         /\ \A h \in collected'[u] : h <= fulltable_height'[u]
                         /\ fulltable_num'[u] # 0 => fulltable_height'[u] \in pending'[u]
    BY <1>1 DEF Kept, TablesKept, MapsKept
  <2> QED BY <2>1, <2>2, <2>3, <2>4 DEF TablesKept
<1>9. CallsKept'
  <2>1. IsABag(calls') /\ IsFiniteSet(DOMAIN calls') /\ DOMAIN calls' = DOMAIN calls \cup ReportOf(t)
    BY <1>2, <1>3, SendingAdds DEF Kept, CallsKept
  <2>2. \A m \in ReportOf(t) : IsSlashCall(m) \/ IsWorkCall(m)
    BY <1>1, ReportedCalls DEF ReportOf
  <2>3. \A m \in DOMAIN calls' : IsSlashCall(m) \/ IsWorkCall(m) \/ IsRewardCall(m)
    BY <2>1, <2>2 DEF Kept, CallsKept
  <2> QED BY <1>6, <2>1, <2>3 DEF CallsKept, IsSlashCall, IsWorkCall, IsRewardCall
<1>10. ZecKept' /\ WorkKept'
  BY <1>1, <1>6 DEF Kept, ZecKept, WorkKept, slashVars, workVars
<1> QED BY <1>2, <1>3, <1>4, <1>5, <1>6, <1>7, <1>8, <1>9, <1>10 DEF Kept

\* A call that arrives leaves the tables alone.
LEMMA DeliverKeepsTables ==
  ASSUME Kept, NEW m \in DOMAIN calls, Deliver(m)
  PROVE  /\ BlocksKept' /\ TablesKept' /\ MapsKept' /\ Collected' = Collected
         /\ CallsKept'
<1>1. BlocksKept' /\ TablesKept' /\ MapsKept' /\ Collected' = Collected
  BY TablesUntouched DEF Deliver
<1>2. IsABag(calls') /\ IsFiniteSet(DOMAIN calls') /\ DOMAIN calls' \subseteq DOMAIN calls
  BY WithoutRemoves DEF Kept, CallsKept, Deliver
<1>3. CallsKept'
  BY <1>1, <1>2 DEF Kept, CallsKept, IsSlashCall, IsWorkCall, IsRewardCall
<1> QED BY <1>1, <1>3

LEMMA SummarizeKeeps ==
  ASSUME Kept, NEW m \in DOMAIN calls, Deliver(m), summarize_slash_info(m)
  PROVE  Kept' /\ IsSlashCall(m) /\ UNCHANGED <<workVars, reward_work>>
<1>1. BlocksKept' /\ TablesKept' /\ MapsKept' /\ Collected' = Collected /\ CallsKept'
  BY DeliverKeepsTables
<1>2. IsSlashCall(m)
  BY DEF Kept, CallsKept, summarize_slash_info, IsWorkCall, IsRewardCall
<1>3. WorkKept' /\ UNCHANGED <<workVars, reward_work>>
  BY DEF Kept, WorkKept, summarize_slash_info, Deliver, workVars
<1>4. ZecKept'
  <2>1. slash_delete' = slash_delete /\ last_slash_time' = last_slash_time /\ rounds' = rounds
        /\ time' = time
    BY DEF summarize_slash_info, Deliver
  <2>2. CASE m.height > summarized[m.table]
    <3>1. /\ tableblock_num' = tableblock_num + (m.height - summarized[m.table])
          /\ summarized' = [summarized EXCEPT ![m.table] = m.height]
          /\ counted' = counted \cup m.blocks
      BY <2>2 DEF summarize_slash_info, Count
    <3>2. m.height \in Nat /\ m.table \in Table /\ m.blocks \subseteq Collected
          /\ summarized[m.table] \in Nat /\ tableblock_num \in Nat
      BY <1>2 DEF IsSlashCall, Kept, ZecKept
    <3>3. tableblock_num' \in Nat
      BY <2>2, <3>1, <3>2
    <3>4. summarized' \in [Table -> Nat] /\ counted' \subseteq Collected
      BY <3>1, <3>2 DEF Kept, ZecKept
    <3> QED BY <1>1, <2>1, <3>3, <3>4 DEF Kept, ZecKept
  <2>3. CASE ~ (m.height > summarized[m.table])
    <3>1. UNCHANGED <<tableblock_num, summarized, counted>>
      BY <2>3 DEF summarize_slash_info
    <3> QED BY <1>1, <2>1, <3>1 DEF Kept, ZecKept
  <2> QED BY <2>2, <2>3
<1> QED BY <1>1, <1>2, <1>3, <1>4 DEF Kept

LEMMA ReceiveWorkKeeps ==
  ASSUME Kept, NEW m \in DOMAIN calls, Deliver(m), on_receive_workload(m)
  PROVE  /\ Kept' /\ IsWorkCall(m) /\ UNCHANGED <<slashVars, reward_work>>
         /\ zec_tgas' = zec_tgas + m.tgas
         /\ IF activated THEN zec_work' = zec_work (+) m.work /\ early_work' = early_work
                         ELSE early_work' = early_work (+) m.work /\ zec_work' = zec_work
<1>1. BlocksKept' /\ TablesKept' /\ MapsKept' /\ Collected' = Collected /\ CallsKept'
  BY DeliverKeepsTables
<1>2. IsWorkCall(m)
  BY DEF Kept, CallsKept, on_receive_workload, IsSlashCall, IsRewardCall
<1>3. ZecKept' /\ UNCHANGED <<slashVars, reward_work>>
  BY <1>1 DEF Kept, ZecKept, on_receive_workload, Deliver, slashVars
<1>4. /\ zec_tgas' = zec_tgas + m.tgas
      /\ work_taken' = [work_taken EXCEPT ![m.table] = m.height]
      /\ IF activated THEN zec_work' = zec_work (+) m.work /\ early_work' = early_work
                      ELSE early_work' = early_work (+) m.work /\ zec_work' = zec_work
  BY <1>2 DEF on_receive_workload, IsWorkCall, last_read_height, update_workload
<1>5. WorkKept'
  <2>1. IsABag(zec_work (+) m.work) /\ IsABag(early_work (+) m.work)
    BY <1>2, PlusType DEF Kept, WorkKept, IsWorkCall
  <2>2. IsABag(zec_work') /\ IsABag(early_work') /\ IsABag(reward_work')
    BY <1>3, <1>4, <2>1 DEF Kept, WorkKept
  <2>3. zec_tgas' \in Int /\ work_taken' \in [Table -> Nat]
    BY <1>2, <1>4 DEF Kept, WorkKept, IsWorkCall
  <2>4. activated' = activated
    BY DEF Deliver
  <2> QED BY <2>2, <2>3, <2>4 DEF Kept, WorkKept
<1> QED BY <1>1, <1>2, <1>3, <1>4, <1>5 DEF Kept

LEMMA CalculateKeeps ==
  ASSUME Kept, NEW m \in DOMAIN calls, Deliver(m), calculate_reward(m)
  PROVE  /\ Kept' /\ IsRewardCall(m) /\ UNCHANGED <<slashVars, workVars>>
         /\ reward_work' = reward_work (+) m.work
<1>1. BlocksKept' /\ TablesKept' /\ MapsKept' /\ Collected' = Collected /\ CallsKept'
  BY DeliverKeepsTables
<1>2. IsRewardCall(m)
  BY DEF Kept, CallsKept, calculate_reward, IsSlashCall, IsWorkCall
<1>3. UNCHANGED <<slashVars, workVars, activated, time>> /\ reward_work' = reward_work (+) m.work
  BY DEF calculate_reward, Deliver
<1>4. ZecKept'
  BY <1>1, <1>3 DEF Kept, ZecKept, slashVars
<1>5. WorkKept'
  <2>1. IsABag(reward_work')
    BY <1>2, <1>3, PlusType DEF Kept, WorkKept, IsRewardCall
  <2> QED BY <1>3, <2>1 DEF Kept, WorkKept, workVars
<1> QED BY <1>1, <1>2, <1>3, <1>4, <1>5 DEF Kept

\* The part of a round that is there when it is decided.
LEMMA PresentType ==
  ASSUME Kept
  PROVE  Present.num \in Nat /\ Present.blocks \subseteq Collected
BY DEF Kept, ZecKept, Present

LEMMA RoundKeeps ==
  ASSUME Kept, do_unqualified_node_slash
  PROVE  /\ Kept' /\ Collected' = Collected
         /\ UNCHANGED <<block, tableVars, calls, summarized, workVars, reward_work, activated, time>>
<1>1. UNCHANGED <<block, tableVars, calls, summarized, workVars, reward_work, activated, time>>
  BY DEF do_unqualified_node_slash
<1>2. BlocksKept' /\ TablesKept' /\ MapsKept' /\ Collected' = Collected
  BY <1>1, TablesUntouched
<1>3. CallsKept'
  BY <1>1, <1>2 DEF Kept, CallsKept, IsSlashCall, IsWorkCall, IsRewardCall
<1>4. WorkKept'
  BY <1>1 DEF Kept, WorkKept, workVars
<1>5. ZecKept'
  <2>1. tableblock_num' \in Nat /\ counted' \subseteq Collected
    BY PresentType DEF do_unqualified_node_slash
  <2>2. (\E actions : Judge(actions)) \/ Wait
    BY DEF do_unqualified_node_slash
  <2>3. last_slash_time' \in Nat /\ last_slash_time' <= time
    <3>1. last_slash_time' = time \/ last_slash_time' = last_slash_time
      BY <2>2 DEF Judge, Wait
    <3> QED BY <3>1 DEF Kept, ZecKept
  <2>5. slash_delete' \in BOOLEAN
    BY <2>2 DEF Judge, Wait
  <2>4. \A r \in rounds' : r.blocks \subseteq Collected
    BY <2>2, PresentType DEF Judge, Wait, Kept, ZecKept
  <2> QED BY <1>1, <1>2, <2>1, <2>3, <2>4, <2>5 DEF Kept, ZecKept
<1> QED BY <1>1, <1>2, <1>3, <1>4, <1>5 DEF Kept

LEMMA TimerKeeps ==
  ASSUME Kept, workload_on_timer
  PROVE  /\ Kept' /\ Collected' = Collected /\ zec_work' = EmptyBag
         /\ UNCHANGED <<block, tableVars, slashVars, zec_tgas, early_work, work_taken, reward_work,
                        activated, time>>
<1>1. /\ zec_work' = EmptyBag
      /\ UNCHANGED <<block, tableVars, slashVars, zec_tgas, early_work, work_taken, reward_work,
                     activated, time>>
  BY DEF workload_on_timer
<1>2. BlocksKept' /\ TablesKept' /\ MapsKept' /\ Collected' = Collected
  BY <1>1, TablesUntouched
<1>3. CallsKept'
  <2> DEFINE m == [type |-> "reward", work |-> zec_work]
             D == {m}
  <2>1. IsRewardCall(m)
    BY DEF IsRewardCall, Kept, WorkKept
  <2>2. IsFiniteSet(D)
    BY FS_Singleton
  <2>3. calls' = Sending(D) \/ calls' = calls
    BY DEF workload_on_timer
  <2>4. \A c \in D : IsRewardCall(c)
    BY <2>1
  <2> HIDE DEF D
  <2>5. /\ IsABag(calls') /\ IsFiniteSet(DOMAIN calls') /\ DOMAIN calls' \subseteq DOMAIN calls \cup D
    BY <2>2, <2>3, SendingAdds DEF Kept, CallsKept
  <2>6. \A c \in DOMAIN calls' : IsSlashCall(c) \/ IsWorkCall(c) \/ IsRewardCall(c)
    BY <2>4, <2>5 DEF Kept, CallsKept
  <2> QED BY <1>2, <2>5, <2>6 DEF CallsKept, IsSlashCall, IsWorkCall, IsRewardCall
<1>4. ZecKept' /\ WorkKept'
  BY <1>1, <1>2, NoCopies DEF Kept, ZecKept, WorkKept, slashVars
<1> QED BY <1>1, <1>2, <1>3, <1>4 DEF Kept

\* A table's next full block is above all its blocks.
LEMMA NextBlockIsNew ==
  ASSUME BlocksKept, NEW t \in Table
  PROVE  LET D == DOMAIN block[t]
             h == (Cardinality(D) + 1) * FullInterval
         IN  /\ h \in Nat \ {0} /\ h \notin D /\ IsFiniteSet(D \cup {h})
             /\ h <= Cardinality(D \cup {h}) * FullInterval
             /\ \A k \in D : k <= Cardinality(D \cup {h}) * FullInterval
<1> DEFINE D == DOMAIN block[t]
           n == Cardinality(D)
           h == (n + 1) * FullInterval
<1>1. FullInterval \in Nat \ {0} /\ IsFiniteSet(D)
  BY NumberAssumption DEF BlocksKept
<1>2. n \in Nat
  BY <1>1, FS_CardinalityType
<1>3. \A k \in D : k \in Nat /\ k <= n * FullInterval
  BY DEF BlocksKept
<1> HIDE DEF D, n
<1>4. n * FullInterval \in Nat /\ (n + 1) * FullInterval = n * FullInterval + FullInterval
  BY <1>1, <1>2
<1>5. h \in Nat \ {0} /\ h = n * FullInterval + FullInterval
  BY <1>1, <1>4
<1> HIDE DEF h
<1>6. h \notin D
  BY <1>1, <1>3, <1>4, <1>5
<1>7. IsFiniteSet(D \cup {h}) /\ Cardinality(D \cup {h}) = n + 1
  BY <1>1, <1>6, FS_AddElement DEF n
<1>8. h = Cardinality(D \cup {h}) * FullInterval
  BY <1>7 DEF h
<1>9. \A k \in D : k <= Cardinality(D \cup {h}) * FullInterval
  BY <1>1, <1>3, <1>4, <1>5, <1>8
<1>10. h <= h
  BY <1>5
<1> QED BY <1>5, <1>6, <1>7, <1>8, <1>9, <1>10 DEF h, n, D

LEMMA ProduceKeeps ==
  ASSUME Kept, NEW t \in Table, NEW c \in Contents, Produce(t, c)
  PROVE  /\ Kept' /\ Collected' = Collected
         /\ \A b \in Collected : block'[b[1]][b[2]] = block[b[1]][b[2]]
         /\ UNCHANGED <<tableVars, calls, slashVars, workVars, reward_work, activated, time>>
<1> DEFINE D == DOMAIN block[t]
           h == (Cardinality(D) + 1) * FullInterval
<1>1. /\ block' = [block EXCEPT ![t] = [k \in DOMAIN @ \cup {h} |-> IF k = h THEN c ELSE @[k]]]
      /\ UNCHANGED <<tableVars, calls, slashVars, workVars, reward_work, activated, time>>
  BY DEF Produce
<1>2. /\ h \in Nat \ {0} /\ h \notin D /\ IsFiniteSet(D \cup {h})
      /\ h <= Cardinality(D \cup {h}) * FullInterval
      /\ \A k \in D : k <= Cardinality(D \cup {h}) * FullInterval
  BY NextBlockIsNew DEF Kept
<1> HIDE DEF h
<1>3. /\ block' = [u \in Table |-> block'[u]]
      /\ DOMAIN block'[t] = D \cup {h} /\ block'[t][h] = c
      /\ \A k \in D : block'[t][k] = block[t][k]
      /\ \A u \in Table : u # t => block'[u] = block[u]
  BY <1>1, <1>2 DEF Kept, MapsKept
<1>4. BlocksKept'
  <2> SUFFICES ASSUME NEW u \in Table
               PROVE  /\ IsFiniteSet(DOMAIN block'[u])
                      /\ \A k \in DOMAIN block'[u] :
                           /\ k \in Nat \ {0}
                           /\ k <= Cardinality(DOMAIN block'[u]) * FullInterval
                           /\ block'[u][k] \in Contents
    BY DEF BlocksKept
  <2>1. CASE u # t
    BY <1>3, <2>1 DEF Kept, BlocksKept
  <2>2. CASE u = t
    <3>1. \A k \in D : k \in Nat \ {0} /\ block[t][k] \in Contents
      BY DEF Kept, BlocksKept
    <3> HIDE DEF D
    <3> QED BY <1>2, <1>3, <2>2, <3>1
  <2> QED BY <2>1, <2>2
<1>5. Collected' = Collected
  BY <1>1 DEF tableVars, Collected
<1>6. TablesKept'
  <2>1. \A u \in Table : DOMAIN block[u] \subseteq DOMAIN block'[u]
    BY <1>3
  <2> QED BY <1>1, <2>1 DEF Kept, TablesKept, tableVars
<1>7. MapsKept'
  BY <1>1, <1>3 DEF Kept, MapsKept, tableVars
<1>8. CallsKept' /\ ZecKept' /\ WorkKept'
  BY <1>1, <1>5 DEF Kept, CallsKept, ZecKept, WorkKept, slashVars, workVars,
     IsSlashCall, IsWorkCall, IsRewardCall
<1>9. \A b \in Collected : block'[b[1]][b[2]] = block[b[1]][b[2]]
  <2> SUFFICES ASSUME NEW b \in Collected PROVE block'[b[1]][b[2]] = block[b[1]][b[2]]
    OBVIOUS
  <2>0. PICK u \in Table : \E k \in collected[u] : b = <<u, k>>
    BY CollectedMembers
  <2>1. PICK k \in collected[u] : b = <<u, k>>
    BY <2>0
  <2>2. k \in DOMAIN block[u]
    BY <2>1 DEF Kept, TablesKept
  <2>3. block'[u][k] = block[u][k]
    BY <1>3, <2>2
  <2> QED BY <2>1, <2>3
<1> QED BY <1>1, <1>4, <1>5, <1>6, <1>7, <1>8, <1>9 DEF Kept

LEMMA OthersKeep ==
  ASSUME Kept, Activate \/ Tick \/ UNCHANGED vars
  PROVE  /\ Kept' /\ Collected' = Collected
         /\ UNCHANGED <<block, tableVars, calls, slashVars, workVars, reward_work>>
<1>1. UNCHANGED <<block, tableVars, calls, slashVars, workVars, reward_work>>
  BY DEF Activate, Tick, vars
<1>2. BlocksKept' /\ TablesKept' /\ MapsKept' /\ Collected' = Collected
  BY <1>1, TablesUntouched
<1>3. CallsKept'
  BY <1>1, <1>2 DEF Kept, CallsKept, IsSlashCall, IsWorkCall, IsRewardCall
<1>4. time' \in Nat /\ time <= time'
  BY DEF Activate, Tick, vars, Kept, ZecKept
<1>5. activated' \in BOOLEAN
  BY DEF Activate, Tick, vars, Kept, WorkKept
<1>6. ZecKept'
  BY <1>1, <1>2, <1>4 DEF Kept, ZecKept, slashVars
<1>7. WorkKept'
  BY <1>1, <1>5 DEF Kept, WorkKept, workVars
<1> QED BY <1>1, <1>2, <1>3, <1>6, <1>7 DEF Kept

LEMMA NextKeeps == Kept /\ [Next]_vars => Kept'
<1> SUFFICES ASSUME Kept, [Next]_vars PROVE Kept'
  OBVIOUS
<1>1. ASSUME NEW t \in Table, NEW h \in DOMAIN block[t], on_collect_statistic_info(t, h)
      PROVE  Kept'
  BY <1>1, CollectKeeps
<1>2. ASSUME NEW t \in Table, report_summarized_statistic_info(t) PROVE Kept'
  BY <1>2, ReportKeeps
<1>3. ASSUME NEW m \in DOMAIN calls, Deliver(m) PROVE Kept'
  BY <1>3, SummarizeKeeps, ReceiveWorkKeeps, CalculateKeeps DEF Deliver
<1>4. CASE do_unqualified_node_slash
  BY <1>4, RoundKeeps
<1>5. CASE workload_on_timer
  BY <1>5, TimerKeeps
<1>6. ASSUME NEW t \in Table, NEW c \in Contents, Produce(t, c) PROVE Kept'
  BY <1>6, ProduceKeeps
<1>7. CASE Activate \/ Tick \/ UNCHANGED vars
  BY <1>7, OthersKeep
<1> QED BY <1>1, <1>2, <1>3, <1>4, <1>5, <1>6, <1>7 DEF Next, Collect, Report, Receive, Grow, BagToSet

-----------------------------------------------------------------------------
(***************************************************************************)
(* Whose signatures are where.                                             *)
(***************************************************************************)
\* What is summed up at the tables, on the way and at ZEC, is of known blocks.
SumsKept ==
  /\ info = InfoOf(counted)
  /\ \A t \in Table : unqualified[t] = InfoOf({t} \X pending[t])
  /\ \A m \in SlashCalls : m.info = InfoOf(m.blocks)

\* The blocks of the rounds so far.
Judged == UNION {r.blocks : r \in rounds}

\* No block is in two sums, and none that was judged is in a sum that is still to be
\* judged by.
BlocksApart ==
  /\ \A t \in Table : ({t} \X pending[t]) \cap (counted \cup Judged) = {}
  /\ \A m \in SlashCalls :
       /\ calls[m] = 1
       /\ m.blocks \cap (counted \cup Judged) = {}
       /\ \A t \in Table : m.blocks \cap ({t} \X pending[t]) = {}
       /\ \A n \in SlashCalls : m # n => m.blocks \cap n.blocks = {}
  /\ Present.blocks \cap Judged = {}

\* A round was decided by the signatures of its blocks.
RoundsKept ==
  \A r \in rounds : r.info = InfoOf(r.blocks) /\ r.actions \in filter_nodes(r.info)

Signatures == SumsKept /\ BlocksApart /\ RoundsKept

LEMMA InitSignatures == Init => Signatures
<1> SUFFICES ASSUME Init PROVE Signatures
  OBVIOUS
<1>1. SlashCalls = {}
  BY DEF Init, SlashCalls, EmptyBag, SetToBag, BagToSet
<1>2. \A t \in Table : {t} \X pending[t] = {}
  BY DEF Init
<1>3. counted = {} /\ rounds = {} /\ info = NoInfo /\ \A t \in Table : unqualified[t] = NoInfo
  BY DEF Init
<1>4. SumsKept
  BY <1>1, <1>2, <1>3, InfoOfNone DEF SumsKept
<1>5. Judged = {}
  BY <1>3 DEF Judged
<1>6. Present.blocks \cap Judged = {}
  BY <1>5
<1>7. BlocksApart
  BY <1>1, <1>2, <1>3, <1>5, <1>6 DEF BlocksApart
<1>8. RoundsKept
  BY <1>3 DEF RoundsKept
<1> QED BY <1>4, <1>7, <1>8 DEF Signatures

\* The blocks of all sums and rounds have been collected.
LEMMA SumsOfCollected ==
  ASSUME Kept
  PROVE  /\ counted \subseteq Collected /\ Judged \subseteq Collected
         /\ Present.blocks \subseteq Collected
         /\ \A t \in Table : {t} \X pending[t] \subseteq Collected
         /\ \A m \in SlashCalls : IsSlashCall(m) /\ m.blocks \subseteq Collected
         /\ \A S \in SUBSET Collected : AreBlocks(S)
<1>1. /\ \A t \in Table : {t} \X pending[t] \subseteq Collected
      /\ \A S \in SUBSET Collected : AreBlocks(S)
  BY CollectedBlocks DEF Kept
<1>2. counted \subseteq Collected /\ Judged \subseteq Collected
  BY DEF Kept, ZecKept, Judged
<1>3. \A m \in SlashCalls : IsSlashCall(m) /\ m.blocks \subseteq Collected
  BY DEF Kept, CallsKept, SlashCalls, BagToSet, IsSlashCall, IsWorkCall, IsRewardCall
<1> QED BY <1>1, <1>2, <1>3, PresentType

LEMMA CollectSignatures ==
  ASSUME Kept, Signatures, NEW t \in Table, NEW h \in DOMAIN block[t],
         on_collect_statistic_info(t, h)
  PROVE  Signatures'
<1> DEFINE b == <<t, h>>
           D == {b}
           P == {t} \X pending[t]
<1>1. b \notin Collected
  <2>1. h \notin collected[t]
    BY CollectKeeps
  <2> QED BY <2>1, CollectedMembers
<1>2. /\ unqualified' = [unqualified EXCEPT ![t] = accumulate_node_info(@, block[t][h].info)]
      /\ pending' = [pending EXCEPT ![t] = @ \cup {h}]
      /\ UNCHANGED <<block, calls, slashVars>>
  BY DEF on_collect_statistic_info
<1>3. SlashCalls' = SlashCalls /\ Judged' = Judged /\ Present' = Present
  BY <1>2 DEF SlashCalls, Judged, Present, slashVars
<1>4. /\ {t} \X pending'[t] = P \cup D
      /\ unqualified'[t] = accumulate_node_info(unqualified[t], block[t][h].info)
      /\ \A u \in Table : u # t => pending'[u] = pending[u] /\ unqualified'[u] = unqualified[u]
  BY <1>2 DEF Kept, MapsKept
<1>5. \A S : InfoOf(S)' = InfoOf(S)
  BY <1>2, InfoStays
<1>6. InfoOf(P \cup D) = accumulate_node_info(unqualified[t], block[t][h].info)
  <2>1. block[t][h] \in Contents
    BY DEF Kept, BlocksKept
  <2>2. AreBlocks(D) /\ InfoOf(D) = [block_count |-> block[t][h].info.block_count,
                                     subset_count |-> block[t][h].info.subset_count]
    BY <2>1, InfoOfOne
  <2>3. AreBlocks(P) /\ P \cap D = {}
    BY <1>1, SumsOfCollected
  <2>4. InfoOf(P) = unqualified[t]
    BY DEF Signatures, SumsKept
  <2> HIDE DEF P, D, b
  <2>5. InfoOf(P \cup D) = accumulate_node_info(InfoOf(P), InfoOf(D))
    BY <2>2, <2>3, InfoOfBoth
  <2> QED BY <2>2, <2>4, <2>5 DEF accumulate_node_info
<1>7. SumsKept'
  <2>1. info' = InfoOf(counted)'
    BY <1>2, <1>5 DEF Signatures, SumsKept, slashVars
  <2>2. ASSUME NEW u \in Table PROVE unqualified'[u] = InfoOf({u} \X pending[u])'
    <3>1. CASE u = t
      BY <1>4, <1>5, <1>6, <3>1
    <3>2. CASE u # t
      BY <1>4, <1>5, <3>2 DEF Signatures, SumsKept
    <3> QED BY <3>1, <3>2
  <2>3. \A m \in SlashCalls' : m.info = InfoOf(m.blocks)'
    BY <1>3, <1>5 DEF Signatures, SumsKept
  <2> QED BY <2>1, <2>2, <2>3 DEF SumsKept
<1>8. BlocksApart'
  <2>1. \A S \in SUBSET Collected : S \cap D = {}
    BY <1>1
  <2>2. \A u \in Table : {u} \X pending'[u] \subseteq ({u} \X pending[u]) \cup D
    BY <1>4
  <2>3. counted \cup Judged \subseteq Collected /\ \A m \in SlashCalls : m.blocks \subseteq Collected
    BY SumsOfCollected
  <2>4. calls' = calls /\ counted' = counted
    BY <1>2 DEF slashVars
  <2> HIDE DEF D
  <2>5. \A u \in Table : ({u} \X pending'[u]) \cap (counted \cup Judged) = {}
    BY <2>1, <2>2, <2>3 DEF Signatures, BlocksApart
  <2>6. \A m \in SlashCalls : \A u \in Table : m.blocks \cap ({u} \X pending'[u]) = {}
    BY <2>1, <2>2, <2>3 DEF Signatures, BlocksApart
  <2> QED BY <1>3, <2>4, <2>5, <2>6 DEF Signatures, BlocksApart
<1>9. RoundsKept'
  BY <1>2, <1>5 DEF Signatures, RoundsKept, slashVars
<1> QED BY <1>7, <1>8, <1>9 DEF Signatures

\* The slash calls on their way are those with as many copies as before.
LEMMA SlashCallsStay ==
  ASSUME IsABag(calls), IsABag(calls'),
         \A m : m.type = "slash" => Copies(m, calls') = Copies(m, calls)
  PROVE  SlashCalls' = SlashCalls /\ \A m \in SlashCalls : calls'[m] = calls[m]
<1>1. \A m : /\ m \in DOMAIN calls <=> Copies(m, calls) # 0
             /\ m \in DOMAIN calls' <=> Copies(m, calls') # 0
  BY CopiesType
<1>2. \A m : m.type = "slash" => (m \in DOMAIN calls <=> m \in DOMAIN calls')
  BY <1>1
<1>3. SlashCalls' = SlashCalls
  BY <1>2 DEF SlashCalls, BagToSet
<1>4. \A m \in SlashCalls : m.type = "slash" /\ m \in DOMAIN calls /\ m \in DOMAIN calls'
  BY <1>2 DEF SlashCalls, BagToSet
<1>5. \A m \in SlashCalls : calls'[m] = calls[m]
  BY <1>4 DEF Copies, BagIn, BagToSet
<1> QED BY <1>3, <1>5

LEMMA ReportSignatures ==
  ASSUME Kept, Signatures, NEW t \in Table, report_summarized_statistic_info(t)
  PROVE  Signatures'
<1> DEFINE s == SlashReport(t)
           P == {t} \X pending[t]
<1>1. /\ fulltable_num[t] # 0
      /\ unqualified' = [unqualified EXCEPT ![t] = NoInfo]
      /\ pending' = [pending EXCEPT ![t] = {}]
      /\ UNCHANGED <<block, slashVars>>
  BY DEF report_summarized_statistic_info
<1>2. /\ s.type = "slash" /\ s.blocks = P /\ s.info = unqualified[t]
      /\ <<t, fulltable_height[t]>> \in P
  BY <1>1, ReportedCalls
<1>3. /\ IsABag(calls') /\ DOMAIN calls' = DOMAIN calls \cup ReportOf(t)
      /\ \A m : Copies(m, calls') = Copies(m, calls) + IF m \in ReportOf(t) THEN 1 ELSE 0
  BY ReportKeeps, SendingAdds DEF Kept, CallsKept
<1>4. s \in ReportOf(t) /\ \A m \in ReportOf(t) : m.type = "slash" => m = s
  BY <1>1, ReportedCalls DEF ReportOf
<1>5. /\ pending'[t] = {} /\ unqualified'[t] = NoInfo
      /\ \A u \in Table : u # t => pending'[u] = pending[u] /\ unqualified'[u] = unqualified[u]
  BY <1>1 DEF Kept, MapsKept
<1>6. Judged' = Judged /\ Present' = Present /\ counted' = counted /\ info' = info /\ rounds' = rounds
  BY <1>1 DEF Judged, Present, slashVars
<1>7. \A S : InfoOf(S)' = InfoOf(S)
  BY <1>1, InfoStays
<1>8. InfoOf(P) = unqualified[t] /\ InfoOf({}) = NoInfo
  BY InfoOfNone DEF Signatures, SumsKept
<1>9. \A m \in SlashCalls : m.blocks \cap P = {}
  BY DEF Signatures, BlocksApart
<1> HIDE DEF s, P
<1>10. s \notin SlashCalls
  BY <1>2, <1>9
<1>11. SlashCalls' = SlashCalls \cup {s}
  BY <1>2, <1>3, <1>4 DEF SlashCalls, BagToSet
<1>12. calls'[s] = 1
  <2>1. s \notin DOMAIN calls
    BY <1>2, <1>10 DEF SlashCalls, BagToSet
  <2>2. Copies(s, calls) = 0 /\ Copies(s, calls') = calls'[s]
    BY <1>3, <1>4, <2>1 DEF Copies, BagIn, BagToSet
  <2> QED BY <1>3, <1>4, <2>2
<1>13. \A m \in SlashCalls : calls'[m] = calls[m]
  <2> SUFFICES ASSUME NEW m \in SlashCalls PROVE calls'[m] = calls[m]
    OBVIOUS
  <2>1. m \in DOMAIN calls /\ m \notin ReportOf(t) /\ m \in DOMAIN calls'
    BY <1>3, <1>4, <1>10 DEF SlashCalls, BagToSet
  <2>2. Copies(m, calls) = calls[m] /\ Copies(m, calls') = calls'[m]
    BY <2>1 DEF Copies, BagIn, BagToSet
  <2>3. calls[m] \in Nat
    BY <2>1 DEF Kept, CallsKept, IsABag
  <2> QED BY <1>3, <2>1, <2>2, <2>3
<1>14. SumsKept'
  <2>1. info' = InfoOf(counted)'
    BY <1>6, <1>7 DEF Signatures, SumsKept
  <2>2. ASSUME NEW u \in Table PROVE unqualified'[u] = InfoOf({u} \X pending[u])'
    <3>1. CASE u = t
      <4>1. {u} \X pending'[u] = {}
        BY <1>5, <3>1
      <4> QED BY <1>5, <1>7, <1>8, <3>1, <4>1
    <3>2. CASE u # t
      BY <1>5, <1>7, <3>2 DEF Signatures, SumsKept
    <3> QED BY <3>1, <3>2
  <2>3. ASSUME NEW m \in SlashCalls' PROVE m.info = InfoOf(m.blocks)'
    <3>1. m.info = InfoOf(m.blocks)
      BY <1>2, <1>8, <1>11 DEF Signatures, SumsKept
    <3> QED BY <1>7, <3>1
  <2> QED BY <2>1, <2>2, <2>3 DEF SumsKept
<1>15. BlocksApart'
  <2>1. \A u \in Table : /\ {u} \X pending'[u] \subseteq {u} \X pending[u]
                         /\ P \cap ({u} \X pending'[u]) = {}
    BY <1>5 DEF P
  <2>2. P \cap (counted \cup Judged) = {}
    BY DEF P, Signatures, BlocksApart
  <2>3. \A u \in Table : ({u} \X pending'[u]) \cap (counted \cup Judged) = {}
    BY <2>1 DEF Signatures, BlocksApart
  <2>4. \A m \in SlashCalls' :
          /\ calls'[m] = 1
          /\ m.blocks \cap (counted \cup Judged) = {}
    BY <1>2, <1>11, <1>12, <1>13, <2>2 DEF Signatures, BlocksApart
  <2>5. \A m \in SlashCalls' : \A u \in Table : m.blocks \cap ({u} \X pending'[u]) = {}
    BY <1>2, <1>11, <2>1 DEF Signatures, BlocksApart
  <2>6. \A m, n \in SlashCalls' : m # n => m.blocks \cap n.blocks = {}
    BY <1>2, <1>9, <1>11 DEF Signatures, BlocksApart
  <2> QED BY <1>6, <2>3, <2>4, <2>5, <2>6 DEF Signatures, BlocksApart
<1>16. RoundsKept'
  BY <1>6, <1>7 DEF Signatures, RoundsKept
<1> QED BY <1>14, <1>15, <1>16 DEF Signatures

\* What has been sent by the time of a step that leaves tables and sums alone.
LEMMA SignaturesStay ==
  ASSUME Signatures, UNCHANGED <<tableVars, slashVars>>, SlashCalls' = SlashCalls,
         \A m \in SlashCalls : calls'[m] = calls[m],
         \A S \in SUBSET Collected : InfoOf(S)' = InfoOf(S), Kept
  PROVE  Signatures'
<1>1. /\ info' = info /\ counted' = counted /\ rounds' = rounds
      /\ Judged' = Judged /\ Present' = Present
      /\ unqualified' = unqualified /\ pending' = pending
  BY DEF slashVars, tableVars, Judged, Present
<1>2. /\ counted \subseteq Collected /\ \A t \in Table : {t} \X pending[t] \subseteq Collected
      /\ \A m \in SlashCalls : m.blocks \subseteq Collected
      /\ \A r \in rounds : r.blocks \subseteq Collected
  BY SumsOfCollected DEF Kept, ZecKept
<1>3. SumsKept'
  <2>1. info' = InfoOf(counted)'
    BY <1>1, <1>2 DEF Signatures, SumsKept
  <2>2. ASSUME NEW u \in Table PROVE unqualified'[u] = InfoOf({u} \X pending[u])'
    BY <1>1, <1>2 DEF Signatures, SumsKept
  <2>3. \A m \in SlashCalls : m.info = InfoOf(m.blocks)'
    BY <1>2 DEF Signatures, SumsKept
  <2> QED BY <2>1, <2>2, <2>3 DEF SumsKept
<1>4. BlocksApart'
  BY <1>1 DEF Signatures, BlocksApart
<1>5. RoundsKept'
  BY <1>1, <1>2 DEF Signatures, RoundsKept
<1> QED BY <1>3, <1>4, <1>5 DEF Signatures

LEMMA SummarizeSignatures ==
  ASSUME Kept, Signatures, NEW m \in DOMAIN calls, Deliver(m), summarize_slash_info(m)
  PROVE  Signatures'
<1>1. IsSlashCall(m) /\ m \in SlashCalls /\ calls[m] = 1
  BY SummarizeKeeps DEF IsSlashCall, SlashCalls, BagToSet, Signatures, BlocksApart
<1>2. /\ IsABag(calls') /\ DOMAIN calls' \subseteq DOMAIN calls
      /\ \A k \in DOMAIN calls : k # m => k \in DOMAIN calls' /\ calls'[k] = calls[k]
      /\ Copies(m, calls') = calls[m] - 1
  BY WithoutRemoves DEF Kept, CallsKept, Deliver
<1>3. m \notin DOMAIN calls'
  BY <1>1, <1>2, CopiesType
<1>4. SlashCalls' = SlashCalls \ {m} /\ \A k \in SlashCalls' : calls'[k] = calls[k]
  BY <1>2, <1>3 DEF SlashCalls, BagToSet
<1>5. UNCHANGED <<block, tableVars, slash_delete, rounds>>
  BY DEF Deliver, summarize_slash_info
<1>6. \A S : InfoOf(S)' = InfoOf(S)
  BY <1>5, InfoStays
<1>7. \/ counted' = counted \cup m.blocks /\ info' = accumulate_node_info(info, m.info)
      \/ counted' = counted /\ info' = info
  BY DEF summarize_slash_info
<1>8. Judged' = Judged /\ m.blocks \cap (counted \cup Judged) = {}
  BY <1>1, <1>5 DEF Judged, Signatures, BlocksApart
<1>9. info' = InfoOf(counted)'
  <2>1. info = InfoOf(counted) /\ m.info = InfoOf(m.blocks)
    BY <1>1 DEF Signatures, SumsKept
  <2>2. AreBlocks(counted) /\ AreBlocks(m.blocks)
    BY <1>1, SumsOfCollected
  <2>3. InfoOf(counted \cup m.blocks) = accumulate_node_info(info, m.info)
    BY <1>8, <2>1, <2>2, InfoOfBoth
  <2> QED BY <1>6, <1>7, <2>1, <2>3
<1>10. SumsKept'
  <2>1. \A t \in Table : unqualified'[t] = InfoOf({t} \X pending[t])'
    BY <1>5, <1>6 DEF tableVars, Signatures, SumsKept
  <2>2. \A k \in SlashCalls' : k.info = InfoOf(k.blocks)'
    BY <1>4, <1>6 DEF Signatures, SumsKept
  <2> QED BY <1>9, <2>1, <2>2 DEF SumsKept
<1>11. BlocksApart'
  <2>1. pending' = pending /\ counted' \subseteq counted \cup m.blocks
    BY <1>5, <1>7 DEF tableVars
  <2>2. \A t \in Table : ({t} \X pending[t]) \cap (counted' \cup Judged) = {}
    BY <1>1, <2>1 DEF Signatures, BlocksApart
  <2>3. \A k \in SlashCalls' : k.blocks \cap (counted' \cup Judged) = {} /\ calls'[k] = 1
    BY <1>1, <1>4, <2>1 DEF Signatures, BlocksApart
  <2>4. Present'.blocks \cap Judged = {}
    <3>1. CASE slash_delete
      BY <1>5, <3>1 DEF Present
    <3>2. CASE ~ slash_delete
      <4>1. Present.blocks = counted /\ Present'.blocks = counted'
        BY <1>5, <3>2 DEF Present
      <4> QED BY <1>8, <2>1, <4>1 DEF Signatures, BlocksApart
    <3> QED BY <3>1, <3>2
  <2> QED BY <1>4, <1>8, <2>1, <2>2, <2>3, <2>4 DEF Signatures, BlocksApart
<1>12. RoundsKept'
  BY <1>5, <1>6 DEF Signatures, RoundsKept
<1> QED BY <1>10, <1>11, <1>12 DEF Signatures

LEMMA RoundSignatures ==
  ASSUME Kept, Signatures, do_unqualified_node_slash
  PROVE  Signatures'
<1>1. /\ UNCHANGED <<block, tableVars, calls>>
      /\ info' = Present.info /\ counted' = Present.blocks
  BY DEF do_unqualified_node_slash
<1>2. \A S : InfoOf(S)' = InfoOf(S)
  BY <1>1, InfoStays
<1>3. SlashCalls' = SlashCalls
  BY <1>1 DEF SlashCalls
<1>4. Present.info = InfoOf(Present.blocks) /\ Present.blocks \subseteq counted
  BY InfoOfNone DEF Present, Signatures, SumsKept
<1>5. \/ /\ slash_delete' = FALSE /\ rounds' = rounds
      \/ /\ slash_delete' = TRUE
         /\ \E a \in filter_nodes(Present.info) :
              rounds' = rounds \cup {[time |-> time, heights |-> Heights, info |-> Present.info,
                                      blocks |-> Present.blocks, actions |-> a]}
  BY DEF do_unqualified_node_slash, Judge, Wait
<1>6. \/ Judged' = Judged
      \/ Judged' = Judged \cup Present.blocks /\ slash_delete' = TRUE
  <2>1. CASE rounds' = rounds
    BY <2>1 DEF Judged
  <2>2. ASSUME slash_delete' = TRUE, NEW a,
               rounds' = rounds \cup {[time |-> time, heights |-> Heights, info |-> Present.info,
                                       blocks |-> Present.blocks, actions |-> a]}
        PROVE  Judged' = Judged \cup Present.blocks
    <3> DEFINE r == [time |-> time, heights |-> Heights, info |-> Present.info,
                     blocks |-> Present.blocks, actions |-> a]
    <3>1. r.blocks = Present.blocks
      OBVIOUS
    <3> HIDE DEF r
    <3>2. rounds' = rounds \cup {r}
      BY <2>2 DEF r
    <3> QED BY <3>1, <3>2 DEF Judged
  <2> QED BY <1>5, <2>1, <2>2
<1>7. SumsKept'
  <2>1. info' = InfoOf(counted)'
    BY <1>1, <1>2, <1>4
  <2>2. \A t \in Table : unqualified'[t] = InfoOf({t} \X pending[t])'
    BY <1>1, <1>2 DEF tableVars, Signatures, SumsKept
  <2>3. \A m \in SlashCalls' : m.info = InfoOf(m.blocks)'
    BY <1>2, <1>3 DEF Signatures, SumsKept
  <2> QED BY <2>1, <2>2, <2>3 DEF SumsKept
<1>8. BlocksApart'
  <2>1. counted' \cup Judged' \subseteq counted \cup Judged
    BY <1>1, <1>4, <1>6
  <2>2. pending' = pending /\ calls' = calls
    BY <1>1 DEF tableVars
  <2>3. Present'.blocks \cap Judged' = {}
    <3>1. CASE slash_delete' = TRUE
      BY <3>1 DEF Present
    <3>2. CASE slash_delete' = FALSE
      <4>1. Present'.blocks = Present.blocks /\ Judged' = Judged
        BY <1>1, <1>6, <3>2 DEF Present
      <4> QED BY <4>1 DEF Signatures, BlocksApart
    <3> QED BY <1>5, <3>1, <3>2
  <2>4. \A t \in Table : ({t} \X pending[t]) \cap (counted' \cup Judged') = {}
    BY <2>1 DEF Signatures, BlocksApart
  <2>5. \A m \in SlashCalls : m.blocks \cap (counted' \cup Judged') = {}
    BY <2>1 DEF Signatures, BlocksApart
  <2> QED BY <1>3, <2>2, <2>3, <2>4, <2>5 DEF Signatures, BlocksApart
<1>9. RoundsKept'
  <2>1. ASSUME NEW r \in rounds' PROVE r.info = InfoOf(r.blocks) /\ r.actions \in filter_nodes(r.info)
    <3>1. CASE r \in rounds
      BY <3>1 DEF Signatures, RoundsKept
    <3>2. CASE r \notin rounds
      <4>1. PICK a \in filter_nodes(Present.info) :
              r = [time |-> time, heights |-> Heights, info |-> Present.info,
                   blocks |-> Present.blocks, actions |-> a]
        BY <1>5, <2>1, <3>2
      <4>2. r.info = Present.info /\ r.blocks = Present.blocks /\ r.actions = a
        BY <4>1
      <4> QED BY <1>4, <4>2
    <3> QED BY <3>1, <3>2
  <2> QED BY <1>2, <2>1 DEF RoundsKept
<1> QED BY <1>7, <1>8, <1>9 DEF Signatures

LEMMA NextSignatures == Kept /\ Signatures /\ [Next]_vars => Signatures'
<1> SUFFICES ASSUME Kept, Signatures, [Next]_vars PROVE Signatures'
  OBVIOUS
<1>1. ASSUME NEW t \in Table, NEW h \in DOMAIN block[t], on_collect_statistic_info(t, h)
      PROVE  Signatures'
  BY <1>1, CollectSignatures
<1>2. ASSUME NEW t \in Table, report_summarized_statistic_info(t) PROVE Signatures'
  BY <1>2, ReportSignatures
<1>3. ASSUME NEW m \in DOMAIN calls, Deliver(m) PROVE Signatures'
  <2>1. CASE summarize_slash_info(m)
    BY <1>3, <2>1, SummarizeSignatures
  <2>2. CASE on_receive_workload(m) \/ calculate_reward(m)
    <3>1. UNCHANGED <<block, tableVars, slashVars>> /\ m.type # "slash"
      BY <1>3, <2>2 DEF Deliver, on_receive_workload, calculate_reward
    <3>2. /\ IsABag(calls') /\ DOMAIN calls' \subseteq DOMAIN calls
          /\ \A k \in DOMAIN calls : k # m => k \in DOMAIN calls' /\ calls'[k] = calls[k]
      BY <1>3, WithoutRemoves DEF Kept, CallsKept, Deliver
    <3>3. SlashCalls' = SlashCalls /\ \A k \in SlashCalls : calls'[k] = calls[k]
      BY <3>1, <3>2 DEF SlashCalls, BagToSet
    <3>4. \A S : InfoOf(S)' = InfoOf(S)
      BY <3>1, InfoStays
    <3> QED BY <3>1, <3>3, <3>4, SignaturesStay
  <2> QED BY <1>3, <2>1, <2>2 DEF Deliver
<1>4. CASE do_unqualified_node_slash
  BY <1>4, RoundSignatures
<1>5. CASE workload_on_timer
  <2> DEFINE m == [type |-> "reward", work |-> zec_work]
             D == {m}
  <2>1. UNCHANGED <<block, tableVars, slashVars>> /\ (calls' = Sending(D) \/ calls' = calls)
    BY <1>5 DEF workload_on_timer
  <2>2. \A k \in D : k.type # "slash"
    OBVIOUS
  <2>6. IsFiniteSet(D)
    BY FS_Singleton
  <2> HIDE DEF D
  <2>3. /\ IsABag(calls) /\ IsABag(calls')
        /\ \A k : k.type = "slash" => Copies(k, calls') = Copies(k, calls)
    <3>1. CASE calls' = calls
      BY <3>1 DEF Kept, CallsKept
    <3>2. CASE calls' = Sending(D)
      <4>1. /\ IsABag(calls')
            /\ \A k : Copies(k, calls') = Copies(k, calls) + IF k \in D THEN 1 ELSE 0
        BY <2>6, <3>2, SendingAdds DEF Kept, CallsKept
      <4>2. IsABag(calls) /\ \A k : Copies(k, calls) \in Nat
        BY CopiesType DEF Kept, CallsKept
      <4> QED BY <2>2, <4>1, <4>2
    <3> QED BY <2>1, <3>1, <3>2
  <2>4. SlashCalls' = SlashCalls /\ \A k \in SlashCalls : calls'[k] = calls[k]
    BY <2>3, SlashCallsStay
  <2>5. \A S : InfoOf(S)' = InfoOf(S)
    BY <2>1, InfoStays
  <2> QED BY <2>1, <2>4, <2>5, SignaturesStay
<1>6. ASSUME NEW t \in Table, NEW c \in Contents, Produce(t, c) PROVE Signatures'
  <2>1. /\ UNCHANGED <<tableVars, slashVars, calls>>
        /\ \A b \in Collected : block'[b[1]][b[2]] = block[b[1]][b[2]]
    BY <1>6, ProduceKeeps
  <2>2. \A S \in SUBSET Collected : InfoOf(S)' = InfoOf(S)
    BY <2>1, InfoStays
  <2>3. SlashCalls' = SlashCalls
    BY <2>1 DEF SlashCalls
  <2> QED BY <2>1, <2>2, <2>3, SignaturesStay
<1>7. CASE Activate \/ Tick \/ UNCHANGED vars
  <2>1. UNCHANGED <<block, tableVars, calls, slashVars>>
    BY <1>7, OthersKeep
  <2>2. \A S : InfoOf(S)' = InfoOf(S)
    BY <2>1, InfoStays
  <2>3. SlashCalls' = SlashCalls
    BY <2>1 DEF SlashCalls
  <2> QED BY <2>1, <2>2, <2>3, SignaturesStay
<1> QED BY <1>1, <1>2, <1>3, <1>4, <1>5, <1>6, <1>7 DEF Next, Collect, Report, Receive, Grow, BagToSet

LEMMA KeptAlways == Spec => [](Kept /\ Signatures)
<1>1. Init => Kept /\ Signatures
  BY InitKept, InitSignatures
<1>2. Kept /\ Signatures /\ [Next]_vars => (Kept /\ Signatures)'
  BY NextKeeps, NextSignatures
<1> QED BY <1>1, <1>2, PTL DEF Spec

\* The state of the four contracts is well typed: what a table or ZEC has summed up is of
\* nodes in a role, and the blocks it stands for have been collected.
THEOREM TypeCorrect == Spec => []TypeOK
<1>1. Kept /\ Signatures => TypeOK
  <2> SUFFICES ASSUME Kept, Signatures PROVE TypeOK
    OBVIOUS
  <2>1. counted \subseteq Collected /\ \A t \in Table : {t} \X pending[t] \subseteq Collected
    BY SumsOfCollected
  <2>2. AreBlocks(counted) /\ \A t \in Table : AreBlocks({t} \X pending[t])
    BY <2>1, SumsOfCollected
  <2>3. IsInfo(info) /\ \A t \in Table : IsInfo(unqualified[t])
    BY <2>2, InfoType DEF Signatures, SumsKept
  <2>4. \A b \in counted \cup UNION {r.blocks : r \in rounds} :
          b[1] \in Table /\ b[2] \in collected[b[1]]
    <3> SUFFICES ASSUME NEW b \in Collected PROVE b[1] \in Table /\ b[2] \in collected[b[1]]
      BY <2>1 DEF Kept, ZecKept
    <3>0. PICK u \in Table : \E k \in collected[u] : b = <<u, k>>
      BY CollectedMembers
    <3>1. PICK k \in collected[u] : b = <<u, k>>
      BY <3>0
    <3> QED BY <3>1
  <2>5. \A t \in Table : /\ IsInfo(unqualified[t]) /\ IsABag(table_work[t])
                         /\ pending[t] \subseteq collected[t]
                         /\ collected[t] \subseteq DOMAIN block[t]
                         /\ \A h \in DOMAIN block[t] : h \in Nat /\ block[t][h] \in Contents
    BY <2>3 DEF Kept, BlocksKept, TablesKept
  <2>6. /\ fulltable_height \in [Table -> Nat] /\ fulltable_num \in [Table -> Nat]
        /\ table_tgas \in [Table -> Int] /\ IsABag(calls)
    BY DEF Kept, TablesKept, CallsKept
  <2>7. /\ tableblock_num \in Nat /\ summarized \in [Table -> Nat]
        /\ slash_delete \in BOOLEAN /\ last_slash_time \in Nat /\ time \in Nat
    BY DEF Kept, ZecKept
  <2>8. /\ IsABag(zec_work) /\ zec_tgas \in Int /\ IsABag(reward_work) /\ IsABag(early_work)
        /\ activated \in BOOLEAN /\ work_taken \in [Table -> Nat]
    BY DEF Kept, WorkKept
  <2> QED BY <2>3, <2>4, <2>5, <2>6, <2>7, <2>8 DEF TypeOK
<1> QED BY <1>1, KeptAlways, PTL

\* No block's signatures count twice, with any number of tables and blocks: not when a
\* block's call comes again, not when reports overtake each other, and not when a round
\* removes the sum while reports are on their way.
THEOREM SignaturesAlwaysCountOnce == Spec => []SignaturesCountOnce
<1>1. Signatures => SignaturesCountOnce
  <2> SUFFICES ASSUME Signatures PROVE SignaturesCountOnce
    OBVIOUS
  <2> DEFINE T == {{t} \X pending[t] : t \in Table}
             M == {m.blocks : m \in SlashCalls}
             pools == {counted} \cup T \cup M
  <2>1. \A p, q \in T : p # q => p \cap q = {}
    OBVIOUS
  <2>2. \A p, q \in M : p # q => p \cap q = {}
    BY DEF Signatures, BlocksApart
  <2>3. \A p \in T : p \cap counted = {} /\ \A q \in M : p \cap q = {}
    BY DEF Signatures, BlocksApart
  <2>4. \A q \in M : q \cap counted = {}
    BY DEF Signatures, BlocksApart
  <2>5. \A p, q \in pools : p # q => p \cap q = {}
    <3> HIDE DEF T, M
    <3> QED BY <2>1, <2>2, <2>3, <2>4
  <2>6. \A m \in SlashCalls : calls[m] = 1 /\ m.info = InfoOf(m.blocks)
    BY DEF Signatures, BlocksApart, SumsKept
  <2> QED BY <2>5, <2>6 DEF SignaturesCountOnce, Signatures, SumsKept
<1> QED BY <1>1, KeptAlways, PTL

-----------------------------------------------------------------------------
(***************************************************************************)
(* Rounds lie apart.                                                       *)
(***************************************************************************)
\* The rounds so far lie apart, lie back, and what has been reported since the last one
\* is what is there to judge by.
RoundsBehind ==
  /\ RoundsApart
  /\ \A r \in rounds : /\ r.time \in Nat /\ r.time <= last_slash_time
                       /\ r.heights \in Nat /\ r.heights + Present.num <= Heights

LEMMA HeightsType == Kept => Heights \in Nat
<1> SUFFICES ASSUME Kept PROVE Heights \in Nat
  OBVIOUS
<1>1. \A t \in Table : summarized[t] \in Nat
  BY DEF Kept, ZecKept
<1> QED BY <1>1, NumberAssumption, SumOfNats DEF Heights

LEMMA InitRoundsBehind == Init => RoundsBehind
BY DEF Init, RoundsBehind, RoundsApart

LEMMA RoundRoundsBehind ==
  ASSUME Kept, Signatures, RoundsBehind, do_unqualified_node_slash
  PROVE  RoundsBehind'
<1>1. Heights' = Heights /\ tableblock_num' = Present.num
  BY DEF do_unqualified_node_slash, Heights
<1>2. /\ Present.num \in Nat /\ Heights \in Nat /\ time \in Nat /\ last_slash_time \in Nat
      /\ last_slash_time <= time /\ TableInterval \in Nat /\ TimeInterval \in Nat
  BY PresentType, HeightsType, NumberAssumption DEF Kept, ZecKept
<1>3. CASE Wait
  <2>1. rounds' = rounds /\ last_slash_time' = last_slash_time /\ Present'.num = Present.num
    BY <1>1, <1>3 DEF Wait, Present
  <2> QED BY <1>1, <2>1 DEF RoundsBehind, RoundsApart
<1>4. CASE ~ Wait
  <2>1. PICK a : Judge(a) /\ Enough(Present.num) /\ time - last_slash_time >= TimeInterval
    BY <1>4 DEF do_unqualified_node_slash
  <2> DEFINE s == [time |-> time, heights |-> Heights, info |-> Present.info,
                   blocks |-> Present.blocks, actions |-> a]
  <2>2. s.time = time /\ s.heights = Heights /\ s.blocks = Present.blocks
    OBVIOUS
  <2> HIDE DEF s
  <2>3. rounds' = rounds \cup {s} /\ last_slash_time' = time /\ slash_delete' = TRUE
    BY <2>1 DEF Judge, s
  <2>4. Present'.num = 0
    BY <2>3 DEF Present
  <2>5. Present.num >= TableInterval
    BY <2>1 DEF Enough
  <2>6. ASSUME NEW r \in rounds
        PROVE  /\ r.time \in Nat /\ r.time + TimeInterval <= time /\ r.time <= time
               /\ r.heights \in Nat /\ r.heights + TableInterval <= Heights /\ r.heights <= Heights
               /\ r.blocks \cap Present.blocks = {}
    <3>1. /\ r.time \in Nat /\ r.time <= last_slash_time
          /\ r.heights \in Nat /\ r.heights + Present.num <= Heights
      BY DEF RoundsBehind
    <3>2. r.blocks \subseteq Judged
      BY DEF Judged
    <3>3. r.blocks \cap Present.blocks = {}
      BY <3>2 DEF Signatures, BlocksApart
    <3>4. time - last_slash_time >= TimeInterval
      BY <2>1
    <3> QED BY <1>2, <2>5, <3>1, <3>3, <3>4
  <2>7. RoundsApart'
    <3> SUFFICES ASSUME NEW r \in rounds', NEW q \in rounds', r # q
                 PROVE  /\ \/ r.time + TimeInterval <= q.time /\ r.heights + TableInterval <= q.heights
                           \/ q.time + TimeInterval <= r.time /\ q.heights + TableInterval <= r.heights
                        /\ r.blocks \cap q.blocks = {}
      BY DEF RoundsApart
    <3>1. CASE r \in rounds /\ q \in rounds
      BY <3>1 DEF RoundsBehind, RoundsApart
    <3>2. CASE r \in rounds /\ q = s
      BY <2>2, <2>6, <3>2
    <3>3. CASE r = s /\ q \in rounds
      BY <2>2, <2>6, <3>3
    <3> QED BY <2>3, <3>1, <3>2, <3>3
  <2>8. \A r \in rounds' : /\ r.time \in Nat /\ r.time <= time
                           /\ r.heights \in Nat /\ r.heights + 0 <= Heights
    BY <1>2, <2>2, <2>3, <2>6
  <2> QED BY <1>1, <2>3, <2>4, <2>7, <2>8 DEF RoundsBehind
<1> QED BY <1>3, <1>4

LEMMA SummarizeRoundsBehind ==
  ASSUME Kept, RoundsBehind, NEW m \in DOMAIN calls, Deliver(m), summarize_slash_info(m)
  PROVE  RoundsBehind'
<1>1. rounds' = rounds /\ last_slash_time' = last_slash_time /\ slash_delete' = slash_delete
  BY DEF summarize_slash_info
<1>2. CASE m.height > summarized[m.table]
  <2>1. /\ tableblock_num' = tableblock_num + (m.height - summarized[m.table])
        /\ summarized' = [summarized EXCEPT ![m.table] = m.height]
    BY <1>2 DEF summarize_slash_info, Count
  <2>2. m.table \in Table /\ m.height \in Nat
    BY SummarizeKeeps DEF IsSlashCall
  <2>3. /\ \A t \in Table : summarized[t] \in Nat /\ summarized'[t] \in Int
        /\ \A t \in Table \ {m.table} : summarized'[t] = summarized[t]
        /\ summarized'[m.table] = m.height
    BY <2>1, <2>2 DEF Kept, ZecKept
  <2>4. Heights' = Heights + (m.height - summarized[m.table])
    BY <2>2, <2>3, NumberAssumption, SumChange DEF Heights
  <2>5. /\ Present.num \in Nat /\ Present'.num \in Nat /\ Heights \in Nat
        /\ Present'.num <= Present.num + (m.height - summarized[m.table])
    <3>1. Present.num \in Nat /\ Heights \in Nat /\ tableblock_num \in Nat
      BY PresentType, HeightsType DEF Kept, ZecKept
    <3>2. CASE slash_delete
      <4>1. Present.num = 0 /\ Present'.num = 0
        BY <1>1, <3>2 DEF Present
      <4> QED BY <1>2, <2>2, <2>3, <3>1, <4>1
    <3>3. CASE ~ slash_delete
      <4>1. Present.num = tableblock_num /\ Present'.num = tableblock_num'
        BY <1>1, <3>3 DEF Present
      <4> QED BY <1>2, <2>1, <2>2, <2>3, <3>1, <4>1
    <3> QED BY <3>2, <3>3
  <2>6. \A r \in rounds : r.heights \in Nat /\ r.heights + Present'.num <= Heights'
    <3> SUFFICES ASSUME NEW r \in rounds
                 PROVE  r.heights \in Nat /\ r.heights + Present'.num <= Heights'
      OBVIOUS
    <3>1. r.heights \in Nat /\ r.heights + Present.num <= Heights
      BY DEF RoundsBehind
    <3> QED BY <2>2, <2>3, <2>4, <2>5, <3>1
  <2> QED BY <1>1, <2>6 DEF RoundsBehind, RoundsApart
<1>3. CASE ~ (m.height > summarized[m.table])
  <2>1. UNCHANGED <<tableblock_num, summarized>>
    BY <1>3 DEF summarize_slash_info
  <2>2. Heights' = Heights /\ Present'.num = Present.num
    BY <1>1, <2>1 DEF Heights, Present
  <2> QED BY <1>1, <2>2 DEF RoundsBehind, RoundsApart
<1> QED BY <1>2, <1>3

LEMMA NextRoundsBehind ==
  Kept /\ Signatures /\ RoundsBehind /\ [Next]_vars => RoundsBehind'
<1> SUFFICES ASSUME Kept, Signatures, RoundsBehind, [Next]_vars PROVE RoundsBehind'
  OBVIOUS
<1>1. CASE UNCHANGED slashVars
  <2>1. Heights' = Heights /\ Present' = Present
    BY <1>1 DEF slashVars, Heights, Present
  <2> QED BY <1>1, <2>1 DEF slashVars, RoundsBehind, RoundsApart
<1>2. ASSUME NEW m \in DOMAIN calls, Deliver(m) PROVE RoundsBehind'
  <2>1. CASE summarize_slash_info(m)
    BY <1>2, <2>1, SummarizeRoundsBehind
  <2>2. CASE on_receive_workload(m) \/ calculate_reward(m)
    BY <1>1, <2>2 DEF on_receive_workload, calculate_reward
  <2> QED BY <1>2, <2>1, <2>2 DEF Deliver
<1>3. CASE do_unqualified_node_slash
  BY <1>3, RoundRoundsBehind
<1>4. CASE Collect \/ Report \/ workload_on_timer \/ Grow \/ Activate \/ Tick \/ UNCHANGED vars
  BY <1>1, <1>4 DEF Collect, on_collect_statistic_info, Report, report_summarized_statistic_info,
     workload_on_timer, Grow, Produce, Activate, Tick, vars
<1> QED BY <1>2, <1>3, <1>4 DEF Next, Receive, BagToSet

\* Two rounds are apart in time and in table blocks and judge by different blocks, whatever
\* reports come in between and before the old sum is removed.
THEOREM RoundsAlwaysApart == Spec => []RoundsApart
<1>1. Init => RoundsBehind
  BY InitRoundsBehind
<1>2. Kept /\ Signatures /\ RoundsBehind /\ [Next]_vars => RoundsBehind'
  BY NextRoundsBehind
<1>3. RoundsBehind => RoundsApart
  BY DEF RoundsBehind
<1> QED BY <1>1, <1>2, <1>3, KeptAlways, PTL DEF Spec

-----------------------------------------------------------------------------
(***************************************************************************)
(* A round is fair.                                                        *)
(***************************************************************************)
\* A percentage of a number of nodes, rounded down.
Share(n, p) == (n * p) \div 100

LEMMA ShareType ==
  ASSUME NEW n \in Nat, NEW p \in 0 .. 100
  PROVE  Share(n, p) \in Nat /\ Share(n, p) <= n /\ 100 * Share(n, p) <= n * p
<1> DEFINE m == n * p
<1>1. m \in Nat
  OBVIOUS
<1>2. n * (100 - p) \in Nat /\ n * (100 - p) = 100 * n - m
  OBVIOUS
<1>3. Share(n, p) = m \div 100
  BY DEF Share
<1> HIDE DEF m
<1>4. m <= 100 * n
  BY <1>1, <1>2
<1>5. m \div 100 \in Nat /\ 100 * (m \div 100) <= m /\ m \div 100 <= n
  BY <1>1, <1>4
<1> QED BY <1>3, <1>5 DEF m

LEMMA SharesTogether ==
  ASSUME NEW n \in Nat, NEW p \in 0 .. 100, NEW q \in 0 .. 100, p + q <= 100
  PROVE  Share(n, p) + Share(n, q) <= n
<1>1. /\ Share(n, p) \in Nat /\ 100 * Share(n, p) <= n * p
      /\ Share(n, q) \in Nat /\ 100 * Share(n, q) <= n * q
  BY ShareType
<1>2. n * (100 - (p + q)) \in Nat /\ n * (100 - (p + q)) = 100 * n - (n * p + n * q)
  OBVIOUS
<1>3. n * p \in Nat /\ n * q \in Nat
  OBVIOUS
<1>4. n * p + n * q <= 100 * n
  BY <1>2, <1>3
<1> DEFINE a == n * p
           b == n * q
<1>5. a \in Nat /\ b \in Nat /\ a + b <= 100 * n
      /\ 100 * Share(n, p) <= a /\ 100 * Share(n, q) <= b
  BY <1>1, <1>3, <1>4
<1> HIDE DEF a, b
<1> QED BY <1>1, <1>5

\* The nodes of a role that were asked to sign.
Nodes(i, role) == {x \in BagToSet(i.subset_count) : x[1] = role}

LEMMA NodesFinite ==
  ASSUME NEW i, IsInfo(i), NEW role
  PROVE  /\ IsFiniteSet(Nodes(i, role)) /\ Cardinality(Nodes(i, role)) \in Nat
         /\ \A x \in Nodes(i, role) : Percent(i, x) \in Nat
<1>1. IsFiniteSet(Role)
  <2>1. Role = {"auditor"} \cup {"validator"}
    BY DEF Role
  <2>2. IsFiniteSet({"auditor"}) /\ IsFiniteSet({"validator"})
    BY FS_Singleton
  <2> QED BY <2>1, <2>2, FS_Union
<1>2. IsFiniteSet(Role \X Node)
  BY <1>1, NumberAssumption, FS_Product
<1>3. Nodes(i, role) \subseteq Role \X Node
  BY DEF Nodes, IsInfo
<1>4. IsFiniteSet(Nodes(i, role)) /\ Cardinality(Nodes(i, role)) \in Nat
  BY <1>2, <1>3, FS_Subset, FS_CardinalityType
<1>5. ASSUME NEW x \in Nodes(i, role) PROVE Percent(i, x) \in Nat
  <2>1. Copies(x, i.block_count) \in Nat /\ Copies(x, i.subset_count) \in Nat
    BY CopiesType DEF IsInfo
  <2>2. Copies(x, i.subset_count) # 0
    BY CopiesType DEF IsInfo, Nodes, BagToSet
  <2> DEFINE a == Copies(x, i.block_count) * 100
             b == Copies(x, i.subset_count)
  <2>3. a \in Nat /\ b \in Nat \ {0}
    BY <2>1, <2>2
  <2> HIDE DEF a, b
  <2>4. a \div b \in Nat
    BY <2>3
  <2> QED BY <2>4 DEF Percent, a, b
<1> QED BY <1>4, <1>5

\* What the sort leaves: all nodes of the role, by ascending percentage.
IsOrder(o, i, role, n) ==
  /\ n = Cardinality(Nodes(i, role)) /\ DOMAIN o = 1 .. n /\ Len(o) = n
  /\ \A k \in 1 .. n : o[k] \in Nodes(i, role)
  /\ \A x \in Nodes(i, role) : \E k \in 1 .. n : o[k] = x
  /\ \A j, k \in 1 .. n : o[j] = o[k] => j = k
  /\ \A j, k \in 1 .. n : j <= k => Percent(i, o[j]) <= Percent(i, o[k])

LEMMA OrdersAreOrders ==
  ASSUME NEW i, IsInfo(i), NEW role, NEW o \in Orders(i, role)
  PROVE  IsOrder(o, i, role, Cardinality(Nodes(i, role)))
<1> DEFINE N == Nodes(i, role)
           n == Cardinality(N)
<1>1. IsFiniteSet(N) /\ n \in Nat /\ \A x \in N : Percent(i, x) \in Nat
  BY NodesFinite
<1>2. /\ o \in [1 .. n -> N]
      /\ \A j, k \in 1 .. n : j # k => o[j] # o[k]
      /\ \A j, k \in DOMAIN o : j < k => Percent(i, o[j]) <= Percent(i, o[k])
  BY DEF Orders, SetToSeqs, Nodes
<1>3. DOMAIN o = 1 .. n /\ \A k \in 1 .. n : o[k] \in N
  BY <1>2
<1>4. Len(o) = n
  <2>1. o \in Seq(N)
    BY <1>1, <1>2
  <2> QED BY <1>1, <1>3, <2>1
<1>5. \A x \in N : \E k \in 1 .. n : o[k] = x
  <2> DEFINE I == 1 .. n
  <2>1. IsFiniteSet(I) /\ Cardinality(I) = n
    BY <1>1, FS_Interval
  <2>2. o \in Injection(I, N)
    BY <1>2 DEF Injection, IsInjective
  <2> HIDE DEF I, n, N
  <2>3. o \in Surjection(I, N)
    BY <1>1, <2>1, <2>2, FS_Injection DEF n
  <2> QED BY <2>3 DEF Surjection, I
<1>6. \A j, k \in 1 .. n : j <= k => Percent(i, o[j]) <= Percent(i, o[k])
  <2> SUFFICES ASSUME NEW j \in 1 .. n, NEW k \in 1 .. n, j <= k
               PROVE  Percent(i, o[j]) <= Percent(i, o[k])
    OBVIOUS
  <2>1. CASE j < k
    BY <1>2, <1>3, <2>1
  <2>2. CASE j = k
    BY <1>1, <1>3, <2>2
  <2> QED BY <1>1, <2>1, <2>2
<1>7. \A j, k \in 1 .. n : o[j] = o[k] => j = k
  BY <1>2
<1> QED BY <1>3, <1>4, <1>5, <1>6, <1>7 DEF IsOrder

\* Of all the nodes of its role, the sort puts these where they may be punished or awarded.
Lazy(i, x) == Percent(i, x) < SlashThreshold \/ Percent(i, x) = 0

LastOf(o, i, role, n) ==
  {x \in Nodes(i, role) : Lazy(i, x) /\ \E k \in 1 .. Share(n, SlashPercent) : o[k] = x}

FirstOf(o, i, role, n) ==
  {x \in Nodes(i, role) : Percent(i, x) > AwardThreshold
                          /\ \E k \in (n - Share(n, AwardPercent) + 1) .. n : o[k] = x}

LEMMA DecidedByOrder ==
  ASSUME NEW i, IsInfo(i), NEW role, NEW n, NEW o, IsOrder(o, i, role, n),
         NEW x \in Nodes(i, role)
  PROVE  /\ [who |-> x, punish |-> TRUE] \in ActionsOf(i, o) <=> x \in LastOf(o, i, role, n)
         /\ [who |-> x, punish |-> FALSE] \in ActionsOf(i, o) <=> x \in FirstOf(o, i, role, n)
<1>1. n \in Nat /\ Len(o) = n
  BY NodesFinite DEF IsOrder
<1>2. /\ Share(n, SlashPercent) \in Nat
      /\ Share(n, AwardPercent) \in Nat /\ Share(n, AwardPercent) <= n
  BY <1>1, ShareType, NumberAssumption
<1>3. Lowest(o) = 1 .. Share(n, SlashPercent)
  BY <1>1 DEF Lowest, Share
<1>4. Highest(o) = (n - Share(n, AwardPercent) + 1) .. n
  BY <1>1 DEF Highest, Share
<1>5. \A k \in Highest(o) : k >= 1
  BY <1>1, <1>2, <1>4
<1>6. [who |-> x, punish |-> TRUE] \in ActionsOf(i, o)
      <=> \E k \in Lowest(o) : o[k] = x /\ Lazy(i, o[k])
  BY DEF ActionsOf, Lazy
<1>7. [who |-> x, punish |-> FALSE] \in ActionsOf(i, o)
      <=> \E k \in Highest(o) : o[k] = x /\ k >= 1 /\ Percent(i, o[k]) > AwardThreshold
  BY DEF ActionsOf
<1>8. x \in LastOf(o, i, role, n) <=> \E k \in Lowest(o) : o[k] = x /\ Lazy(i, o[k])
  BY <1>3 DEF LastOf
<1>9. x \in FirstOf(o, i, role, n)
      <=> \E k \in Highest(o) : o[k] = x /\ k >= 1 /\ Percent(i, o[k]) > AwardThreshold
  BY <1>4, <1>5 DEF FirstOf
<1> QED BY <1>6, <1>7, <1>8, <1>9

\* The places of the order are no more than their number.
LEMMA PlacesAreFew ==
  ASSUME NEW o, NEW a \in Int, NEW s \in Nat, NEW N, IsFiniteSet(N),
         \A x \in N : \E k \in (a + 1) .. (a + s) : o[k] = x
  PROVE  Cardinality(N) \in Nat /\ Cardinality(N) <= s
<1> DEFINE K == (a + 1) .. (a + s)
           f == [k \in K |-> o[k]]
           R == {f[k] : k \in K}
<1>1. IsFiniteSet(K) /\ Cardinality(K) = s
  <2>1. IsFiniteSet(K) /\ Cardinality(K) = (IF a + 1 > a + s THEN 0 ELSE a + s - (a + 1) + 1)
    BY FS_Interval
  <2> QED BY <2>1
<1>2. f \in Surjection(K, R)
  BY DEF Surjection
<1>3. N \subseteq R
  OBVIOUS
<1> HIDE DEF K, R, f
<1>4. IsFiniteSet(R) /\ Cardinality(R) <= s
  BY <1>1, <1>2, FS_Surjection
<1>5. Cardinality(R) \in Nat /\ Cardinality(N) \in Nat /\ Cardinality(N) <= Cardinality(R)
  BY <1>3, <1>4, FS_Subset, FS_CardinalityType
<1> QED BY <1>4, <1>5

\* A node is not near both ends of the order, or no percentage is both low and high.
SharesApart == SlashPercent + AwardPercent <= 100 \/ SlashThreshold <= AwardThreshold + 1

FairDecision(i, role, punished, awarded) ==
  LET nodes == Nodes(i, role)
  IN  /\ \A x \in punished, y \in nodes \ punished : Percent(i, x) <= Percent(i, y)
      /\ \A x \in awarded, y \in nodes \ awarded : Percent(i, x) >= Percent(i, y)
      /\ punished \cap awarded = {}
      /\ 100 * Cardinality(punished) <= Cardinality(nodes) * SlashPercent
      /\ 100 * Cardinality(awarded) <= Cardinality(nodes) * AwardPercent

LEMMA OrderIsFair ==
  ASSUME SharesApart,
         NEW i, IsInfo(i), NEW role, NEW n, NEW o, IsOrder(o, i, role, n)
  PROVE  FairDecision(i, role, LastOf(o, i, role, n), FirstOf(o, i, role, n))
<1> DEFINE N == Nodes(i, role)
           P == LastOf(o, i, role, n)
           A == FirstOf(o, i, role, n)
           s == Share(n, SlashPercent)
           a == Share(n, AwardPercent)
<1>1. /\ IsFiniteSet(N) /\ n = Cardinality(N) /\ n \in Nat
      /\ \A x \in N : Percent(i, x) \in Nat
  BY NodesFinite DEF IsOrder
<1>2. /\ s \in Nat /\ s <= n /\ 100 * s <= n * SlashPercent
      /\ a \in Nat /\ a <= n /\ 100 * a <= n * AwardPercent
  BY <1>1, ShareType, NumberAssumption
<1>3. /\ SlashThreshold \in Nat /\ AwardThreshold \in Nat
      /\ SlashPercent \in 0 .. 100 /\ AwardPercent \in 0 .. 100
  BY NumberAssumption
<1>4. /\ \A x \in N : \E k \in 1 .. n : o[k] = x
      /\ \A j, k \in 1 .. n : o[j] = o[k] => j = k
      /\ \A j, k \in 1 .. n : j <= k => Percent(i, o[j]) <= Percent(i, o[k])
  BY DEF IsOrder
<1>5. /\ \A x \in N : x \in P <=> Lazy(i, x) /\ \E k \in 1 .. s : o[k] = x
      /\ \A x \in N : x \in A <=> /\ Percent(i, x) > AwardThreshold
                                  /\ \E k \in (n - a + 1) .. n : o[k] = x
      /\ P \subseteq N /\ A \subseteq N
  BY DEF LastOf, FirstOf
<1>6. SharesApart => s + a <= n \/ SlashThreshold <= AwardThreshold + 1
  BY <1>1, <1>3, SharesTogether DEF SharesApart
<1> HIDE DEF N, P, A, s, a
<1>7. ASSUME NEW x \in P, NEW y \in N \ P PROVE Percent(i, x) <= Percent(i, y)
  <2>1. Percent(i, x) \in Nat /\ Percent(i, y) \in Nat
    BY <1>1, <1>5
  <2>2. PICK k \in 1 .. s : o[k] = x /\ Lazy(i, x)
    BY <1>5
  <2>3. PICK j \in 1 .. n : o[j] = y
    BY <1>4
  <2>4. CASE k <= j
    <3>1. k \in 1 .. n
      BY <1>1, <1>2
    <3> QED BY <1>4, <2>2, <2>3, <2>4, <3>1
  <2>5. CASE j < k
    <3>1. j \in 1 .. s
      BY <1>1, <1>2, <2>5
    <3>2. ~ Lazy(i, y)
      BY <1>5, <2>3, <3>1
    <3> QED BY <1>3, <2>1, <2>2, <3>2 DEF Lazy
  <2> QED BY <1>1, <1>2, <2>4, <2>5
<1>8. ASSUME NEW x \in A, NEW y \in N \ A PROVE Percent(i, x) >= Percent(i, y)
  <2>1. Percent(i, x) \in Nat /\ Percent(i, y) \in Nat
    BY <1>1, <1>5
  <2>2. PICK k \in (n - a + 1) .. n : o[k] = x /\ Percent(i, x) > AwardThreshold
    BY <1>5
  <2>3. PICK j \in 1 .. n : o[j] = y
    BY <1>4
  <2>4. k \in 1 .. n
    BY <1>1, <1>2
  <2>5. CASE j <= k
    BY <1>4, <2>1, <2>2, <2>3, <2>4, <2>5
  <2>6. CASE k < j
    <3>1. j \in (n - a + 1) .. n
      BY <1>1, <1>2, <2>6
    <3>2. ~ (Percent(i, y) > AwardThreshold)
      BY <1>5, <2>3, <3>1
    <3> QED BY <1>3, <2>1, <2>2, <3>2
  <2> QED BY <1>1, <1>2, <2>5, <2>6
<1>9. P \cap A = {}
  <2> SUFFICES ASSUME NEW x \in P, x \in A PROVE FALSE
    OBVIOUS
  <2>1. Percent(i, x) \in Nat /\ x \in N
    BY <1>1, <1>5
  <2>2. PICK k \in 1 .. s : o[k] = x /\ Lazy(i, x)
    BY <1>5
  <2>3. PICK j \in (n - a + 1) .. n : o[j] = x /\ Percent(i, x) > AwardThreshold
    BY <1>5
  <2>4. j \in 1 .. n /\ k \in 1 .. n
    BY <1>1, <1>2
  <2>5. j = k
    BY <1>4, <2>2, <2>3, <2>4
  <2>6. ~ (s + a <= n)
    BY <1>1, <1>2, <2>5
  <2>7. ~ (SlashThreshold <= AwardThreshold + 1)
    BY <1>3, <2>1, <2>2, <2>3 DEF Lazy
  <2> QED BY <1>6, <2>6, <2>7
<1>10. 100 * Cardinality(P) <= n * SlashPercent
  <2>1. IsFiniteSet(P) /\ IsFiniteSet(A)
    BY <1>1, <1>5, FS_Subset
  <2> DEFINE z == 0
  <2>2. z \in Int /\ \A x \in P : \E k \in (z + 1) .. (z + s) : o[k] = x
    BY <1>2, <1>5
  <2> HIDE DEF z
  <2>3. Cardinality(P) \in Nat /\ Cardinality(P) <= s
    BY <1>2, <2>1, <2>2, PlacesAreFew
  <2>4. n * SlashPercent \in Nat
    BY <1>1, <1>3
  <2> QED BY <1>2, <2>3, <2>4
<1>11. 100 * Cardinality(A) <= n * AwardPercent
  <2>1. IsFiniteSet(A)
    BY <1>1, <1>5, FS_Subset
  <2>2. \A x \in A : \E k \in ((n - a) + 1) .. ((n - a) + a) : o[k] = x
    <3>1. (n - a) + a = n
      BY <1>1, <1>2
    <3> QED BY <1>5, <3>1
  <2>3. n - a \in Int
    BY <1>1, <1>2
  <2>4. Cardinality(A) \in Nat /\ Cardinality(A) <= a
    BY <1>2, <2>1, <2>2, <2>3, PlacesAreFew
  <2>5. n * AwardPercent \in Nat
    BY <1>1, <1>3
  <2> QED BY <1>2, <2>4, <2>5
<1> QED BY <1>1, <1>7, <1>8, <1>9, <1>10, <1>11 DEF FairDecision, N, P, A

\* An order of one role decides nothing of the other.
LEMMA OfAnotherRole ==
  ASSUME NEW i, IsInfo(i), NEW role, NEW other, role # other, NEW o \in Orders(i, other),
         NEW x \in Nodes(i, role), NEW p \in BOOLEAN
  PROVE  [who |-> x, punish |-> p] \notin ActionsOf(i, o)
<1>1. IsOrder(o, i, other, Cardinality(Nodes(i, other)))
  BY OrdersAreOrders
<1> DEFINE n == Cardinality(Nodes(i, other))
<1>2. n \in Nat
  BY NodesFinite
<1>3. /\ Len(o) = n /\ Share(n, SlashPercent) <= n /\ Share(n, SlashPercent) \in Nat
      /\ \A k \in 1 .. n : o[k] \in Nodes(i, other)
  BY <1>1, <1>2, ShareType, NumberAssumption DEF IsOrder
<1> HIDE DEF n
<1>4. \A k \in Lowest(o) : k \in 1 .. n
  BY <1>2, <1>3 DEF Lowest, Share
<1>5. Share(n, AwardPercent) \in Nat
  BY <1>2, ShareType, NumberAssumption
<1>6. \A k \in Highest(o) : k >= 1 => k \in 1 .. n
  BY <1>2, <1>3, <1>5 DEF Highest, Share
<1>7. \A k \in 1 .. n : o[k] # x
  BY <1>3 DEF Nodes
<1> QED BY <1>4, <1>6, <1>7 DEF ActionsOf

LEMMA DecisionIsFair ==
  ASSUME SharesApart,
         NEW i, IsInfo(i), NEW role \in Role, NEW actions \in filter_nodes(i)
  PROVE  FairDecision(i, role, {x \in Nodes(i, role) : [who |-> x, punish |-> TRUE] \in actions},
                               {x \in Nodes(i, role) : [who |-> x, punish |-> FALSE] \in actions})
<1> DEFINE n == Cardinality(Nodes(i, role))
<1>1. PICK a \in Orders(i, "auditor"), v \in Orders(i, "validator") :
        actions = ActionsOf(i, a) \cup ActionsOf(i, v)
  BY DEF filter_nodes
<1>2. \E o \in Orders(i, role) :
        \A x \in Nodes(i, role), p \in BOOLEAN :
          [who |-> x, punish |-> p] \in actions <=> [who |-> x, punish |-> p] \in ActionsOf(i, o)
  <2>1. CASE role = "auditor"
    <3>1. \A x \in Nodes(i, role), p \in BOOLEAN : [who |-> x, punish |-> p] \notin ActionsOf(i, v)
      BY <2>1, OfAnotherRole
    <3> QED BY <1>1, <2>1, <3>1
  <2>2. CASE role = "validator"
    <3>1. \A x \in Nodes(i, role), p \in BOOLEAN : [who |-> x, punish |-> p] \notin ActionsOf(i, a)
      BY <2>2, OfAnotherRole
    <3> QED BY <1>1, <2>2, <3>1
  <2> QED BY <2>1, <2>2 DEF Role
<1>3. PICK o \in Orders(i, role) :
        \A x \in Nodes(i, role), p \in BOOLEAN :
          [who |-> x, punish |-> p] \in actions <=> [who |-> x, punish |-> p] \in ActionsOf(i, o)
  BY <1>2
<1>4. IsOrder(o, i, role, n)
  BY OrdersAreOrders
<1>5. /\ {x \in Nodes(i, role) : [who |-> x, punish |-> TRUE] \in actions} = LastOf(o, i, role, n)
      /\ {x \in Nodes(i, role) : [who |-> x, punish |-> FALSE] \in actions} = FirstOf(o, i, role, n)
  <2>1. \A x \in Nodes(i, role) :
          /\ [who |-> x, punish |-> TRUE] \in actions <=> x \in LastOf(o, i, role, n)
          /\ [who |-> x, punish |-> FALSE] \in actions <=> x \in FirstOf(o, i, role, n)
    BY <1>3, <1>4, DecidedByOrder
  <2>2. LastOf(o, i, role, n) \subseteq Nodes(i, role) /\ FirstOf(o, i, role, n) \subseteq Nodes(i, role)
    BY DEF LastOf, FirstOf
  <2> QED BY <2>1, <2>2
<1> QED BY <1>4, <1>5, OrderIsFair

LEMMA KeptRoundsAreFair ==
  ASSUME SharesApart, Kept, Signatures
  PROVE  RoundsAreFair
<1> SUFFICES ASSUME NEW r \in rounds, NEW role \in Role
             PROVE  FairDecision(r.info, role,
                      {x \in Nodes(r.info, role) : [who |-> x, punish |-> TRUE] \in r.actions},
                      {x \in Nodes(r.info, role) : [who |-> x, punish |-> FALSE] \in r.actions})
  BY DEF RoundsAreFair, FairDecision, Nodes
<1>1. r.info = InfoOf(r.blocks) /\ r.actions \in filter_nodes(r.info)
  BY DEF Signatures, RoundsKept
<1>2. r.blocks \subseteq Collected
  BY DEF Kept, ZecKept
<1>3. AreBlocks(r.blocks)
  BY <1>2, SumsOfCollected
<1>4. IsInfo(r.info)
  BY <1>1, <1>3, InfoType
<1> QED BY <1>1, <1>4, DecisionIsFair

\* Whatever blocks the tables report and in whatever order the reports arrive, two rounds of
\* the slash contract lie apart and judge by different blocks, and each is fair within each
\* role, provided the governance parameters do not make one node eligible for both: the two
\* shares of the ranking do not overlap, or the two thresholds do not.
THEOREM SlashRoundsAlways ==
  ASSUME SharesApart
  PROVE  Spec => []SlashRounds
<1>1. Kept /\ Signatures => RoundsAreFair
  BY KeptRoundsAreFair
<1>2. RoundsApart /\ RoundsAreFair => SlashRounds
  BY DEF SlashRounds
<1> QED BY <1>1, <1>2, KeptAlways, RoundsAlwaysApart, PTL

-----------------------------------------------------------------------------
(***************************************************************************)
(* Work and pledged TGAS on their way.                                     *)
(***************************************************************************)
\* The calls of a bag, equal ones numbered.
Flight(B, type) == {c \in UNION {{m} \X (1 .. B[m]) : m \in BagToSet(B)} : c[1].type = type}

LEMMA FlightMembers ==
  ASSUME NEW B, IsABag(B), NEW type
  PROVE  /\ \A m, k : <<m, k>> \in Flight(B, type) <=> k \in 1 .. Copies(m, B) /\ m.type = type
         /\ \A c \in Flight(B, type) : c = <<c[1], c[2]>> /\ c[1] \in DOMAIN B /\ c[1].type = type
<1>1. /\ \A m \in DOMAIN B : Copies(m, B) = B[m]
      /\ \A m : m \notin DOMAIN B => Copies(m, B) = 0
  BY DEF Copies, BagIn, BagToSet
<1>2. ASSUME NEW m, NEW k
      PROVE  <<m, k>> \in Flight(B, type) <=> k \in 1 .. Copies(m, B) /\ m.type = type
  <2>1. <<m, k>> \in Flight(B, type) <=> m \in DOMAIN B /\ k \in 1 .. B[m] /\ m.type = type
    BY DEF Flight, BagToSet
  <2>2. k \notin 1 .. 0
    OBVIOUS
  <2> QED BY <1>1, <2>1, <2>2
<1>3. \A c \in Flight(B, type) : c = <<c[1], c[2]>> /\ c[1] \in DOMAIN B /\ c[1].type = type
  BY DEF Flight, BagToSet
<1> QED BY <1>2, <1>3

LEMMA FlightFinite ==
  ASSUME NEW B, IsABag(B), IsFiniteSet(DOMAIN B), NEW type
  PROVE  IsFiniteSet(Flight(B, type))
<1> DEFINE F == {{m} \X (1 .. B[m]) : m \in DOMAIN B}
           f == [m \in DOMAIN B |-> {m} \X (1 .. B[m])]
<1>1. \A m \in DOMAIN B : IsFiniteSet({m} \X (1 .. B[m]))
  <2> SUFFICES ASSUME NEW m \in DOMAIN B PROVE IsFiniteSet({m} \X (1 .. B[m]))
    OBVIOUS
  <2>1. IsFiniteSet({m})
    BY FS_Singleton
  <2>2. B[m] \in Nat
    BY DEF IsABag
  <2>3. IsFiniteSet(1 .. B[m])
    BY <2>2, FS_Interval
  <2> QED BY <2>1, <2>3, FS_Product
<1>2. f \in Surjection(DOMAIN B, F)
  BY DEF Surjection
<1>3. \A S \in F : IsFiniteSet(S)
  BY <1>1
<1>4. Flight(B, type) \subseteq UNION F
  BY DEF Flight, BagToSet
<1> HIDE DEF F, f
<1>5. IsFiniteSet(F)
  BY <1>2, FS_Surjection
<1>6. IsFiniteSet(UNION F)
  BY <1>3, <1>5, FS_UNION
<1> QED BY <1>4, <1>6, FS_Subset

AreCalls(B) == IsABag(B) /\ IsFiniteSet(DOMAIN B)

\* Two bags of calls that have the same calls of a type, and two of which the second has
\* one more.
SameOf(B, C, type) == \A k : k.type = type => Copies(k, C) = Copies(k, B)

OneMore(B, C, type, m) ==
  /\ m.type = type
  /\ \A k : k.type = type => Copies(k, C) = Copies(k, B) + IF k = m THEN 1 ELSE 0

LEMMA FlightStays ==
  ASSUME NEW B, NEW C, AreCalls(B), AreCalls(C), NEW type, SameOf(B, C, type)
  PROVE  Flight(C, type) = Flight(B, type)
<1>1. \A m, k : <<m, k>> \in Flight(B, type) <=> <<m, k>> \in Flight(C, type)
  <2> TAKE m, k
  <2>1. <<m, k>> \in Flight(B, type) <=> k \in 1 .. Copies(m, B) /\ m.type = type
    BY FlightMembers DEF AreCalls
  <2>2. <<m, k>> \in Flight(C, type) <=> k \in 1 .. Copies(m, C) /\ m.type = type
    BY FlightMembers DEF AreCalls
  <2>3. m.type = type => Copies(m, C) = Copies(m, B)
    BY DEF SameOf
  <2> QED BY <2>1, <2>2, <2>3
<1>2. /\ \A c \in Flight(B, type) : c = <<c[1], c[2]>>
      /\ \A c \in Flight(C, type) : c = <<c[1], c[2]>>
  BY FlightMembers DEF AreCalls
<1>3. ASSUME NEW c \in Flight(B, type) PROVE c \in Flight(C, type)
  BY <1>1, <1>2
<1>4. ASSUME NEW c \in Flight(C, type) PROVE c \in Flight(B, type)
  BY <1>1, <1>2
<1> QED BY <1>3, <1>4

LEMMA FlightGrows ==
  ASSUME NEW B, NEW C, AreCalls(B), AreCalls(C), NEW type, NEW m, OneMore(B, C, type, m)
  PROVE  LET x == <<m, Copies(m, B) + 1>>
         IN  x \notin Flight(B, type) /\ Flight(C, type) = Flight(B, type) \cup {x}
<1> DEFINE x == <<m, Copies(m, B) + 1>>
<1>1. /\ \A n, k : <<n, k>> \in Flight(B, type) <=> k \in 1 .. Copies(n, B) /\ n.type = type
      /\ \A c \in Flight(B, type) : c = <<c[1], c[2]>>
  BY FlightMembers DEF AreCalls
<1>2. /\ \A n, k : <<n, k>> \in Flight(C, type) <=> k \in 1 .. Copies(n, C) /\ n.type = type
      /\ \A c \in Flight(C, type) : c = <<c[1], c[2]>>
  BY FlightMembers DEF AreCalls
<1>3. \A n : Copies(n, B) \in Nat
  BY CopiesType DEF AreCalls
<1>4. \A n : n.type = type => Copies(n, C) = Copies(n, B) + IF n = m THEN 1 ELSE 0
  BY DEF OneMore
<1>5. x \notin Flight(B, type)
  BY <1>1, <1>3
<1>6. ASSUME NEW n, NEW k, n.type = type
      PROVE  <<n, k>> \in Flight(C, type) <=> <<n, k>> \in Flight(B, type) \/ <<n, k>> = x
  <2>1. <<n, k>> \in Flight(C, type) <=> k \in 1 .. Copies(n, C)
    BY <1>2, <1>6
  <2>2. <<n, k>> \in Flight(B, type) <=> k \in 1 .. Copies(n, B)
    BY <1>1, <1>6
  <2>3. CASE n = m
    <3>1. Copies(n, C) = Copies(n, B) + 1 /\ Copies(n, B) \in Nat
      BY <1>3, <1>4, <1>6, <2>3
    <3>2. k \in 1 .. Copies(n, C) <=> k \in 1 .. Copies(n, B) \/ k = Copies(n, B) + 1
      BY <3>1
    <3> QED BY <2>1, <2>2, <2>3, <3>2
  <2>4. CASE n # m
    <3>1. Copies(n, C) = Copies(n, B)
      BY <1>3, <1>4, <1>6, <2>4
    <3> QED BY <2>1, <2>2, <2>4, <3>1
  <2> QED BY <2>3, <2>4
<1>7. m.type = type
  BY DEF OneMore
<1>8. \A c \in Flight(C, type) : c \in Flight(B, type) \cup {x}
  <2> SUFFICES ASSUME NEW c \in Flight(C, type) PROVE c \in Flight(B, type) \cup {x}
    OBVIOUS
  <2>1. PICK n, k : c = <<n, k>>
    BY <1>2
  <2>2. n.type = type
    BY <1>2, <2>1
  <2> HIDE DEF x
  <2> QED BY <1>6, <2>1, <2>2
<1>9. \A c \in Flight(B, type) : c \in Flight(C, type)
  <2> SUFFICES ASSUME NEW c \in Flight(B, type) PROVE c \in Flight(C, type)
    OBVIOUS
  <2>1. PICK n, k : c = <<n, k>>
    BY <1>1
  <2>2. n.type = type
    BY <1>1, <2>1
  <2> HIDE DEF x
  <2> QED BY <1>6, <2>1, <2>2
<1>10. x \in Flight(C, type)
  BY <1>6, <1>7
<1> HIDE DEF x
<1>11. x \notin Flight(B, type) /\ Flight(C, type) = Flight(B, type) \cup {x}
  BY <1>5, <1>8, <1>9, <1>10
<1> QED BY <1>11 DEF x

\* The work and the pledged TGAS of the calls of a type.
WorkOf(F) == [c \in F |-> c[1].work]
TgasOf(F) == [c \in F |-> c[1].tgas]

Sent(e, B, type) == CopiesAll(e, WorkOf(Flight(B, type)), Flight(B, type))
SentTgas(B) == SumFunctionOnSet(TgasOf(Flight(B, "workload")), Flight(B, "workload"))

CarryWork(B, type) == \A k \in DOMAIN B : k.type = type => IsABag(k.work)
CarryTgas(B) == \A k \in DOMAIN B : k.type = "workload" => k.tgas \in Int

LEMMA SentType ==
  ASSUME NEW B, AreCalls(B), NEW type, CarryWork(B, type), NEW e
  PROVE  /\ AreBags(WorkOf(Flight(B, type)), Flight(B, type))
         /\ Sent(e, B, type) \in Nat
<1>1. AreBags(WorkOf(Flight(B, type)), Flight(B, type))
  <2>1. IsFiniteSet(Flight(B, type))
    BY FlightFinite DEF AreCalls
  <2>2. \A c \in Flight(B, type) : c[1] \in DOMAIN B /\ c[1].type = type
    BY FlightMembers DEF AreCalls
  <2> QED BY <2>1, <2>2 DEF AreBags, WorkOf, CarryWork
<1> QED BY <1>1, CopiesAllType DEF Sent

LEMMA SentTgasType ==
  ASSUME NEW B, AreCalls(B), CarryTgas(B)
  PROVE  /\ IsFiniteSet(Flight(B, "workload"))
         /\ \A c \in Flight(B, "workload") : TgasOf(Flight(B, "workload"))[c] \in Int
         /\ SentTgas(B) \in Int
<1> DEFINE F == Flight(B, "workload")
           f == TgasOf(F)
<1>1. IsFiniteSet(F)
  BY FlightFinite DEF AreCalls
<1>2. \A c \in F : c[1] \in DOMAIN B /\ c[1].type = "workload"
  BY FlightMembers DEF AreCalls
<1>3. \A c \in F : f[c] \in Int
  BY <1>2 DEF TgasOf, CarryTgas
<1>4. SentTgas(B) = SumFunctionOnSet(f, F)
  BY DEF SentTgas
<1> HIDE DEF F, f
<1>5. SumFunctionOnSet(f, F) \in Int
  BY <1>1, <1>3, SumTakeOut
<1> QED BY <1>1, <1>3, <1>4, <1>5 DEF F, f

LEMMA SentStays ==
  ASSUME NEW B, NEW C, AreCalls(B), AreCalls(C), NEW type, SameOf(B, C, type), NEW e
  PROVE  Sent(e, C, type) = Sent(e, B, type) /\ (type = "workload" => SentTgas(C) = SentTgas(B))
BY FlightStays DEF Sent, SentTgas

LEMMA SentGrows ==
  ASSUME NEW B, NEW C, AreCalls(B), AreCalls(C), NEW type, NEW m, OneMore(B, C, type, m),
         CarryWork(C, type), NEW e
  PROVE  Sent(e, C, type) = Sent(e, B, type) + Copies(e, m.work)
<1> DEFINE x == <<m, Copies(m, B) + 1>>
           D == {x}
           F == Flight(B, type)
           G == Flight(C, type)
<1>1. x \notin F /\ G = F \cup {x}
  BY FlightGrows
<1>2. AreBags(WorkOf(G), G)
  BY SentType
<1>3. WorkOf(G)[x] = m.work /\ \A c \in F : WorkOf(G)[c] = WorkOf(F)[c]
  BY <1>1 DEF WorkOf
<1>4. F \cup D = G /\ F \cap D = {}
  BY <1>1
<1>5. IsFiniteSet(D)
  BY FS_Singleton
<1>6. IsABag(WorkOf(G)[x])
  BY <1>1, <1>2 DEF AreBags
<1>7. CopiesAll(e, WorkOf(G), D) = Copies(e, WorkOf(G)[x])
  BY <1>6, CopiesOfOne
<1>8. IsFiniteSet(F)
  BY FlightFinite DEF AreCalls
<1>9. Sent(e, B, type) = CopiesAll(e, WorkOf(F), F) /\ Sent(e, C, type) = CopiesAll(e, WorkOf(G), G)
  BY DEF Sent
<1> HIDE DEF D, F, G, x
<1>10. AreBags(WorkOf(G), F) /\ AreBags(WorkOf(G), D)
  BY <1>2, <1>4, <1>5, <1>8 DEF AreBags
<1>11. CopiesAll(e, WorkOf(G), F \cup D) = CopiesAll(e, WorkOf(G), F) + CopiesAll(e, WorkOf(G), D)
  BY <1>4, <1>10, CopiesUnion
<1>12. CopiesAll(e, WorkOf(G), F) = CopiesAll(e, WorkOf(F), F)
  BY <1>3, CopiesSame
<1> QED BY <1>3, <1>4, <1>7, <1>9, <1>11, <1>12

LEMMA SentTgasGrows ==
  ASSUME NEW B, NEW C, AreCalls(B), AreCalls(C), NEW m, OneMore(B, C, "workload", m),
         CarryTgas(C)
  PROVE  SentTgas(C) = SentTgas(B) + m.tgas
<1> DEFINE x == <<m, Copies(m, B) + 1>>
           F == Flight(B, "workload")
           G == Flight(C, "workload")
           f == TgasOf(F)
           g == TgasOf(G)
<1>1. x \notin F /\ G = F \cup {x}
  BY FlightGrows
<1>2. IsFiniteSet(G) /\ \A c \in G : g[c] \in Int
  BY SentTgasType
<1>3. g[x] = m.tgas /\ \A c \in F : g[c] = f[c]
  BY <1>1 DEF TgasOf
<1>4. SentTgas(B) = SumFunctionOnSet(f, F) /\ SentTgas(C) = SumFunctionOnSet(g, G)
  BY DEF SentTgas
<1> HIDE DEF x, F, G, f, g
<1>5. IsFiniteSet(F)
  BY <1>1, <1>2, FS_Subset
<1>6. SumFunctionOnSet(g, F) = SumFunctionOnSet(f, F)
  BY <1>3, <1>5, SumSame
<1>7. SumFunctionOnSet(g, G) = SumFunctionOnSet(g, F) + g[x]
  BY <1>1, <1>2, <1>5, SumAdd
<1> QED BY <1>3, <1>4, <1>6, <1>7

LEMMA SendingIsMore ==
  ASSUME AreCalls(calls), NEW msgs, IsFiniteSet(msgs), calls' = Sending(msgs)
  PROVE  /\ AreCalls(calls')
         /\ \A type : (\A k \in msgs : k.type # type) => SameOf(calls, calls', type)
         /\ \A m \in msgs : (\A k \in msgs : k # m => k.type # m.type)
                              => OneMore(calls, calls', m.type, m)
<1>1. /\ AreCalls(calls')
      /\ \A k : Copies(k, calls') = Copies(k, calls) + IF k \in msgs THEN 1 ELSE 0
  BY SendingAdds DEF AreCalls
<1>2. \A k : Copies(k, calls) \in Nat
  BY CopiesType DEF AreCalls
<1>3. ASSUME NEW type, \A k \in msgs : k.type # type PROVE SameOf(calls, calls', type)
  <2> SUFFICES ASSUME NEW k, k.type = type PROVE Copies(k, calls') = Copies(k, calls)
    BY DEF SameOf
  <2>1. k \notin msgs
    BY <1>3
  <2> QED BY <1>1, <1>2, <2>1
<1>4. ASSUME NEW m \in msgs, \A k \in msgs : k # m => k.type # m.type
      PROVE  OneMore(calls, calls', m.type, m)
  <2> SUFFICES ASSUME NEW k, k.type = m.type
               PROVE  Copies(k, calls') = Copies(k, calls) + IF k = m THEN 1 ELSE 0
    BY DEF OneMore
  <2>1. k \in msgs <=> k = m
    BY <1>4
  <2> QED BY <1>1, <2>1
<1> QED BY <1>1, <1>3, <1>4

LEMMA WithoutIsLess ==
  ASSUME AreCalls(calls), NEW m \in DOMAIN calls, calls' = Without(m)
  PROVE  /\ AreCalls(calls') /\ OneMore(calls', calls, m.type, m)
         /\ \A type : m.type # type => SameOf(calls', calls, type)
<1>1. /\ AreCalls(calls') /\ DOMAIN calls' \subseteq DOMAIN calls
      /\ \A k \in DOMAIN calls : k # m => k \in DOMAIN calls' /\ calls'[k] = calls[k]
      /\ Copies(m, calls') = calls[m] - 1
  BY WithoutRemoves DEF AreCalls
<1>2. /\ Copies(m, calls) = calls[m] /\ calls[m] \in Nat
      /\ \A k : Copies(k, calls) \in Nat
  BY CopiesType DEF AreCalls, Copies, BagIn, BagToSet, IsABag
<1>3. ASSUME NEW k, k # m PROVE Copies(k, calls) = Copies(k, calls')
  BY <1>1, <1>3 DEF Copies, BagIn, BagToSet
<1>4. Copies(m, calls) = Copies(m, calls') + 1
  BY <1>1, <1>2
<1>5. \A k : Copies(k, calls) = Copies(k, calls') + IF k = m THEN 1 ELSE 0
  <2> TAKE k
  <2>1. CASE k = m
    BY <1>4, <2>1
  <2>2. CASE k # m
    BY <1>2, <1>3, <2>2
  <2> QED BY <2>1, <2>2
<1>6. OneMore(calls', calls, m.type, m)
  BY <1>5 DEF OneMore
<1>7. \A type : m.type # type => SameOf(calls', calls, type)
  BY <1>3 DEF SameOf
<1> QED BY <1>1, <1>6, <1>7

-----------------------------------------------------------------------------
(***************************************************************************)
(* Work and pledged TGAS are conserved.                                    *)
(***************************************************************************)
CollectedWork == [b \in Collected |-> block[b[1]][b[2]].work]
CollectedTgas == [b \in Collected |-> block[b[1]][b[2]].tgas]

GatheredTgas == SumFunctionOnSet(CollectedTgas, Collected)

Gathered(e) == CopiesAll(e, CollectedWork, Collected)
AtTables(e) == CopiesAll(e, table_work, Table)
AtContracts(e) == Copies(e, zec_work) + Copies(e, reward_work) + Copies(e, early_work)

\* WorkIsConserved and TgasIsConserved, of every kind of work by itself.
WorkBalance ==
  \A e : Gathered(e) = AtTables(e) + Sent(e, calls, "workload") + Sent(e, calls, "reward")
                         + AtContracts(e)

TgasBalance == GatheredTgas = SumFunctionOnSet(table_tgas, Table) + zec_tgas + SentTgas(calls)

LEMMA CallsCarry ==
  ASSUME Kept
  PROVE  /\ AreCalls(calls) /\ CarryTgas(calls)
         /\ CarryWork(calls, "workload") /\ CarryWork(calls, "reward")
BY DEF Kept, CallsKept, AreCalls, CarryTgas, CarryWork, IsSlashCall, IsWorkCall, IsRewardCall

LEMMA CallsCarryNext ==
  ASSUME Kept'
  PROVE  /\ AreCalls(calls') /\ CarryTgas(calls')
         /\ CarryWork(calls', "workload") /\ CarryWork(calls', "reward")
BY DEF Kept, CallsKept, AreCalls, CarryTgas, CarryWork, IsSlashCall, IsWorkCall, IsRewardCall

\* The bags and numbers of the two balances.
LEMMA BalanceBags ==
  ASSUME Kept
  PROVE  /\ IsFiniteSet(Collected)
         /\ \A b \in Collected : IsABag(CollectedWork[b]) /\ CollectedTgas[b] \in Int
         /\ AreBags(CollectedWork, Collected) /\ AreBags(table_work, Table)
         /\ IsABag(zec_work) /\ IsABag(reward_work) /\ IsABag(early_work)
         /\ \A t \in Table : table_tgas[t] \in Int
<1>1. IsFiniteSet(Collected) /\ AreBlocks(Collected)
  BY CollectedBlocks DEF Kept
<1>2. \A b \in Collected : IsABag(CollectedWork[b]) /\ CollectedTgas[b] \in Int
  BY <1>1, ContentAssumption DEF AreBlocks, CollectedWork, CollectedTgas
<1>3. AreBags(CollectedWork, Collected)
  BY <1>1, <1>2 DEF AreBags
<1>4. AreBags(table_work, Table) /\ \A t \in Table : table_tgas[t] \in Int
  BY NumberAssumption DEF AreBags, Kept, TablesKept
<1> QED BY <1>1, <1>2, <1>3, <1>4 DEF Kept, WorkKept

LEMMA BalanceTypes ==
  ASSUME Kept
  PROVE  /\ \A e : /\ Gathered(e) \in Nat /\ AtTables(e) \in Nat /\ AtContracts(e) \in Nat
                   /\ Sent(e, calls, "workload") \in Nat /\ Sent(e, calls, "reward") \in Nat
                   /\ Copies(e, zec_work) \in Nat /\ Copies(e, reward_work) \in Nat
                   /\ Copies(e, early_work) \in Nat
         /\ GatheredTgas \in Int /\ SumFunctionOnSet(table_tgas, Table) \in Int
         /\ SentTgas(calls) \in Int /\ zec_tgas \in Int
<1>1. ASSUME NEW e
      PROVE  /\ Gathered(e) \in Nat /\ AtTables(e) \in Nat /\ AtContracts(e) \in Nat
             /\ Sent(e, calls, "workload") \in Nat /\ Sent(e, calls, "reward") \in Nat
             /\ Copies(e, zec_work) \in Nat /\ Copies(e, reward_work) \in Nat
             /\ Copies(e, early_work) \in Nat
  <2>1. Gathered(e) \in Nat /\ AtTables(e) \in Nat
    BY BalanceBags, CopiesAllType DEF Gathered, AtTables
  <2>2. Sent(e, calls, "workload") \in Nat /\ Sent(e, calls, "reward") \in Nat
    BY CallsCarry, SentType
  <2>3. /\ Copies(e, zec_work) \in Nat /\ Copies(e, reward_work) \in Nat
        /\ Copies(e, early_work) \in Nat
    BY BalanceBags, CopiesType
  <2> QED BY <2>1, <2>2, <2>3 DEF AtContracts
<1>2. GatheredTgas \in Int
  BY BalanceBags, SumTakeOut DEF GatheredTgas
<1>3. SumFunctionOnSet(table_tgas, Table) \in Int
  BY BalanceBags, SumTakeOut, NumberAssumption
<1>4. SentTgas(calls) \in Int
  BY CallsCarry, SentTgasType
<1>5. zec_tgas \in Int
  BY DEF Kept, WorkKept
<1> QED BY <1>1, <1>2, <1>3, <1>4, <1>5

LEMMA InitBalance == Init => WorkBalance /\ TgasBalance
<1> SUFFICES ASSUME Init PROVE WorkBalance /\ TgasBalance
  OBVIOUS
<1>1. Collected = {} /\ calls = EmptyBag
  BY DEF Init, Collected
<1>2. \A type : Flight(EmptyBag, type) = {}
  BY DEF Flight, EmptyBag, SetToBag, BagToSet
<1>3. /\ \A e : Gathered(e) = 0 /\ \A type : Sent(e, calls, type) = 0
      /\ GatheredTgas = 0 /\ SentTgas(calls) = 0
  BY <1>1, <1>2, CopiesOfNone, SumOfNone DEF Gathered, GatheredTgas, Sent, SentTgas
<1>4. \A e : AtTables(e) = 0
  <2> TAKE e
  <2>1. AreBags(table_work, Table)
    BY NumberAssumption, NoCopies DEF Init, AreBags
  <2>2. \A t \in Table : table_work[t] = EmptyBag /\ e \notin DOMAIN table_work[t]
    BY DEF Init, EmptyBag, SetToBag
  <2> QED BY <2>1, <2>2, CopiesAllType DEF AtTables
<1>5. \A e : AtContracts(e) = 0
  BY NoCopies DEF Init, AtContracts
<1>6. SumFunctionOnSet(table_tgas, Table) = 0
  <2>1. \A t \in Table : table_tgas[t] = 0
    BY DEF Init
  <2> QED BY <2>1, NumberAssumption, SumOfZeros
<1>7. zec_tgas = 0
  BY DEF Init
<1> QED BY <1>3, <1>4, <1>5, <1>6, <1>7 DEF WorkBalance, TgasBalance

\* A block that is collected brings its work and its TGAS to its table.
LEMMA CollectBalance ==
  ASSUME Kept, WorkBalance, TgasBalance,
         NEW t \in Table, NEW h \in DOMAIN block[t], on_collect_statistic_info(t, h)
  PROVE  WorkBalance' /\ TgasBalance'
<1> DEFINE b == <<t, h>>
           c == block[t][h]
           D == {b}
<1>1. Kept' /\ Collected' = Collected \cup D /\ b \notin Collected
  <2>1. Kept' /\ Collected' = Collected \cup {<<t, h>>} /\ h \notin collected[t]
    BY CollectKeeps
  <2>2. <<t, h>> \notin Collected
    BY <2>1, CollectedMembers
  <2> QED BY <2>1, <2>2
<1>2. /\ table_work' = [table_work EXCEPT ![t] = @ (+) c.work]
      /\ table_tgas' = [table_tgas EXCEPT ![t] = @ + c.tgas]
      /\ UNCHANGED <<block, calls, slashVars, workVars, activated, reward_work, time>>
  BY DEF on_collect_statistic_info, process_workload_statistic_data
<1>3. c \in Contents /\ IsABag(c.work) /\ c.tgas \in Int
  BY ContentAssumption DEF Kept, BlocksKept
<1>4. /\ CollectedWork'[b] = c.work /\ CollectedTgas'[b] = c.tgas
      /\ \A a \in Collected : CollectedWork'[a] = CollectedWork[a] /\ CollectedTgas'[a] = CollectedTgas[a]
  BY <1>1, <1>2 DEF CollectedWork, CollectedTgas
<1>5. IsFiniteSet(D)
  BY FS_Singleton
<1>6. /\ IsFiniteSet(Collected)
      /\ \A a \in Collected : IsABag(CollectedWork[a]) /\ CollectedTgas[a] \in Int
      /\ AreBags(table_work, Table) /\ \A u \in Table : table_tgas[u] \in Int
  BY BalanceBags
<1> HIDE DEF b, c
<1>7. AreBags(CollectedWork', Collected) /\ AreBags(CollectedWork', D)
  BY <1>3, <1>4, <1>5, <1>6 DEF AreBags
<1>8. ASSUME NEW e PROVE Gathered(e)' = Gathered(e) + Copies(e, c.work)
  <2> DEFINE g == CollectedWork'
  <2>1. Gathered(e)' = CopiesAll(e, g, Collected \cup D)
    BY <1>1 DEF Gathered
  <2>2. Gathered(e) = CopiesAll(e, CollectedWork, Collected)
    BY DEF Gathered
  <2>3. Collected \cap D = {}
    BY <1>1
  <2>4. IsABag(g[b]) /\ g[b] = c.work /\ AreBags(g, Collected) /\ AreBags(g, D)
        /\ \A a \in Collected : g[a] = CollectedWork[a]
    BY <1>3, <1>4, <1>7
  <2> HIDE DEF g
  <2>5. CopiesAll(e, g, D) = Copies(e, c.work)
    BY <2>4, CopiesOfOne
  <2> HIDE DEF D
  <2>6. CopiesAll(e, g, Collected \cup D) = CopiesAll(e, g, Collected) + CopiesAll(e, g, D)
    BY <2>3, <2>4, CopiesUnion
  <2>7. CopiesAll(e, g, Collected) = CopiesAll(e, CollectedWork, Collected)
    BY <2>4, CopiesSame
  <2> QED BY <2>1, <2>2, <2>5, <2>6, <2>7
<1>9. GatheredTgas' = GatheredTgas + c.tgas
  <2> DEFINE g == CollectedTgas'
  <2>1. GatheredTgas' = SumFunctionOnSet(g, Collected \cup {b})
    BY <1>1 DEF GatheredTgas
  <2>2. GatheredTgas = SumFunctionOnSet(CollectedTgas, Collected)
    BY DEF GatheredTgas
  <2>3. g[b] = c.tgas /\ \A a \in Collected : g[a] = CollectedTgas[a]
    BY <1>4
  <2> HIDE DEF g
  <2>4. \A a \in Collected \cup {b} : g[a] \in Int
    BY <1>3, <1>6, <2>3
  <2>5. SumFunctionOnSet(g, Collected \cup {b}) = SumFunctionOnSet(g, Collected) + g[b]
    BY <1>1, <1>6, <2>4, SumAdd
  <2>6. SumFunctionOnSet(g, Collected) = SumFunctionOnSet(CollectedTgas, Collected)
    BY <1>6, <2>3, SumSame
  <2> QED BY <2>1, <2>2, <2>3, <2>5, <2>6
<1>10. ASSUME NEW e PROVE AtTables(e)' = AtTables(e) + Copies(e, c.work)
  <2>1. IsABag(table_work[t]) /\ IsABag(table_work[t] (+) c.work)
    BY <1>3, <1>6, PlusType DEF AreBags
  <2>2. /\ table_work'[t] = table_work[t] (+) c.work
        /\ \A u \in Table \ {t} : table_work'[u] = table_work[u]
    BY <1>2 DEF Kept, MapsKept
  <2>3. AreBags(table_work', Table)
    BY <1>6, <2>1, <2>2 DEF AreBags
  <2>4. Copies(e, table_work'[t]) = Copies(e, table_work[t]) + Copies(e, c.work)
    BY <2>2, PlusCopies
  <2>5. CopiesAll(e, table_work', Table)
        = CopiesAll(e, table_work, Table) + (Copies(e, table_work'[t]) - Copies(e, table_work[t]))
    BY <1>6, <2>2, <2>3, CopiesChange
  <2>6. Copies(e, table_work[t]) \in Nat /\ Copies(e, c.work) \in Nat
    BY <1>3, <1>6, CopiesType DEF AreBags
  <2> QED BY <2>4, <2>5, <2>6 DEF AtTables
<1>11. SumFunctionOnSet(table_tgas', Table) = SumFunctionOnSet(table_tgas, Table) + c.tgas
  <2>1. table_tgas'[t] = table_tgas[t] + c.tgas /\ \A u \in Table \ {t} : table_tgas'[u] = table_tgas[u]
    BY <1>2 DEF Kept, TablesKept
  <2>2. \A u \in Table : table_tgas[u] \in Int /\ table_tgas'[u] \in Int
    BY <1>3, <1>6, <2>1
  <2>3. SumFunctionOnSet(table_tgas', Table)
        = SumFunctionOnSet(table_tgas, Table) + (table_tgas'[t] - table_tgas[t])
    BY <2>1, <2>2, NumberAssumption, SumChange
  <2> QED BY <1>3, <2>1, <2>2, <2>3
<1>12. \A e : Copies(e, c.work) \in Nat
  BY <1>3, CopiesType
<1>13. WorkBalance'
  <2> SUFFICES ASSUME NEW e
               PROVE  Gathered(e)' = AtTables(e)' + Sent(e, calls', "workload")
                                       + Sent(e, calls', "reward") + AtContracts(e)'
    BY DEF WorkBalance
  <2>1. Gathered(e) = AtTables(e) + Sent(e, calls, "workload") + Sent(e, calls, "reward")
                        + AtContracts(e)
    BY DEF WorkBalance
  <2>2. calls' = calls /\ AtContracts(e)' = AtContracts(e)
    BY <1>2 DEF AtContracts, workVars
  <2> QED BY <1>8, <1>10, <1>12, <2>1, <2>2, BalanceTypes
<1>14. TgasBalance'
  <2>1. zec_tgas' = zec_tgas /\ calls' = calls
    BY <1>2 DEF workVars
  <2> QED BY <1>3, <1>9, <1>11, <2>1, BalanceTypes DEF TgasBalance
<1> QED BY <1>13, <1>14

\* Steps that neither collect nor change a block that has been collected.
LEMMA GatheredStays ==
  ASSUME Kept, Collected' = Collected,
         \A b \in Collected : block'[b[1]][b[2]] = block[b[1]][b[2]]
  PROVE  GatheredTgas' = GatheredTgas /\ \A e : Gathered(e)' = Gathered(e)
<1>1. CollectedWork' = CollectedWork /\ CollectedTgas' = CollectedTgas
  BY DEF CollectedWork, CollectedTgas
<1> QED BY <1>1 DEF Gathered, GatheredTgas

\* Steps after which everything is where it was.
LEMMA BalanceStays ==
  ASSUME Kept, Kept', WorkBalance, TgasBalance, Collected' = Collected,
         \A b \in Collected : block'[b[1]][b[2]] = block[b[1]][b[2]],
         UNCHANGED <<tableVars, workVars, reward_work>>,
         SameOf(calls', calls, "workload"), SameOf(calls', calls, "reward")
  PROVE  WorkBalance' /\ TgasBalance'
<1>1. GatheredTgas' = GatheredTgas /\ \A e : Gathered(e)' = Gathered(e)
  BY GatheredStays
<1>2. AreCalls(calls) /\ AreCalls(calls')
  BY CallsCarry, CallsCarryNext
<1>3. \A e : /\ Sent(e, calls', "workload") = Sent(e, calls, "workload")
             /\ Sent(e, calls', "reward") = Sent(e, calls, "reward")
             /\ SentTgas(calls') = SentTgas(calls)
  BY <1>2, SentStays
<1>4. table_work' = table_work /\ table_tgas' = table_tgas /\ zec_tgas' = zec_tgas
      /\ zec_work' = zec_work /\ early_work' = early_work /\ reward_work' = reward_work
  BY DEF tableVars, workVars
<1>5. \A e : AtTables(e)' = AtTables(e) /\ AtContracts(e)' = AtContracts(e)
  BY <1>4 DEF AtTables, AtContracts
<1> QED BY <1>1, <1>3, <1>4, <1>5 DEF WorkBalance, TgasBalance

\* A report takes what the table has of work and TGAS along, or leaves both.
LEMMA ReportBalance ==
  ASSUME Kept, WorkBalance, TgasBalance, NEW t \in Table, report_summarized_statistic_info(t)
  PROVE  WorkBalance' /\ TgasBalance'
<1>1. /\ Kept' /\ Collected' = Collected
      /\ calls' = Sending(ReportOf(t)) /\ IsFiniteSet(ReportOf(t))
      /\ table_work' = [table_work EXCEPT ![t] = EmptyBag]
      /\ table_tgas' = IF table_work[t] # EmptyBag THEN [table_tgas EXCEPT ![t] = 0]
                                                   ELSE table_tgas
  BY ReportKeeps
<1>2. /\ fulltable_num[t] # 0
      /\ block' = block /\ zec_tgas' = zec_tgas /\ zec_work' = zec_work
      /\ early_work' = early_work /\ reward_work' = reward_work
  BY DEF report_summarized_statistic_info, workVars
<1>3. /\ SlashReport(t).type = "slash" /\ WorkReport(t).type = "workload"
      /\ WorkReport(t).work = table_work[t] /\ WorkReport(t).tgas = table_tgas[t]
  BY <1>2, ReportedCalls
<1>4. GatheredTgas' = GatheredTgas /\ \A e : Gathered(e)' = Gathered(e)
  BY <1>1, <1>2, GatheredStays
<1>5. \A e : AtContracts(e)' = AtContracts(e)
  BY <1>2 DEF AtContracts
<1>6. AreCalls(calls) /\ AreCalls(calls') /\ CarryTgas(calls') /\ CarryWork(calls', "workload")
  BY <1>1, CallsCarry, CallsCarryNext
<1>7. SameOf(calls, calls', "reward")
  <2>1. \A k \in ReportOf(t) : k.type # "reward"
    BY <1>3 DEF ReportOf
  <2> QED BY <1>1, <1>6, <2>1, SendingIsMore
<1>8. \A e : Sent(e, calls', "reward") = Sent(e, calls, "reward")
  BY <1>6, <1>7, SentStays
<1>9. AreBags(table_work, Table) /\ \A u \in Table : table_tgas[u] \in Int
  BY BalanceBags
<1>10. CASE table_work[t] # EmptyBag
  <2> DEFINE m == WorkReport(t)
  <2>1. OneMore(calls, calls', "workload", m)
    <3>1. m \in ReportOf(t) /\ \A k \in ReportOf(t) : k # m => k.type # m.type
      BY <1>3, <1>10 DEF ReportOf
    <3> HIDE DEF m
    <3>2. OneMore(calls, calls', m.type, m)
      BY <1>1, <1>6, <3>1, SendingIsMore
    <3> QED BY <1>3, <3>2 DEF m
  <2>2. m.work = table_work[t] /\ m.tgas = table_tgas[t]
    BY <1>3
  <2> HIDE DEF m
  <2>3. \A e : Sent(e, calls', "workload") = Sent(e, calls, "workload") + Copies(e, table_work[t])
    BY <1>6, <2>1, <2>2, SentGrows
  <2>4. SentTgas(calls') = SentTgas(calls) + table_tgas[t]
    BY <1>6, <2>1, <2>2, SentTgasGrows
  <2>5. ASSUME NEW e PROVE AtTables(e)' = AtTables(e) - Copies(e, table_work[t])
    <3>1. table_work'[t] = EmptyBag /\ \A u \in Table \ {t} : table_work'[u] = table_work[u]
      BY <1>1 DEF Kept, MapsKept
    <3>2. AreBags(table_work', Table)
      BY <1>9, <3>1, NoCopies DEF AreBags
    <3>3. CopiesAll(e, table_work', Table)
          = CopiesAll(e, table_work, Table) + (Copies(e, table_work'[t]) - Copies(e, table_work[t]))
      BY <1>9, <3>1, <3>2, CopiesChange
    <3>4. Copies(e, table_work'[t]) = 0
      BY <3>1, NoCopies
    <3>5. Copies(e, table_work[t]) \in Nat /\ AtTables(e) \in Nat
      BY <1>9, CopiesType, BalanceTypes DEF AreBags
    <3> QED BY <3>3, <3>4, <3>5 DEF AtTables
  <2>6. SumFunctionOnSet(table_tgas', Table) = SumFunctionOnSet(table_tgas, Table) - table_tgas[t]
    <3>1. table_tgas'[t] = 0 /\ \A u \in Table \ {t} : table_tgas'[u] = table_tgas[u]
      BY <1>1, <1>10 DEF Kept, TablesKept
    <3>2. \A u \in Table : table_tgas[u] \in Int /\ table_tgas'[u] \in Int
      BY <1>9, <3>1
    <3>3. SumFunctionOnSet(table_tgas', Table)
          = SumFunctionOnSet(table_tgas, Table) + (table_tgas'[t] - table_tgas[t])
      BY <3>1, <3>2, NumberAssumption, SumChange
    <3> QED BY <3>1, <3>2, <3>3, BalanceTypes
  <2>7. WorkBalance'
    <3> SUFFICES ASSUME NEW e
                 PROVE  Gathered(e)' = AtTables(e)' + Sent(e, calls', "workload")
                                         + Sent(e, calls', "reward") + AtContracts(e)'
      BY DEF WorkBalance
    <3>1. Gathered(e) = AtTables(e) + Sent(e, calls, "workload") + Sent(e, calls, "reward")
                          + AtContracts(e)
      BY DEF WorkBalance
    <3>2. Copies(e, table_work[t]) \in Nat
      BY <1>9, CopiesType DEF AreBags
    <3> QED BY <1>4, <1>5, <1>8, <2>3, <2>5, <3>1, <3>2, BalanceTypes
  <2>8. TgasBalance'
    <3>1. table_tgas[t] \in Int
      BY <1>9
    <3> QED BY <1>2, <1>4, <2>4, <2>6, <3>1, BalanceTypes DEF TgasBalance
  <2> QED BY <2>7, <2>8
<1>11. CASE table_work[t] = EmptyBag
  <2>1. table_work' = table_work /\ table_tgas' = table_tgas
    BY <1>1, <1>11 DEF Kept, MapsKept
  <2>2. SameOf(calls, calls', "workload")
    <3>1. \A k \in ReportOf(t) : k.type # "workload"
      BY <1>3, <1>11 DEF ReportOf
    <3> QED BY <1>1, <1>6, <3>1, SendingIsMore
  <2>3. \A e : /\ Sent(e, calls', "workload") = Sent(e, calls, "workload")
               /\ SentTgas(calls') = SentTgas(calls)
    BY <1>6, <2>2, SentStays
  <2>4. \A e : AtTables(e)' = AtTables(e)
    BY <2>1 DEF AtTables
  <2> QED BY <1>2, <1>4, <1>5, <1>8, <2>1, <2>3, <2>4 DEF WorkBalance, TgasBalance
<1> QED BY <1>10, <1>11

\* ZEC takes what the call carries, to its books or, before the activation, out of them.
LEMMA ReceiveBalance ==
  ASSUME Kept, WorkBalance, TgasBalance, NEW m \in DOMAIN calls, Deliver(m),
         on_receive_workload(m)
  PROVE  WorkBalance' /\ TgasBalance'
<1>1. /\ Kept' /\ IsWorkCall(m) /\ reward_work' = reward_work
      /\ zec_tgas' = zec_tgas + m.tgas
      /\ IF activated THEN zec_work' = zec_work (+) m.work /\ early_work' = early_work
                      ELSE early_work' = early_work (+) m.work /\ zec_work' = zec_work
  BY ReceiveWorkKeeps
<1>2. Collected' = Collected /\ UNCHANGED <<block, tableVars>> /\ calls' = Without(m)
  BY DeliverKeepsTables DEF Deliver
<1>3. GatheredTgas' = GatheredTgas /\ \A e : Gathered(e)' = Gathered(e)
  BY <1>2, GatheredStays
<1>4. table_work' = table_work /\ table_tgas' = table_tgas /\ \A e : AtTables(e)' = AtTables(e)
  BY <1>2 DEF tableVars, AtTables
<1>5. /\ AreCalls(calls) /\ CarryTgas(calls) /\ CarryWork(calls, "workload")
      /\ AreCalls(calls') /\ CarryTgas(calls') /\ CarryWork(calls', "workload")
      /\ CarryWork(calls', "reward")
  BY <1>1, CallsCarry, CallsCarryNext
<1>6. m.type = "workload" /\ IsABag(m.work) /\ m.tgas \in Int
  BY <1>1 DEF IsWorkCall
<1>7. OneMore(calls', calls, "workload", m) /\ SameOf(calls', calls, "reward")
  BY <1>2, <1>5, <1>6, WithoutIsLess
<1>8. \A e : /\ Sent(e, calls, "workload") = Sent(e, calls', "workload") + Copies(e, m.work)
             /\ Sent(e, calls, "reward") = Sent(e, calls', "reward")
  BY <1>5, <1>7, SentGrows, SentStays
<1>9. SentTgas(calls) = SentTgas(calls') + m.tgas
  BY <1>5, <1>7, SentTgasGrows
<1>10. ASSUME NEW e PROVE AtContracts(e)' = AtContracts(e) + Copies(e, m.work)
  <2>1. Copies(e, m.work) \in Nat
    BY <1>6, CopiesType
  <2>2. \/ /\ Copies(e, zec_work') = Copies(e, zec_work) + Copies(e, m.work)
           /\ Copies(e, early_work') = Copies(e, early_work)
        \/ /\ Copies(e, early_work') = Copies(e, early_work) + Copies(e, m.work)
           /\ Copies(e, zec_work') = Copies(e, zec_work)
    BY <1>1, PlusCopies
  <2>3. /\ Copies(e, zec_work) \in Nat /\ Copies(e, reward_work) \in Nat
        /\ Copies(e, early_work) \in Nat
    BY BalanceTypes
  <2> QED BY <1>1, <2>1, <2>2, <2>3 DEF AtContracts
<1>11. SentTgas(calls') \in Int /\ \A e : Sent(e, calls', "workload") \in Nat
  BY <1>5, SentType, SentTgasType
<1>12. WorkBalance'
  <2> SUFFICES ASSUME NEW e
               PROVE  Gathered(e)' = AtTables(e)' + Sent(e, calls', "workload")
                                       + Sent(e, calls', "reward") + AtContracts(e)'
    BY DEF WorkBalance
  <2>1. Gathered(e) = AtTables(e) + Sent(e, calls, "workload") + Sent(e, calls, "reward")
                        + AtContracts(e)
    BY DEF WorkBalance
  <2>2. Copies(e, m.work) \in Nat
    BY <1>6, CopiesType
  <2> QED BY <1>3, <1>4, <1>8, <1>10, <1>11, <2>1, <2>2, BalanceTypes
<1>13. TgasBalance'
  BY <1>1, <1>3, <1>4, <1>6, <1>9, <1>11, BalanceTypes DEF TgasBalance
<1> QED BY <1>12, <1>13

\* The reward contract takes what the call carries.
LEMMA CalculateBalance ==
  ASSUME Kept, WorkBalance, TgasBalance, NEW m \in DOMAIN calls, Deliver(m),
         calculate_reward(m)
  PROVE  WorkBalance' /\ TgasBalance'
<1>1. /\ Kept' /\ IsRewardCall(m) /\ zec_work' = zec_work /\ zec_tgas' = zec_tgas
      /\ early_work' = early_work /\ reward_work' = reward_work (+) m.work
  BY CalculateKeeps DEF workVars
<1>2. Collected' = Collected /\ UNCHANGED <<block, tableVars>> /\ calls' = Without(m)
  BY DeliverKeepsTables DEF Deliver
<1>3. GatheredTgas' = GatheredTgas /\ \A e : Gathered(e)' = Gathered(e)
  BY <1>2, GatheredStays
<1>4. table_work' = table_work /\ table_tgas' = table_tgas /\ \A e : AtTables(e)' = AtTables(e)
  BY <1>2 DEF tableVars, AtTables
<1>5. /\ AreCalls(calls) /\ CarryWork(calls, "reward")
      /\ AreCalls(calls') /\ CarryWork(calls', "reward")
  BY <1>1, CallsCarry, CallsCarryNext
<1>6. m.type = "reward" /\ IsABag(m.work)
  BY <1>1 DEF IsRewardCall
<1>7. OneMore(calls', calls, "reward", m) /\ SameOf(calls', calls, "workload")
  BY <1>2, <1>5, <1>6, WithoutIsLess
<1>8. \A e : /\ Sent(e, calls, "reward") = Sent(e, calls', "reward") + Copies(e, m.work)
             /\ Sent(e, calls, "workload") = Sent(e, calls', "workload")
             /\ SentTgas(calls) = SentTgas(calls')
  BY <1>5, <1>7, SentGrows, SentStays
<1>9. ASSUME NEW e PROVE AtContracts(e)' = AtContracts(e) + Copies(e, m.work)
  <2>1. /\ Copies(e, m.work) \in Nat
        /\ Copies(e, reward_work') = Copies(e, reward_work) + Copies(e, m.work)
    BY <1>1, <1>6, CopiesType, PlusCopies
  <2>2. /\ Copies(e, zec_work) \in Nat /\ Copies(e, reward_work) \in Nat
        /\ Copies(e, early_work) \in Nat
    BY BalanceTypes
  <2> QED BY <1>1, <2>1, <2>2 DEF AtContracts
<1>10. \A e : Sent(e, calls', "reward") \in Nat /\ Copies(e, m.work) \in Nat
  BY <1>5, <1>6, SentType, CopiesType
<1>11. WorkBalance'
  <2> SUFFICES ASSUME NEW e
               PROVE  Gathered(e)' = AtTables(e)' + Sent(e, calls', "workload")
                                       + Sent(e, calls', "reward") + AtContracts(e)'
    BY DEF WorkBalance
  <2>1. Gathered(e) = AtTables(e) + Sent(e, calls, "workload") + Sent(e, calls, "reward")
                        + AtContracts(e)
    BY DEF WorkBalance
  <2> QED BY <1>3, <1>4, <1>8, <1>9, <1>10, <2>1, BalanceTypes
<1>12. TgasBalance'
  BY <1>1, <1>3, <1>4, <1>8 DEF TgasBalance
<1> QED BY <1>11, <1>12

\* ZEC's workload contract passes on what it has.
LEMMA TimerBalance ==
  ASSUME Kept, WorkBalance, TgasBalance, workload_on_timer
  PROVE  WorkBalance' /\ TgasBalance'
<1>1. /\ Kept' /\ Collected' = Collected /\ zec_work' = EmptyBag
      /\ UNCHANGED <<block, table_work, table_tgas, zec_tgas, early_work, reward_work>>
  BY TimerKeeps DEF tableVars
<1>2. GatheredTgas' = GatheredTgas /\ \A e : Gathered(e)' = Gathered(e)
  BY <1>1, GatheredStays
<1>3. \A e : AtTables(e)' = AtTables(e)
  BY <1>1 DEF AtTables
<1>4. /\ AreCalls(calls) /\ AreCalls(calls') /\ CarryWork(calls', "reward")
  BY <1>1, CallsCarry, CallsCarryNext
<1>5. ASSUME NEW e PROVE AtContracts(e)' = AtContracts(e) - Copies(e, zec_work)
  <2>1. Copies(e, zec_work') = 0
    BY <1>1, NoCopies
  <2>2. /\ Copies(e, zec_work) \in Nat /\ Copies(e, reward_work) \in Nat
        /\ Copies(e, early_work) \in Nat
    BY BalanceTypes
  <2> QED BY <1>1, <2>1, <2>2 DEF AtContracts
<1>6. /\ SameOf(calls, calls', "workload")
      /\ \A e : Sent(e, calls', "reward") = Sent(e, calls, "reward") + Copies(e, zec_work)
  <2>1. CASE zec_work # EmptyBag
    <3> DEFINE m == [type |-> "reward", work |-> zec_work]
               D == {m}
    <3>1. IsFiniteSet(D)
      BY FS_Singleton
    <3>2. /\ m.type = "reward" /\ m.work = zec_work /\ m \in D
          /\ \A k \in D : k = m
      OBVIOUS
    <3>3. calls' = Sending(D)
      BY <2>1 DEF workload_on_timer
    <3> HIDE DEF D, m
    <3>4. OneMore(calls, calls', m.type, m) /\ SameOf(calls, calls', "workload")
      BY <1>4, <3>1, <3>2, <3>3, SendingIsMore
    <3>5. OneMore(calls, calls', "reward", m)
      BY <3>2, <3>4
    <3>6. \A e : Sent(e, calls', "reward") = Sent(e, calls, "reward") + Copies(e, zec_work)
      BY <1>4, <3>2, <3>5, SentGrows
    <3> QED BY <3>4, <3>6
  <2>2. CASE zec_work = EmptyBag
    <3>1. calls' = calls
      BY <2>2 DEF workload_on_timer
    <3>2. \A e : Copies(e, zec_work) = 0 /\ Sent(e, calls, "reward") \in Nat
      BY <2>2, NoCopies, BalanceTypes
    <3> QED BY <3>1, <3>2 DEF SameOf
  <2> QED BY <2>1, <2>2
<1>7. \A e : /\ Sent(e, calls', "workload") = Sent(e, calls, "workload")
             /\ SentTgas(calls') = SentTgas(calls)
  BY <1>4, <1>6, SentStays
<1>8. WorkBalance'
  <2> SUFFICES ASSUME NEW e
               PROVE  Gathered(e)' = AtTables(e)' + Sent(e, calls', "workload")
                                       + Sent(e, calls', "reward") + AtContracts(e)'
    BY DEF WorkBalance
  <2>1. Gathered(e) = AtTables(e) + Sent(e, calls, "workload") + Sent(e, calls, "reward")
                        + AtContracts(e)
    BY DEF WorkBalance
  <2> QED BY <1>2, <1>3, <1>5, <1>6, <1>7, <2>1, BalanceTypes
<1>9. TgasBalance'
  BY <1>1, <1>2, <1>7 DEF TgasBalance
<1> QED BY <1>8, <1>9

LEMMA NextBalance ==
  Kept /\ Kept' /\ WorkBalance /\ TgasBalance /\ [Next]_vars => WorkBalance' /\ TgasBalance'
<1> SUFFICES ASSUME Kept, Kept', WorkBalance, TgasBalance, [Next]_vars
             PROVE  WorkBalance' /\ TgasBalance'
  OBVIOUS
<1>1. CASE Collect
  BY <1>1, CollectBalance DEF Collect
<1>2. CASE Report
  BY <1>2, ReportBalance DEF Report
<1>3. CASE Receive
  <2>1. PICK m \in DOMAIN calls : Deliver(m)
    BY <1>3 DEF Receive, BagToSet
  <2>2. CASE summarize_slash_info(m)
    <3>1. UNCHANGED <<workVars, reward_work>> /\ IsSlashCall(m)
      BY <2>1, <2>2, SummarizeKeeps
    <3>2. Collected' = Collected /\ UNCHANGED <<block, tableVars>> /\ calls' = Without(m)
      BY <2>1, DeliverKeepsTables DEF Deliver
    <3>3. m.type = "slash" /\ AreCalls(calls)
      BY <3>1, CallsCarry DEF IsSlashCall
    <3>4. SameOf(calls', calls, "workload") /\ SameOf(calls', calls, "reward")
      BY <3>2, <3>3, WithoutIsLess
    <3> QED BY <3>1, <3>2, <3>4, BalanceStays
  <2>3. CASE on_receive_workload(m)
    BY <2>1, <2>3, ReceiveBalance
  <2>4. CASE calculate_reward(m)
    BY <2>1, <2>4, CalculateBalance
  <2> QED BY <2>1, <2>2, <2>3, <2>4 DEF Deliver
<1>4. CASE workload_on_timer
  BY <1>4, TimerBalance
<1>5. CASE do_unqualified_node_slash
  <2>1. Collected' = Collected /\ UNCHANGED <<block, tableVars, calls, workVars, reward_work>>
    BY <1>5, RoundKeeps
  <2>2. SameOf(calls', calls, "workload") /\ SameOf(calls', calls, "reward")
    BY <2>1 DEF SameOf
  <2> QED BY <2>1, <2>2, BalanceStays
<1>6. CASE Grow
  <2>1. PICK t \in Table, c \in Contents : Produce(t, c)
    BY <1>6 DEF Grow
  <2>2. /\ Collected' = Collected
        /\ \A b \in Collected : block'[b[1]][b[2]] = block[b[1]][b[2]]
        /\ UNCHANGED <<tableVars, calls, workVars, reward_work>>
    BY <2>1, ProduceKeeps
  <2>3. SameOf(calls', calls, "workload") /\ SameOf(calls', calls, "reward")
    BY <2>2 DEF SameOf
  <2> QED BY <2>2, <2>3, BalanceStays
<1>7. CASE Activate \/ Tick \/ UNCHANGED vars
  <2>1. Collected' = Collected /\ UNCHANGED <<block, tableVars, calls, workVars, reward_work>>
    BY <1>7, OthersKeep
  <2>2. SameOf(calls', calls, "workload") /\ SameOf(calls', calls, "reward")
    BY <2>1 DEF SameOf
  <2> QED BY <2>1, <2>2, BalanceStays
<1> QED BY <1>1, <1>2, <1>3, <1>4, <1>5, <1>6, <1>7 DEF Next

\* The balances are what the property says of the sums.
LEMMA BalanceIsConservation ==
  ASSUME Kept, WorkBalance, TgasBalance
  PROVE  WorkloadConserved
<1>1. \A type : InFlight(type) = Flight(calls, type)
  BY DEF InFlight, Flight
<1>2. TgasIsConserved
  BY <1>1 DEF TgasIsConserved, TgasBalance, GatheredTgas, CollectedTgas, SentTgas, TgasOf
<1>3. /\ WorkCollected = SumOfBags(CollectedWork, Collected)
      /\ \A type : WorkSent(type) = SumOfBags(WorkOf(Flight(calls, type)), Flight(calls, type))
  BY <1>1 DEF WorkCollected, CollectedWork, WorkSent, WorkOf
<1>4. /\ AreBags(CollectedWork, Collected) /\ AreBags(table_work, Table)
      /\ IsABag(zec_work) /\ IsABag(reward_work) /\ IsABag(early_work)
  BY BalanceBags
<1>5. /\ AreBags(WorkOf(Flight(calls, "workload")), Flight(calls, "workload"))
      /\ AreBags(WorkOf(Flight(calls, "reward")), Flight(calls, "reward"))
  BY CallsCarry, SentType
<1> DEFINE T == SumOfBags(table_work, Table)
           S == WorkSent("workload")
           R == WorkSent("reward")
           B1 == T (+) S
           B2 == B1 (+) zec_work
           B3 == B2 (+) R
           B4 == B3 (+) reward_work
           B5 == B4 (+) early_work
<1>6. IsABag(WorkCollected) /\ \A e : Copies(e, WorkCollected) = Gathered(e)
  BY <1>3, <1>4, SumOfBagsType DEF Gathered
<1>7. IsABag(T) /\ \A e : Copies(e, T) = AtTables(e)
  BY <1>4, SumOfBagsType DEF AtTables
<1>8. IsABag(S) /\ \A e : Copies(e, S) = Sent(e, calls, "workload")
  BY <1>3, <1>5, SumOfBagsType DEF Sent
<1>9. IsABag(R) /\ \A e : Copies(e, R) = Sent(e, calls, "reward")
  BY <1>3, <1>5, SumOfBagsType DEF Sent
<1> HIDE DEF T, S, R
<1>10. IsABag(B1) /\ \A e : Copies(e, B1) = Copies(e, T) + Copies(e, S)
  BY <1>7, <1>8, PlusType, PlusCopies
<1> HIDE DEF B1
<1>11. IsABag(B2) /\ \A e : Copies(e, B2) = Copies(e, B1) + Copies(e, zec_work)
  BY <1>4, <1>10, PlusType, PlusCopies
<1> HIDE DEF B2
<1>12. IsABag(B3) /\ \A e : Copies(e, B3) = Copies(e, B2) + Copies(e, R)
  BY <1>9, <1>11, PlusType, PlusCopies
<1> HIDE DEF B3
<1>13. IsABag(B4) /\ \A e : Copies(e, B4) = Copies(e, B3) + Copies(e, reward_work)
  BY <1>4, <1>12, PlusType, PlusCopies
<1> HIDE DEF B4
<1>14. IsABag(B5) /\ \A e : Copies(e, B5) = Copies(e, B4) + Copies(e, early_work)
  BY <1>4, <1>13, PlusType, PlusCopies
<1> HIDE DEF B5
<1>15. ASSUME NEW e PROVE Copies(e, WorkCollected) = Copies(e, B5)
  <2>1. Gathered(e) = AtTables(e) + Sent(e, calls, "workload") + Sent(e, calls, "reward")
                        + AtContracts(e)
    BY DEF WorkBalance
  <2>2. Copies(e, B5) = AtTables(e) + Sent(e, calls, "workload") + Copies(e, zec_work)
                          + Sent(e, calls, "reward") + Copies(e, reward_work) + Copies(e, early_work)
    BY <1>7, <1>8, <1>9, <1>10, <1>11, <1>12, <1>13, <1>14
  <2> QED BY <1>6, <2>1, <2>2, BalanceTypes DEF AtContracts
<1>16. WorkCollected = B5
  BY <1>6, <1>14, <1>15, SameCopies
<1>17. WorkIsConserved
  BY <1>16 DEF WorkIsConserved, B5, B4, B3, B2, B1, T, S, R
<1> QED BY <1>2, <1>17 DEF WorkloadConserved

\* No work and no change of the pledged TGAS of a collected block is lost or counted twice on
\* its way through the three contracts, whatever is reported, sent on or delivered in what
\* order; work that reaches ZEC before the activation is the only work left out.
THEOREM WorkloadIsConserved == Spec => []WorkloadConserved
<1>1. Init => WorkBalance /\ TgasBalance
  BY InitBalance
<1>2. Kept /\ Kept' /\ WorkBalance /\ TgasBalance /\ [Next]_vars => WorkBalance' /\ TgasBalance'
  BY NextBalance
<1>3. Kept /\ WorkBalance /\ TgasBalance => WorkloadConserved
  BY BalanceIsConservation
<1> QED BY <1>1, <1>2, <1>3, KeptAlways, PTL DEF Spec
=============================================================================
