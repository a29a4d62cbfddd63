--------------------------- MODULE ElectionProofs ---------------------------
(***************************************************************************)
(* Proofs about modules Rotation, Elections and StandbyPool: for groups,   *)
(* pools and ranges of any size the numbers of an election are sound and   *)
(* so is what it does; and for any number of groups, any pools and sizes,  *)
(* whatever order calls, changes of the pool and of the sizes come in, so  *)
(* are the groups.  The last part is about the groups of the beacon chain, *)
(* their pool, and the turns in which contracts are called.                *)
(***************************************************************************)
EXTENDS Elections, StandbyPool, FiniteSetTheorems, TLAPS

(***************************************************************************)
(* The rotation count is at least one, and no more than the group.         *)
(***************************************************************************)
LEMMA RotationCount ==
  ASSUME NEW n \in Nat, NEW range, IsRange(range)
  PROVE  /\ calculate_rotation_count(n, range) \in Nat \ {0}
         /\ n # 0 => calculate_rotation_count(n, range) <= n
<1> DEFINE share == (RotationRatio * n) \div 100
<1>1. RotationRatio \in Nat /\ RotationRatio <= 100
  BY RatioAssumption
<1>2. RotationRatio * n \in Nat /\ RotationRatio * n <= 100 * n
  BY <1>1
<1>3. share \in Nat /\ share <= n
  BY <1>2
<1> HIDE DEF share
<1>4. calculate_rotation_count(n, range) =
        IF n = 0 THEN range.min ELSE IF share <= 1 THEN 1 ELSE share
  BY DEF calculate_rotation_count, share
<1> QED BY <1>3, <1>4 DEF IsRange

\* The limit on a rotation: somebody, and no more than the group or the standbys.
LEMMA Limit ==
  ASSUME NEW n \in Nat, NEW f \in Nat \ {0}, NEW range, IsRange(range)
  PROVE  /\ RotationLimit(n, f, range) \in 1 .. f
         /\ RotationLimit(n, f, range) <= calculate_rotation_count(n, range)
         /\ n # 0 => RotationLimit(n, f, range) <= n
  BY RotationCount DEF RotationLimit, Smaller

(***************************************************************************)
(* The numbers.  What is unsigned in the code does not fall below zero.    *)
(***************************************************************************)
LEMMA Counts ==
  ASSUME NEW cluster \in BOOLEAN, NEW n \in Nat, NEW c \in 0 .. n, NEW f \in Nat \ {0},
         NEW range, IsRange(range), n <= range.max,
         NEW u, u = Smaller(c, RotationLimit(n, f, range)),
         (n - u) + f >= range.min
  PROVE  LET in == ElectInCount(n, u, f, range)
             out == ElectOutCount(cluster, n, u, f, range)
         IN  /\ u \in 0 .. n
             /\ in \in 1 .. f
             /\ out \in 0 .. n - u
             /\ n # 0 => u + out <= calculate_rotation_count(n, range)
             /\ (n - u - out) + in \in 1 .. range.max
             /\ n >= range.min => (n - u - out) + in >= n
             /\ n = 0 => (n - u - out) + in = range.min
<1> DEFINE limit == RotationLimit(n, f, range)
           rc == calculate_rotation_count(n, range)
           scarce == StandbysScarce(n, f)
           in == ElectInCount(n, u, f, range)
           out == ElectOutCount(cluster, n, u, f, range)
           min == range.min
           max == range.max
<1>1. limit \in 1 .. f /\ limit <= rc /\ rc \in Nat /\ (n # 0 => limit <= n)
  BY Limit, RotationCount
<1>2. min \in Nat \ {0} /\ max \in Nat /\ min <= max
  BY DEF IsRange
<1>3. u \in 0 .. n /\ u <= limit
  BY <1>1 DEF Smaller
<1>4. in = IF n >= max THEN limit ELSE IF n < min THEN min - n
           ELSE IF limit <= max - (n - u) THEN limit ELSE max - (n - u)
  BY DEF ElectInCount, Smaller
<1>5. out = IF n >= max \/ (n >= min /\ cluster /\ scarce) THEN in - u ELSE 0
  BY DEF ElectOutCount
<1> HIDE DEF limit, rc, scarce, in, out, min, max
<1>6. n <= max /\ (n - u) + f >= min
  BY DEF min, max
<1>7. CASE n >= max
  BY <1>1, <1>2, <1>3, <1>4, <1>5, <1>6, <1>7 DEF rc, in, out, min, max
<1>8. CASE n < min
  BY <1>1, <1>2, <1>3, <1>4, <1>5, <1>6, <1>8 DEF rc, in, out, min, max
<1>9. CASE n < max /\ n >= min
  <2>1. n # 0 /\ in \in 1 .. limit /\ in >= u /\ in <= max - (n - u)
    BY <1>1, <1>2, <1>3, <1>4, <1>6, <1>9
  <2>2. out = in - u \/ out = 0
    BY <1>5
  <2> QED BY <1>1, <1>2, <1>3, <1>6, <1>9, <2>1, <2>2 DEF rc, in, out, min, max
<1> QED BY <1>2, <1>6, <1>7, <1>8, <1>9

(***************************************************************************)
(* The sizes of a group and of what it becomes when some are gone, some    *)
(* are drawn out and some drawn in.                                        *)
(***************************************************************************)
Balanced(old, gone, out, in, new) ==
  /\ Cardinality(old) \in Nat /\ Cardinality(gone) \in Nat
  /\ Cardinality(out) \in Nat /\ Cardinality(in) \in Nat
  /\ Cardinality(old \ new) = Cardinality(gone) + Cardinality(out)
  /\ Cardinality(new) =
       (Cardinality(old) - Cardinality(gone) - Cardinality(out)) + Cardinality(in)

\* Members gone, out and in are parts of a group that do not overlap.
LEMMA Parts ==
  ASSUME NEW old, IsFiniteSet(old), NEW gone \in SUBSET old, NEW out \in SUBSET (old \ gone),
         NEW in, IsFiniteSet(in), in \cap old = {}
  PROVE  Balanced(old, gone, out, in, ((old \ gone) \ out) \cup in)
<1> DEFINE new == ((old \ gone) \ out) \cup in
<1>1. IsFiniteSet(gone) /\ IsFiniteSet(out) /\ IsFiniteSet(old \ gone)
  BY FS_Subset
<1>2. /\ Cardinality(old) \in Nat /\ Cardinality(gone) \in Nat
      /\ Cardinality(out) \in Nat /\ Cardinality(in) \in Nat
  BY <1>1, FS_CardinalityType
<1>3. Cardinality(old \ gone) = Cardinality(old) - Cardinality(gone)
  <2>1. old \cap gone = gone
    OBVIOUS
  <2> QED BY <2>1, FS_Difference
<1>4. /\ IsFiniteSet((old \ gone) \ out)
      /\ Cardinality((old \ gone) \ out) = Cardinality(old \ gone) - Cardinality(out)
  <2>1. (old \ gone) \cap out = out
    OBVIOUS
  <2> QED BY <1>1, <2>1, FS_Difference
<1>5. /\ Cardinality((old \ gone) \ out) \in Nat
      /\ Cardinality(new) = Cardinality((old \ gone) \ out) + Cardinality(in)
  <2>1. ((old \ gone) \ out) \cap in = {}
    OBVIOUS
  <2>2. Cardinality(new) = Cardinality((old \ gone) \ out) + Cardinality(in) - Cardinality({})
    BY <1>4, <2>1, FS_Union
  <2>3. Cardinality((old \ gone) \ out) \in Nat
    BY <1>4, FS_CardinalityType
  <2> QED BY <1>2, <2>2, <2>3, FS_EmptySet
<1>6. Cardinality(old \ new) = Cardinality(gone) + Cardinality(out)
  <2>1. old \ new = gone \cup out /\ gone \cap out = {}
    OBVIOUS
  <2>2. Cardinality(old \ new) = Cardinality(gone) + Cardinality(out) - Cardinality({})
    BY <1>1, <2>1, FS_Union
  <2>3. Cardinality({}) = 0
    BY FS_EmptySet
  <2> QED BY <1>2, <2>2, <2>3
<1> QED BY <1>2, <1>3, <1>4, <1>5, <1>6 DEF Balanced

(***************************************************************************)
(* What an election may end in: the old group without those who are gone   *)
(* or drawn out and with those drawn in, who were not in it.               *)
(***************************************************************************)
Shrunk(old, pool, range, gone, out, in) ==
  LET over == Cardinality(old) - range.max
  IN  /\ Cardinality(old) > range.max
      /\ in = {}
      /\ Cardinality(gone) = Smaller(Cardinality(old \ pool), over)
      /\ Cardinality(out) = over - Cardinality(gone)

Rotated(cluster, old, pool, range, gone, out, in) ==
  LET n == Cardinality(old)
      f == Cardinality(pool \ old)
      u == Smaller(Cardinality(old \ pool), RotationLimit(n, f, range))
  IN  /\ ~ (n > range.max)
      /\ f # 0 /\ ~ ((n - u) + f < range.min)
      /\ Cardinality(gone) = u
      /\ Cardinality(out) = ElectOutCount(cluster, n, u, f, range)
      /\ Cardinality(in) = ElectInCount(n, u, f, range)

Outcome(cluster, old, pool, range, gone, out, in, new) ==
  /\ gone \subseteq old \ pool /\ out \subseteq old \ gone /\ in \subseteq pool \ old
  /\ new = ((old \ gone) \ out) \cup in
  /\ \/ Shrunk(old, pool, range, gone, out, in)
     \/ Rotated(cluster, old, pool, range, gone, out, in)

\* Every outcome of an election is a group that has shrunk or has been rotated.
LEMMA ElectionOutcome ==
  ASSUME NEW cluster, NEW old, NEW pool, NEW range,
         NEW new \in elect_group(cluster, old, pool, range)
  PROVE  \E gone, out, in : Outcome(cluster, old, pool, range, gone, out, in, new)
<1> DEFINE n == Cardinality(old)
           f == Cardinality(pool \ old)
           c == Cardinality(old \ pool)
           limit == RotationLimit(n, f, range)
           u == Smaller(c, limit)
<1>1. CASE n > range.max
  <2>1. new \in do_shrink_election(old, pool, range)
    BY <1>1 DEF elect_group
  <2>2. PICK gone \in Dismissed(old, pool, n - range.max) :
          new \in { (old \ gone) \ out :
                      out \in kSubset(n - range.max - Cardinality(gone), old \ gone) }
    BY <2>1 DEF do_shrink_election
  <2>3. PICK out \in kSubset(n - range.max - Cardinality(gone), old \ gone) :
          new = (old \ gone) \ out
    BY <2>2
  <2>4. /\ gone \subseteq old \ pool /\ Cardinality(gone) = Smaller(c, n - range.max)
        /\ out \subseteq old \ gone
        /\ Cardinality(out) = n - range.max - Cardinality(gone)
    BY <2>2, <2>3 DEF Dismissed, kSubset
  <2>5. new = ((old \ gone) \ out) \cup {}
    BY <2>3
  <2>6. Shrunk(old, pool, range, gone, out, {})
    BY <1>1, <2>4 DEF Shrunk
  <2> QED BY <2>4, <2>5, <2>6 DEF Outcome
<1>2. CASE ~ (n > range.max)
  <2>1. new \in do_normal_election(cluster, old, pool, range)
    BY <1>2 DEF elect_group
  <2>2. /\ f # 0 /\ ~ ((n - u) + f < range.min)
        /\ new \in UNION { UNION { { ((old \ gone) \ out) \cup in :
                               in \in kSubset(ElectInCount(n, u, f, range), pool \ old) } :
                           out \in kSubset(ElectOutCount(cluster, n, u, f, range), old \ gone) } :
                   gone \in Dismissed(old, pool, limit) }
    BY <2>1 DEF do_normal_election
  <2>3. PICK gone \in Dismissed(old, pool, limit) :
          new \in UNION { { ((old \ gone) \ out) \cup in :
                             in \in kSubset(ElectInCount(n, u, f, range), pool \ old) } :
                         out \in kSubset(ElectOutCount(cluster, n, u, f, range), old \ gone) }
    BY <2>2
  <2>4. PICK out \in kSubset(ElectOutCount(cluster, n, u, f, range), old \ gone) :
          new \in { ((old \ gone) \ out) \cup in :
                             in \in kSubset(ElectInCount(n, u, f, range), pool \ old) }
    BY <2>3
  <2>5. PICK in \in kSubset(ElectInCount(n, u, f, range), pool \ old) :
          new = ((old \ gone) \ out) \cup in
    BY <2>4
  <2>6. gone \subseteq old \ pool /\ Cardinality(gone) = u
    BY <2>3 DEF Dismissed, kSubset
  <2>7. /\ out \subseteq old \ gone
        /\ Cardinality(out) = ElectOutCount(cluster, n, u, f, range)
        /\ in \subseteq pool \ old
        /\ Cardinality(in) = ElectInCount(n, u, f, range)
    BY <2>4, <2>5 DEF kSubset
  <2>8. Rotated(cluster, old, pool, range, gone, out, in)
    BY <1>2, <2>2, <2>6, <2>7 DEF Rotated
  <2> QED BY <2>5, <2>6, <2>7, <2>8 DEF Outcome
<1> QED BY <1>1, <1>2

(***************************************************************************)
(* The assertions of do_normal_election hold in every election, and no     *)
(* difference of unsigned numbers falls below zero.                        *)
(***************************************************************************)
THEOREM CountsAreSound ==
  ASSUME NEW cluster \in BOOLEAN, NEW group, NEW pool, NEW range,
         IsFiniteSet(group), IsFiniteSet(pool), IsRange(range)
  PROVE  CountsSound(cluster, group, pool, range)
<1> DEFINE n == Cardinality(group)
           f == Cardinality(pool \ group)
           c == Cardinality(group \ pool)
           u == Smaller(c, RotationLimit(n, f, range))
<1>1. n \in Nat /\ f \in Nat /\ c \in 0 .. n
  <2>1. IsFiniteSet(pool \ group) /\ IsFiniteSet(group \ pool)
    BY FS_Difference
  <2>2. Cardinality(group \ pool) <= Cardinality(group)
    BY FS_Subset
  <2> QED BY <2>1, <2>2, FS_CardinalityType
<1> SUFFICES ASSUME f # 0, n <= range.max, (n - u) + f >= range.min
             PROVE  /\ ElectInCount(n, u, f, range) \in 1 .. f
                    /\ ElectOutCount(cluster, n, u, f, range) \in 0 .. n - u
  BY DEF CountsSound
<1> HIDE DEF n, f, c
<1> QED BY <1>1, Counts

(***************************************************************************)
(* Every election of a group from any pool keeps within the limits that    *)
(* RotationSound states.                                                   *)
(***************************************************************************)
THEOREM RotationsAreSound ==
  ASSUME NEW cluster \in BOOLEAN, NEW old, NEW pool, NEW range,
         IsFiniteSet(old), IsFiniteSet(pool), IsRange(range),
         NEW new \in elect_group(cluster, old, pool, range)
  PROVE  RotationSound(old, new, range)
<1> DEFINE n == Cardinality(old)
           f == Cardinality(pool \ old)
           c == Cardinality(old \ pool)
           u == Smaller(c, RotationLimit(n, f, range))
<1>1. n \in Nat /\ f \in Nat /\ c \in 0 .. n
  <2>1. IsFiniteSet(pool \ old) /\ IsFiniteSet(old \ pool)
    BY FS_Difference
  <2>2. Cardinality(old \ pool) <= Cardinality(old)
    BY FS_Subset
  <2> QED BY <2>1, <2>2, FS_CardinalityType
<1>2. PICK gone, out, in : Outcome(cluster, old, pool, range, gone, out, in, new)
  BY ElectionOutcome
<1>3. /\ gone \subseteq old /\ out \subseteq old \ gone /\ in \subseteq pool \ old
      /\ in \cap old = {} /\ new = ((old \ gone) \ out) \cup in
  BY <1>2 DEF Outcome
<1>4. /\ Cardinality(gone) \in Nat /\ Cardinality(out) \in Nat /\ Cardinality(in) \in Nat
      /\ Cardinality(old \ new) = Cardinality(gone) + Cardinality(out)
      /\ Cardinality(new) = (n - Cardinality(gone) - Cardinality(out)) + Cardinality(in)
  <2>1. IsFiniteSet(in)
    BY <1>3, FS_Difference, FS_Subset
  <2>2. gone \in SUBSET old /\ out \in SUBSET (old \ gone) /\ in \cap old = {}
    BY <1>3
  <2>3. Balanced(old, gone, out, in, ((old \ gone) \ out) \cup in)
    BY <2>1, <2>2, Parts
  <2> QED BY <1>3, <2>3 DEF Balanced
<1>5. range.min \in Nat \ {0} /\ range.max \in Nat /\ range.min <= range.max
  BY DEF IsRange
<1>6. CASE Shrunk(old, pool, range, gone, out, in)
  <2>1. n > range.max /\ Cardinality(in) = 0 /\ Cardinality(out) = n - range.max - Cardinality(gone)
    BY <1>6, FS_EmptySet DEF Shrunk
  <2> HIDE DEF n
  <2>2. Cardinality(new) = range.max /\ Cardinality(old \ new) = n - range.max
    BY <1>1, <1>4, <1>5, <2>1
  <2> QED BY <1>1, <1>5, <2>1, <2>2 DEF RotationSound, n
<1>7. CASE Rotated(cluster, old, pool, range, gone, out, in)
  <2>0. /\ ~ (n > range.max) /\ f # 0 /\ ~ ((n - u) + f < range.min)
        /\ Cardinality(gone) = u
        /\ Cardinality(out) = ElectOutCount(cluster, n, u, f, range)
        /\ Cardinality(in) = ElectInCount(n, u, f, range)
    BY <1>7 DEF Rotated
  <2>1. f \in Nat \ {0} /\ n <= range.max /\ (n - u) + f >= range.min
    <3>1. u \in Int
      BY <1>4, <2>0
    <3> HIDE DEF n, f, c, u
    <3> QED BY <1>1, <1>5, <2>0, <3>1
  <2> HIDE DEF n, f, c
  <2>2. /\ n # 0 => u + Cardinality(out) <= calculate_rotation_count(n, range)
        /\ (n - u - Cardinality(out)) + Cardinality(in) \in 1 .. range.max
        /\ n >= range.min => (n - u - Cardinality(out)) + Cardinality(in) >= n
        /\ n = 0 => (n - u - Cardinality(out)) + Cardinality(in) = range.min
    BY <1>1, <2>0, <2>1, Counts
  <2>3. /\ n # 0 => Cardinality(old \ new) <= calculate_rotation_count(n, range)
        /\ Cardinality(new) \in 1 .. range.max
        /\ n >= range.min => Cardinality(new) >= n
        /\ n = 0 => Cardinality(new) = range.min
    BY <1>4, <2>0, <2>2
  <2>4. ~ (n - range.max > 0)
    BY <1>1, <1>5, <2>1
  <2> QED BY <1>1, <1>5, <2>3, <2>4 DEF RotationSound, n
<1> QED BY <1>2, <1>6, <1>7 DEF Outcome

-----------------------------------------------------------------------------
(***************************************************************************)
(* The elections of all groups: what the inductive invariant says.         *)
(***************************************************************************)
GroupResult == [members : SUBSET Node, version : Nat \cup {-1}, timestamp : Nat,
                associated_version : Nat \cup {-1}]

Typed ==
  /\ groups \in [Group -> GroupResult]
  /\ mem \in [Group -> GroupResult]
  /\ written \in [Group -> GroupResult]
  /\ sizes \in Ranges
  /\ executed \in BOOLEAN /\ success \in BOOLEAN /\ time \in Nat /\ rotated \in Nat
  /\ pools \in Seq(Pools) /\ Len(pools) >= 1
  /\ read \in [height : Nat, time : Nat]
  /\ read.height <= Len(pools) - 1 /\ read.time <= time
  /\ due \subseteq Auditor /\ todo \subseteq Validator
  /\ args.timestamp \in 0 .. time
  /\ args.standbys.auditor \subseteq Node /\ args.standbys.validator \subseteq Node

\* Where a call is.
Control ==
  /\ pc \in {"idle", "next", "validators"}
  /\ pc = "idle" => mem = groups /\ written = groups
  /\ pc = "validators" => due # {} /\ todo \subseteq Associated(Current)

\* What is written differs from the call's copy only in the cluster at hand,
\* and only if it will be written.
Kept ==
  \A g \in Group : written[g].members # mem[g].members =>
    pc = "validators" /\ success /\ g \in Cluster(Current)

\* What the call has not come to yet is as it was.
Ahead(a) == a \in due /\ (pc = "validators" => a # Current)

Untouched ==
  /\ \A a \in Auditor : Ahead(a) =>
       \A g \in Cluster(a) : mem[g].members = groups[g].members
  /\ \A v \in todo : mem[v].members = groups[v].members

\* Whole, and rotated no more than once.
Whole ==
  \A g \in Group : IF executed THEN groups[g].members # {} /\ mem[g].members # {}
                               ELSE groups[g] = NoGroup

Bounded ==
  \A g \in Group : mem[g].members # groups[g].members =>
    RotationSound(groups[g].members, mem[g].members, sizes[RoleOf(g)])

\* Validators go with their auditors in what is written; in the call's copy
\* the groups of the cluster at hand have the date of the call.
Together(store) ==
  \A v \in Validator :
    /\ store[v].timestamp = store[AuditorOf(v)].timestamp
    /\ store[v].associated_version = store[AuditorOf(v)].version

DatedNow ==
  pc = "validators" =>
    \A g \in Cluster(Current) \ todo : mem[g].timestamp = args.timestamp

IInv ==
  /\ Typed /\ Control /\ Kept /\ Untouched /\ Whole /\ Bounded /\ DatedNow
  /\ Apart(groups) /\ Apart(mem)
  /\ Together(groups) /\ Together(written)

-----------------------------------------------------------------------------
(***************************************************************************)
(* Groups and their association.                                           *)
(***************************************************************************)
LEMMA Numbers ==
  /\ Auditor \subseteq Nat /\ Validator \subseteq Nat
  /\ Auditor \cap Validator = {} /\ Group = Auditor \cup Validator
  BY ElectionAssumption DEF Auditor, Validator, Group

(***************************************************************************)
(* Validator groups are associated with groups of auditors that there are: *)
(* the shares are equal, as the number of one divides that of the other.   *)
(***************************************************************************)
LEMMA Shares ==
  ASSUME NEW k \in Nat \ {0}, NEW s \in Nat \ {0}, NEW x \in Nat, x < k * s
  PROVE  x \div s \in 0 .. k - 1
<1> DEFINE q == x \div s
<1>1. q \in Nat /\ s * q <= x
  OBVIOUS
<1> HIDE DEF q
<1>2. ASSUME q >= k PROVE FALSE
  <2>1. PICK d \in Nat : q = k + d
    <3>1. q = k + (q - k) /\ q - k \in Nat
      BY <1>1, <1>2
    <3> QED BY <3>1
  <2>2. s * q = k * s + s * d /\ s * d \in Nat /\ k * s \in Nat /\ s * q \in Nat
    BY <2>1
  <2> QED BY <1>1, <2>2
<1>3. q \in 0 .. k - 1
  BY <1>1, <1>2
<1> QED BY <1>3 DEF q

\* Every group of validators has a group of auditors.
LEMMA Associates == \A v \in Validator : AuditorOf(v) \in Auditor
<1> SUFFICES ASSUME NEW v \in Validator PROVE AuditorOf(v) \in Auditor
  OBVIOUS
<1> DEFINE share == ValidatorCount \div AuditorCount
           x == v - AuditorCount - 1
<1>1. /\ AuditorCount \in Nat \ {0} /\ ValidatorCount \in Nat \ {0}
      /\ ValidatorCount % AuditorCount = 0
  BY ElectionAssumption
<1>2. x \in 0 .. ValidatorCount - 1
  BY <1>1 DEF Validator
<1>3. share \in Nat /\ ValidatorCount = AuditorCount * share
  BY <1>1
<1> HIDE DEF share, x
<1>4. share # 0
  BY <1>1, <1>3
<1>5. x \div share \in 0 .. AuditorCount - 1
  <2>1. x \in Nat /\ share \in Nat \ {0} /\ x < ValidatorCount
    BY <1>1, <1>2, <1>3, <1>4
  <2>2. x < AuditorCount * share
    BY <1>3, <2>1
  <2> QED BY <1>1, <2>1, <2>2, Shares
<1> QED BY <1>1, <1>5 DEF AuditorOf, Auditor, share, x

\* Clusters do not share groups.
LEMMA Clusters ==
  /\ \A a \in Auditor : a \in Cluster(a) /\ Cluster(a) \subseteq Group
  /\ \A a, b \in Auditor : a # b => Cluster(a) \cap Cluster(b) = {}
  /\ \A v \in Validator, a \in Auditor :
       v \in Associated(a) <=> AuditorOf(v) = a
  BY Numbers DEF Cluster, Associated

\* What Min picks of a set of numbers is in the set.
LEMMA Least ==
  ASSUME NEW S \in SUBSET Nat, S # {}
  PROVE  Min(S) \in S
<1>1. PICK x \in S : \A y \in S : ~ (<<y, x>> \in OpToRel(<, Nat))
  BY NatLessThanWellFounded, WFMin
<1>2. \A y \in Nat : y < x => <<y, x>> \in OpToRel(<, Nat)
  BY DEF OpToRel
<1>3. \A y \in S : x <= y
  <2> SUFFICES ASSUME NEW y \in S PROVE x <= y
    OBVIOUS
  <2>1. ~ (y < x)
    BY <1>1, <1>2
  <2> QED BY <2>1
<1> QED BY <1>3 DEF Min

\* A call works on a cluster it has still to look at.
LEMMA CurrentIsDue == Typed /\ due # {} => Current \in due /\ Current \in Auditor
  BY Least, Numbers DEF Typed, Current

\* Whatever sizes governance sets for a group are a range.
LEMMA SizesAreRanges ==
  ASSUME sizes \in Ranges, NEW g \in Group
  PROVE  IsRange(sizes[RoleOf(g)])
  BY ElectionAssumption DEF RoleOf

\* An election that succeeds leaves no group empty.
LEMMA Nonempty ==
  ASSUME NEW old, NEW new, NEW range, IsFiniteSet(old), IsRange(range),
         RotationSound(old, new, range)
  PROVE  new # {}
<1>1. Cardinality(old) \in Nat
  BY FS_CardinalityType
<1>2. Cardinality({}) = 0
  BY FS_EmptySet
<1> QED BY <1>1, <1>2 DEF RotationSound, IsRange

-----------------------------------------------------------------------------
(***************************************************************************)
(* The election of one group, as a call makes it.                          *)
(***************************************************************************)
LEMMA ElectStep ==
  ASSUME Typed, NEW g \in Group, NEW offered \in SUBSET Node, NEW sofar \in BOOLEAN,
         Elect(g, offered, sofar)
  PROVE  /\ mem' \in [Group -> GroupResult]
         /\ \A h \in Group \ {g} : mem'[h] = mem[h]
         /\ mem'[g].timestamp = args.timestamp
         /\ \/ mem'[g].members = mem[g].members /\ success' = sofar
            \/ /\ success' = TRUE
               /\ mem'[g].members \subseteq mem[g].members \cup offered
               /\ RotationSound(mem[g].members, mem'[g].members, sizes[RoleOf(g)])
<1> DEFINE outcomes == elect_group(TRUE, mem[g].members, offered, sizes[RoleOf(g)])
<1>1. mem \in [Group -> GroupResult] /\ mem[g] \in GroupResult /\ args.timestamp \in Nat
  BY DEF Typed
<1>2. Dated(mem[g]) \in GroupResult /\ Dated(mem[g]).timestamp = args.timestamp
      /\ Dated(mem[g]).members = mem[g].members
  <2> DEFINE r == mem[g]
  <2>1. r \in GroupResult /\ args.timestamp \in Nat
    BY <1>1
  <2> HIDE DEF r
  <2>2. r.version + 1 \in Nat \cup {-1}
    BY <2>1 DEF GroupResult
  <2>3. Dated(r) = [[r EXCEPT !.version = r.version + 1] EXCEPT !.timestamp = args.timestamp]
    BY DEF Dated
  <2>4. Dated(r) \in GroupResult /\ Dated(r).timestamp = args.timestamp
        /\ Dated(r).members = r.members
    BY <2>1, <2>2, <2>3 DEF GroupResult
  <2> QED BY <2>4 DEF r
<1>3. CASE outcomes = {}
  BY <1>1, <1>2, <1>3 DEF Elect
<1>4. CASE outcomes # {}
  <2>1. PICK members \in outcomes : mem' = [mem EXCEPT ![g] = [Dated(@) EXCEPT !.members = members]]
    BY <1>4 DEF Elect
  <2>2. success' = TRUE
    BY <1>4 DEF Elect
  <2>3. mem[g].members \subseteq Node /\ IsFiniteSet(mem[g].members) /\ IsFiniteSet(offered)
    BY <1>1, ElectionAssumption, FS_Subset DEF GroupResult
  <2>4. RotationSound(mem[g].members, members, sizes[RoleOf(g)])
    BY <2>3, SizesAreRanges, RotationsAreSound DEF Typed
  <2>5. members \subseteq mem[g].members \cup offered
    <3>1. PICK gone, out, in :
            Outcome(TRUE, mem[g].members, offered, sizes[RoleOf(g)], gone, out, in, members)
      BY ElectionOutcome
    <3> QED BY <3>1 DEF Outcome
  <2>6. members \subseteq Node
    BY <2>3, <2>5
  <2>7. /\ [Dated(mem[g]) EXCEPT !.members = members] \in GroupResult
        /\ [Dated(mem[g]) EXCEPT !.members = members].members = members
        /\ [Dated(mem[g]) EXCEPT !.members = members].timestamp = args.timestamp
    BY <1>2, <2>6 DEF GroupResult
  <2> HIDE DEF outcomes
  <2>8. /\ mem' \in [Group -> GroupResult]
        /\ \A h \in Group \ {g} : mem'[h] = mem[h]
        /\ mem'[g] = [Dated(mem[g]) EXCEPT !.members = members]
    BY <1>1, <2>1, <2>7
  <2> QED BY <2>2, <2>4, <2>5, <2>7, <2>8
<1> QED BY <1>3, <1>4

(***************************************************************************)
(* To be apart is a matter of members alone, and an election from standbys *)
(* filtered by the other groups as they are now keeps groups apart.        *)
(***************************************************************************)
LEMMA ApartByMembers ==
  ASSUME NEW s, NEW t, Apart(t), \A g \in Group : s[g].members = t[g].members
  PROVE  Apart(s)
  BY Associates, Numbers DEF Apart

\* Auditors drawn from AuditorStandbys keep the groups apart.
LEMMA AuditorsStayApart ==
  ASSUME Apart(mem), NEW a \in Auditor, \A h \in Group \ {a} : mem'[h] = mem[h],
         mem'[a].members \subseteq mem[a].members \cup AuditorStandbys(a)
  PROVE  Apart(mem')
<1>1. \A v \in Associated(a) : v \in Validator /\ AuditorOf(v) = a
  BY DEF Associated
<1>2. \A v \in Validator : AuditorOf(v) \in Auditor /\ v \in Group \ {a}
  BY Associates, Numbers
<1>3. \A x \in AuditorStandbys(a) :
        /\ \A v \in Associated(a) : x \notin mem[v].members
        /\ \A b \in Auditor \ {a} : x \notin mem[b].members
  BY DEF AuditorStandbys, Members
<1>4. \A v \in Validator : AuditorOf(v) = a => v \in Associated(a)
  BY DEF Associated
<1>5. \A b \in Auditor : b # a => mem'[a].members \cap mem[b].members = {}
  BY <1>3 DEF Apart
<1>6. \A v \in Validator : AuditorOf(v) = a => mem'[a].members \cap mem[v].members = {}
  BY <1>3, <1>4 DEF Apart
<1>7. \A h \in Auditor \cup Validator : h # a => mem'[h] = mem[h]
  BY Numbers
<1>8. /\ \A b, c \in Auditor : b # c => mem'[b].members \cap mem'[c].members = {}
      /\ \A v, w \in Validator : v # w => mem'[v].members \cap mem'[w].members = {}
  BY <1>2, <1>5, <1>7 DEF Apart
<1>9. \A v \in Validator : mem'[v].members \cap mem'[AuditorOf(v)].members = {}
  BY <1>2, <1>6, <1>7 DEF Apart
<1> QED BY <1>8, <1>9 DEF Apart

\* Validators drawn from ValidatorStandbys keep the groups apart.
LEMMA ValidatorsStayApart ==
  ASSUME Apart(mem), NEW v \in Validator, \A h \in Group \ {v} : mem'[h] = mem[h],
         mem'[v].members \subseteq mem[v].members \cup ValidatorStandbys(v)
  PROVE  Apart(mem')
<1>1. \A w \in Validator : AuditorOf(w) \in Auditor
  BY Associates
<1>2. \A x \in ValidatorStandbys(v) :
        /\ x \notin mem[AuditorOf(v)].members
        /\ \A w \in Validator \ {v} : x \notin mem[w].members
  BY DEF ValidatorStandbys, Members
<1>3. mem'[v].members \cap mem[AuditorOf(v)].members = {}
  BY <1>2 DEF Apart
<1>4. \A w \in Validator : w # v => mem'[v].members \cap mem[w].members = {}
  BY <1>2 DEF Apart
<1>5. /\ \A a \in Auditor : mem'[a] = mem[a]
      /\ \A w \in Validator : w # v => mem'[w] = mem[w]
  BY Numbers
<1>6. /\ \A b, c \in Auditor : b # c => mem'[b].members \cap mem'[c].members = {}
      /\ \A w \in Validator : mem'[w].members \cap mem'[AuditorOf(w)].members = {}
  BY <1>1, <1>3, <1>5 DEF Apart
<1>7. \A w, u \in Validator : w # u => mem'[w].members \cap mem'[u].members = {}
  BY <1>4, <1>5 DEF Apart
<1> QED BY <1>6, <1>7 DEF Apart

-----------------------------------------------------------------------------
(***************************************************************************)
(* The initial states, and the steps of others between two calls.          *)
(***************************************************************************)
LEMMA InitIInv == Init => IInv
<1> SUFFICES ASSUME Init PROVE IInv
  OBVIOUS
<1>1. NoGroup \in GroupResult /\ NoGroup.members = {}
  BY DEF NoGroup, GroupResult
<1>2. groups = [g \in Group |-> NoGroup] /\ mem = groups /\ written = groups
  BY DEF Init
<1>3. \A g \in Group : groups[g] = NoGroup /\ groups[g].members = {}
  BY <1>1, <1>2
<1>4. Typed
  <2>1. pools \in Seq(Pools) /\ Len(pools) = 1
    BY ElectionAssumption DEF Init
  <2>2. read \in [height : Nat, time : Nat] /\ read.height = 0 /\ read.time = 0 /\ time = 1
    BY DEF Init
  <2>3. /\ args.timestamp = 0
        /\ args.standbys.auditor = {} /\ args.standbys.validator = {}
    BY DEF Init, Nothing
  <2>4. groups \in [Group -> GroupResult] /\ mem = groups /\ written = groups
    BY <1>1, <1>2
  <2>5. /\ sizes \in Ranges /\ executed = FALSE /\ success = FALSE
        /\ rotated = 0 /\ due = {} /\ todo = {}
    BY DEF Init
  <2>6. /\ Len(pools) >= 1 /\ read.height <= Len(pools) - 1 /\ read.time <= time
        /\ time \in Nat /\ args.timestamp \in 0 .. time /\ rotated \in Nat
    BY <2>1, <2>2, <2>3, <2>5
  <2>7. /\ executed \in BOOLEAN /\ success \in BOOLEAN
        /\ due \subseteq Auditor /\ todo \subseteq Validator
        /\ args.standbys.auditor \subseteq Node /\ args.standbys.validator \subseteq Node
    BY <2>3, <2>5
  <2>8. mem \in [Group -> GroupResult] /\ written \in [Group -> GroupResult]
    BY <2>4
  <2> QED BY <2>1, <2>2, <2>4, <2>5, <2>6, <2>7, <2>8 DEF Typed
<1>5. Apart(groups) /\ Together(groups)
  <2>1. Auditor \subseteq Group /\ Validator \subseteq Group
    BY DEF Group
  <2>2. \A v \in Validator : v \in Group /\ AuditorOf(v) \in Group
    BY <2>1, Associates
  <2>3. Apart(groups)
    BY <1>3, <2>1, <2>2 DEF Apart
  <2>4. Together(groups)
    <3>1. SUFFICES ASSUME NEW v \in Validator
                   PROVE  groups[v] = NoGroup /\ groups[AuditorOf(v)] = NoGroup
      BY DEF Together, NoGroup
    <3> QED BY <1>3, <2>2
  <2> QED BY <2>3, <2>4
<1> QED BY <1>2, <1>3, <1>4, <1>5
        DEF Init, IInv, Control, Kept, Untouched, Ahead, Whole, Bounded, DatedNow

\* Whatever leaves the call and the groups alone keeps the invariant.
LEMMA BetweenCalls ==
  ASSUME IInv, Typed', UNCHANGED <<groups, executed, callVars>>,
         pc = "idle" \/ UNCHANGED sizes
  PROVE  IInv'
<1>1. Control' /\ Kept' /\ Untouched' /\ Whole' /\ DatedNow'
  BY DEF IInv, callVars, Control, Kept, Untouched, Ahead, Whole, DatedNow, Current
<1>2. Bounded'
  BY DEF IInv, callVars, Bounded, Control
<1>3. Apart(groups)' /\ Apart(mem)' /\ Together(groups)' /\ Together(written)'
  BY DEF IInv, callVars, Apart, Together
<1> QED BY <1>1, <1>2, <1>3 DEF IInv

\* ZEC reads the pool at a height there is.
LEMMA ReadsWhatIsThere ==
  ASSUME Typed, NEW at \in 0 .. time
  PROVE  /\ NextRead(at) \in [height : Nat, time : Nat]
         /\ NextRead(at).height <= Len(pools) - 1 /\ NextRead(at).time <= time
<1>1. /\ read \in [height : Nat, time : Nat] /\ Len(pools) \in Nat /\ time \in Nat
      /\ read.height <= Len(pools) - 1 /\ read.time <= time
  BY DEF Typed
<1>2. HeightStep \in Nat /\ at \in Nat /\ at <= time
  BY <1>1, ElectionAssumption
<1> QED BY <1>1, <1>2 DEF NextRead, latest_height

\* The steps of the pool, the governance, the clock and ZEC's standby pool.
LEMMA OthersKeepIInv ==
  ASSUME IInv, PoolChanges \/ SetSizes \/ Tick \/ (\E at \in 0 .. time : standby_on_timer(at))
  PROVE  IInv'
<1>0. Typed
  BY DEF IInv
<1>1. CASE PoolChanges
  <2>1. PICK p \in Pools : pools' = Append(pools, p)
    BY <1>1 DEF PoolChanges
  <2>2. pools' \in Seq(Pools) /\ Len(pools') = Len(pools) + 1 /\ Len(pools) \in Nat
    BY <1>0, <2>1 DEF Typed
  <2>3. Typed'
    BY <1>0, <1>1, <2>2 DEF PoolChanges, Typed, callVars
  <2> QED BY <1>1, <2>3, BetweenCalls DEF PoolChanges
<1>2. CASE SetSizes
  <2>1. Typed'
    BY <1>0, <1>2 DEF SetSizes, Typed, callVars
  <2> QED BY <1>2, <2>1, BetweenCalls DEF SetSizes
<1>3. CASE Tick
  <2>1. Typed'
    BY <1>0, <1>3 DEF Tick, Typed, callVars
  <2> QED BY <1>3, <2>1, BetweenCalls DEF Tick
<1>4. CASE \E at \in 0 .. time : standby_on_timer(at)
  <2>1. PICK at \in 0 .. time : standby_on_timer(at)
    BY <1>4
  <2>2. Typed'
    BY <1>0, <2>1, ReadsWhatIsThere DEF standby_on_timer, Typed, callVars
  <2> QED BY <2>1, <2>2, BetweenCalls DEF standby_on_timer
<1> QED BY <1>1, <1>2, <1>3, <1>4

-----------------------------------------------------------------------------
(***************************************************************************)
(* The steps of a call.                                                    *)
(***************************************************************************)
LEMMA StartKeepsIInv ==
  ASSUME IInv, NEW at \in 0 .. time, NEW seed \in Seeds, on_timer(at, seed)
  PROVE  IInv'
<1>0. Typed /\ pc = "idle" /\ mem' = groups /\ written' = groups /\ pc' = "next"
  BY DEF IInv, on_timer
<1>1. Typed'
  <2>1. read.height + 1 \in 1 .. Len(pools)
    BY <1>0 DEF Typed
  <2>2. pools[read.height + 1] \in Pools
    BY <1>0, <2>1 DEF Typed
  <2>3. /\ args'.timestamp = at
        /\ args'.standbys.auditor \subseteq Node /\ args'.standbys.validator \subseteq Node
    BY <2>2, ElectionAssumption DEF on_timer
  <2>4. due' \subseteq Auditor /\ rotated' = 0
    BY DEF on_timer
  <2> QED BY <1>0, <2>3, <2>4 DEF on_timer, Typed
<1>2. Control' /\ Kept' /\ Untouched' /\ Bounded' /\ DatedNow'
  <2>1. UNCHANGED groups /\ UNCHANGED todo
    BY DEF on_timer
  <2>2. todo \subseteq Group
    BY <1>0, Numbers DEF Typed
  <2> QED BY <1>0, <2>1, <2>2 DEF Control, Kept, Untouched, Bounded, DatedNow
<1>3. Whole' /\ Apart(groups)' /\ Apart(mem)' /\ Together(groups)' /\ Together(written)'
  BY <1>0 DEF on_timer, IInv, Whole, Apart, Together
<1> QED BY <1>1, <1>2, <1>3 DEF IInv

\* The election of a group of auditors.
LEMMA AuditorKeepsIInv ==
  ASSUME IInv, elect_auditor
  PROVE  IInv'
<1> DEFINE a == Current
<1>0. /\ Typed /\ pc = "next" /\ pc' = "validators" /\ due # {} /\ todo' = Associated(a)
      /\ UNCHANGED <<pools, read, sizes, groups, executed, time, args, due, rotated, written>>
      /\ Elect(a, AuditorStandbys(a), FALSE)
  BY DEF IInv, elect_auditor
<1>1. a \in due /\ a \in Auditor /\ a \in Group /\ Current' = a
  BY <1>0, CurrentIsDue, Numbers DEF Current
<1> HIDE DEF a
<1>2. AuditorStandbys(a) \in SUBSET Node
  BY <1>0 DEF AuditorStandbys, Typed
<1>3. /\ mem' \in [Group -> GroupResult]
      /\ \A h \in Group \ {a} : mem'[h] = mem[h]
      /\ mem'[a].timestamp = args.timestamp
      /\ \/ mem'[a].members = mem[a].members /\ success' = FALSE
         \/ /\ success' = TRUE
            /\ mem'[a].members \subseteq mem[a].members \cup AuditorStandbys(a)
            /\ RotationSound(mem[a].members, mem'[a].members, sizes[RoleOf(a)])
  BY <1>0, <1>1, <1>2, ElectStep
<1>4. Typed'
  <2>1. Associated(a) \subseteq Validator /\ success' \in BOOLEAN
    BY <1>3 DEF Associated
  <2> QED BY <1>0, <1>3, <2>1 DEF Typed
<1>5. Control'
  BY <1>0, <1>1 DEF Control
<1>6. Kept'
  <2>1. \A g \in Group : written[g].members = mem[g].members
    BY <1>0 DEF IInv, Kept
  <2> QED BY <1>0, <1>1, <1>3, <2>1, Clusters DEF Kept
<1>7. mem[a].members = groups[a].members
  BY <1>0, <1>1, Clusters DEF IInv, Untouched, Ahead
<1>8. Untouched'
  <2>1. \A b \in Auditor : b \in due => \A g \in Cluster(b) : mem[g].members = groups[g].members
    BY <1>0 DEF IInv, Untouched, Ahead
  <2>2. \A b \in Auditor : b # a => a \notin Cluster(b) /\ Cluster(b) \subseteq Group
    BY <1>1, Clusters
  <2>3. \A v \in Associated(a) : v \in Cluster(a) /\ v \in Group \ {a}
    BY <1>1, Numbers DEF Cluster, Associated
  <2> QED BY <1>0, <1>1, <1>3, <2>1, <2>2, <2>3 DEF Untouched, Ahead
<1>9. Whole'
  <2>1. mem[a].members # {} => mem'[a].members # {}
    <3>1. IsFiniteSet(mem[a].members)
      BY <1>0, <1>1, ElectionAssumption, FS_Subset DEF Typed, GroupResult
    <3> QED BY <1>0, <1>1, <1>3, <3>1, SizesAreRanges, Nonempty DEF Typed
  <2> QED BY <1>0, <1>1, <1>3, <2>1 DEF IInv, Whole
<1>10. Bounded'
  BY <1>0, <1>1, <1>3, <1>7 DEF IInv, Bounded
<1>11. DatedNow'
  BY <1>0, <1>1, <1>3 DEF DatedNow, Cluster
<1>12. Apart(mem')
  BY <1>1, <1>3, AuditorsStayApart DEF IInv
<1>13. Apart(groups)' /\ Together(groups)' /\ Together(written)'
  BY <1>0 DEF IInv, Apart, Together
<1> QED BY <1>4, <1>5, <1>6, <1>8, <1>9, <1>10, <1>11, <1>12, <1>13 DEF IInv

\* The election of a group of validators.
LEMMA ValidatorKeepsIInv ==
  ASSUME IInv, elect_validator
  PROVE  IInv'
<1> DEFINE v == Min(todo)
           a == Current
<1>0. /\ Typed /\ pc = "validators" /\ due # {} /\ todo # {} /\ todo' = todo \ {v}
      /\ todo \subseteq Associated(a)
      /\ UNCHANGED <<pools, read, sizes, groups, executed, time, pc, args, due, rotated, written>>
      /\ Elect(v, ValidatorStandbys(v), success)
  BY DEF IInv, Control, elect_validator
<1>1. a \in due /\ a \in Auditor /\ Current' = a
  BY <1>0, CurrentIsDue DEF Current
<1>2. v \in todo /\ v \in Validator /\ v \in Group /\ v \in Cluster(a) /\ v # a
  <2>1. v \in todo
    BY <1>0, Least, Numbers DEF Typed
  <2> QED BY <1>0, <1>1, <2>1, Numbers DEF Typed, Cluster
<1> HIDE DEF v, a
<1>3. ValidatorStandbys(v) \in SUBSET Node
  BY <1>0 DEF ValidatorStandbys, Typed
<1>4. /\ mem' \in [Group -> GroupResult]
      /\ \A h \in Group \ {v} : mem'[h] = mem[h]
      /\ mem'[v].timestamp = args.timestamp
      /\ \/ mem'[v].members = mem[v].members /\ success' = success
         \/ /\ success' = TRUE
            /\ mem'[v].members \subseteq mem[v].members \cup ValidatorStandbys(v)
            /\ RotationSound(mem[v].members, mem'[v].members, sizes[RoleOf(v)])
  BY <1>0, <1>2, <1>3, ElectStep DEF Typed
<1>5. Typed'
  <2>1. success' \in BOOLEAN
    BY <1>0, <1>4 DEF Typed
  <2> QED BY <1>0, <1>4, <2>1 DEF Typed
<1>6. Control'
  BY <1>0, <1>1 DEF Control, a
<1>7. Kept'
  <2>1. \A g \in Group : written[g].members # mem[g].members => success /\ g \in Cluster(a)
    BY <1>0 DEF IInv, Kept, a
  <2> QED BY <1>0, <1>1, <1>2, <1>4, <2>1 DEF Kept
<1>8. mem[v].members = groups[v].members
  BY <1>2 DEF IInv, Untouched
<1>9. Untouched'
  <2>1. \A b \in Auditor : b \in due /\ b # a =>
          \A g \in Cluster(b) : mem[g].members = groups[g].members
    BY <1>0 DEF IInv, Untouched, Ahead, a
  <2>2. \A b \in Auditor : b # a => v \notin Cluster(b) /\ Cluster(b) \subseteq Group
    BY <1>1, <1>2, Clusters
  <2>3. \A w \in todo : w \in Group /\ mem[w].members = groups[w].members
    BY <1>0, Numbers DEF IInv, Untouched, Typed
  <2> QED BY <1>0, <1>1, <1>4, <2>1, <2>2, <2>3 DEF Untouched, Ahead
<1>10. Whole'
  <2>1. mem[v].members # {} => mem'[v].members # {}
    <3>1. IsFiniteSet(mem[v].members)
      BY <1>0, <1>2, ElectionAssumption, FS_Subset DEF Typed, GroupResult
    <3> QED BY <1>0, <1>2, <1>4, <3>1, SizesAreRanges, Nonempty DEF Typed
  <2> QED BY <1>0, <1>2, <1>4, <2>1 DEF IInv, Whole
<1>11. Bounded'
  BY <1>0, <1>2, <1>4, <1>8 DEF IInv, Bounded
<1>12. DatedNow'
  <2>1. \A g \in Cluster(a) \ todo : mem[g].timestamp = args.timestamp
    BY <1>0 DEF IInv, DatedNow, a
  <2>2. Cluster(a) \subseteq Group
    BY <1>1, Clusters
  <2> QED BY <1>0, <1>1, <1>2, <1>4, <2>1, <2>2 DEF DatedNow
<1>13. Apart(mem')
  BY <1>2, <1>4, ValidatorsStayApart DEF IInv
<1>14. Apart(groups)' /\ Together(groups)' /\ Together(written)'
  BY <1>0 DEF IInv, Apart, Together
<1> QED BY <1>5, <1>6, <1>7, <1>9, <1>10, <1>11, <1>12, <1>13, <1>14 DEF IInv

\* The end of a cluster, whose store is written if a group was elected.
LEMMA ClusterKeepsIInv ==
  ASSUME IInv, end_cluster
  PROVE  IInv'
<1> DEFINE a == Current
<1>0. /\ Typed /\ pc = "validators" /\ pc' = "next" /\ todo = {} /\ due # {}
      /\ due' = due \ {a}
      /\ UNCHANGED <<pools, read, sizes, groups, executed, time, args, todo, success, mem>>
      /\ IF success THEN WriteCluster(a) /\ rotated' = rotated + 1
                    ELSE UNCHANGED <<written, rotated>>
  BY DEF IInv, Control, end_cluster
<1>1. a \in due /\ a \in Auditor /\ a \in Group /\ a \notin Associated(a)
  BY <1>0, CurrentIsDue, Numbers DEF Associated
<1>2. \A g \in Group : written[g].members # mem[g].members => success /\ g \in Cluster(a)
  BY <1>0 DEF IInv, Kept
<1>3. \A g \in Cluster(a) : mem[g].timestamp = args.timestamp
  BY <1>0 DEF IInv, DatedNow
<1> HIDE DEF a
<1>4. \A g \in Group :
        /\ [mem[g] EXCEPT !.associated_version = mem[a].version] \in GroupResult
        /\ [mem[g] EXCEPT !.associated_version = mem[a].version].members = mem[g].members
        /\ [mem[g] EXCEPT !.associated_version = mem[a].version].timestamp = mem[g].timestamp
        /\ [mem[g] EXCEPT !.associated_version = mem[a].version].associated_version
             = mem[a].version
  BY <1>0, <1>1 DEF Typed, GroupResult
<1>5. ASSUME success
      PROVE  /\ written' \in [Group -> GroupResult] /\ rotated' \in Nat
             /\ \A g \in Group : written'[g].members = mem[g].members
             /\ Together(written')
  <2>1. written' = [g \in Group |->
                     IF g = a THEN mem[g]
                     ELSE IF g \in Associated(a)
                       THEN [mem[g] EXCEPT !.associated_version = mem[a].version]
                     ELSE written[g]]
    BY <1>0, <1>5 DEF WriteCluster
  <2>2. written' \in [Group -> GroupResult]
    BY <1>0, <1>4, <2>1 DEF Typed
  <2>3. \A g \in Group : written'[g].members = mem[g].members
    BY <1>2, <1>4, <2>1 DEF Cluster
  <2>4. Together(written')
    <3> SUFFICES ASSUME NEW v \in Validator
                 PROVE  /\ written'[v].timestamp = written'[AuditorOf(v)].timestamp
                        /\ written'[v].associated_version = written'[AuditorOf(v)].version
      BY DEF Together
    <3>1. v \in Group /\ v # a /\ AuditorOf(v) \in Auditor /\ AuditorOf(v) \in Group
          /\ AuditorOf(v) \notin Associated(a) /\ (v \in Associated(a) <=> AuditorOf(v) = a)
      BY <1>1, Associates, Numbers DEF Associated
    <3>2. CASE AuditorOf(v) = a
      <4>1. written'[v] = [mem[v] EXCEPT !.associated_version = mem[a].version]
            /\ written'[a] = mem[a]
        BY <1>1, <2>1, <3>1, <3>2
      <4>2. mem[v].timestamp = args.timestamp /\ mem[a].timestamp = args.timestamp
        BY <1>3, <3>1, <3>2 DEF Cluster
      <4> QED BY <1>4, <3>1, <3>2, <4>1, <4>2
    <3>3. CASE AuditorOf(v) # a
      <4>1. written'[v] = written[v] /\ written'[AuditorOf(v)] = written[AuditorOf(v)]
        BY <2>1, <3>1, <3>3
      <4> QED BY <4>1 DEF IInv, Together
    <3> QED BY <3>2, <3>3
  <2>5. rotated' \in Nat
    BY <1>0, <1>5 DEF Typed
  <2> QED BY <2>2, <2>3, <2>4, <2>5
<1>6. /\ written' \in [Group -> GroupResult] /\ rotated' \in Nat
      /\ \A g \in Group : written'[g].members = mem[g].members
      /\ Together(written')
  <2>1. CASE success
    BY <1>5, <2>1
  <2>2. CASE ~ success
    <3>1. UNCHANGED <<written, rotated>>
      BY <1>0, <2>2
    <3>2. Together(written')
      BY <3>1 DEF IInv, Together
    <3> QED BY <1>0, <1>2, <2>2, <3>1, <3>2 DEF Typed
  <2> QED BY <2>1, <2>2
<1>7. Typed'
  BY <1>0, <1>6 DEF Typed
<1>8. Control' /\ Kept' /\ Whole' /\ Bounded' /\ DatedNow'
  BY <1>0, <1>6 DEF IInv, Control, Kept, Whole, Bounded, DatedNow
<1>9. Untouched'
  BY <1>0 DEF IInv, Untouched, Ahead, a
<1>10. Apart(groups)' /\ Apart(mem)' /\ Together(groups)'
  BY <1>0 DEF IInv, Apart, Together
<1> QED BY <1>6, <1>7, <1>8, <1>9, <1>10 DEF IInv

(***************************************************************************)
(* What a call leaves when it ends.                                        *)
(***************************************************************************)
LEMMA EndOfCall ==
  ASSUME IInv, end_call
  PROVE  \/ UNCHANGED <<groups, executed>>
         \/ /\ executed' = TRUE /\ groups' = written
            /\ \A g \in Group : groups'[g].members = mem[g].members /\ mem[g].members # {}
<1>1. \A g \in Group : written[g].members = mem[g].members
  BY DEF IInv, Kept, end_call
<1>2. executed \/ AllElected => \A g \in Group : mem[g].members # {}
  BY DEF IInv, Whole, AllElected
<1>3. Commit
  BY DEF end_call
<1> QED BY <1>1, <1>2, <1>3 DEF Commit

\* The end of a call, which changes all groups or none.
LEMMA EndKeepsIInv ==
  ASSUME IInv, end_call
  PROVE  IInv'
<1>0. /\ Typed /\ pc' = "idle" /\ due' = {} /\ todo' = {} /\ rotated' = 0 /\ success' = FALSE
      /\ mem' = groups' /\ written' = groups'
      /\ UNCHANGED <<pools, read, sizes, time>>
  BY DEF IInv, end_call
<1>1. \/ UNCHANGED <<groups, executed>>
      \/ /\ executed' = TRUE /\ groups' = written
         /\ \A g \in Group : groups'[g].members = mem[g].members /\ mem[g].members # {}
  BY EndOfCall
<1>2. Typed'
  <2>1. /\ args'.timestamp = 0
        /\ args'.standbys.auditor = {} /\ args'.standbys.validator = {}
    BY DEF end_call, Nothing
  <2>2. groups' \in [Group -> GroupResult] /\ executed' \in BOOLEAN
    BY <1>0, <1>1 DEF Typed
  <2>3. args'.timestamp \in 0 .. time
    BY <1>0, <2>1 DEF Typed
  <2> QED BY <1>0, <2>1, <2>2, <2>3 DEF Typed
<1>3. Control' /\ Kept' /\ Untouched' /\ Bounded' /\ DatedNow'
  BY <1>0 DEF Control, Kept, Untouched, Ahead, Bounded, DatedNow
<1>4. Whole'
  BY <1>0, <1>1 DEF IInv, Whole
<1>5. Apart(groups')
  <2>1. CASE UNCHANGED groups
    BY <2>1 DEF IInv
  <2>2. CASE \A g \in Group : groups'[g].members = mem[g].members
    BY <2>2, ApartByMembers DEF IInv
  <2> QED BY <1>1, <2>1, <2>2
<1>6. Together(groups')
  BY <1>1 DEF IInv
<1> QED BY <1>0, <1>2, <1>3, <1>4, <1>5, <1>6 DEF IInv

(***************************************************************************)
(* The invariant is inductive.                                             *)
(***************************************************************************)
LEMMA NextKeepsIInv == IInv /\ [Next]_vars => IInv'
<1> SUFFICES ASSUME IInv, [Next]_vars PROVE IInv'
  OBVIOUS
<1>1. CASE PoolChanges \/ SetSizes \/ Tick \/ (\E at \in 0 .. time : standby_on_timer(at))
  BY <1>1, OthersKeepIInv
<1>2. CASE \E at \in 0 .. time, seed \in Seeds : on_timer(at, seed)
  BY <1>2, StartKeepsIInv
<1>3. CASE elect_auditor
  BY <1>3, AuditorKeepsIInv
<1>4. CASE elect_validator
  BY <1>4, ValidatorKeepsIInv
<1>5. CASE end_cluster
  BY <1>5, ClusterKeepsIInv
<1>6. CASE end_call
  BY <1>6, EndKeepsIInv
<1>7. CASE UNCHANGED vars
  <2>1. Typed'
    BY <1>7 DEF IInv, Typed, vars, callVars
  <2> QED BY <1>7, <2>1, BetweenCalls DEF vars
<1> QED BY <1>1, <1>2, <1>3, <1>4, <1>5, <1>6, <1>7 DEF Next

\* The inductive invariant holds in every reachable state.
THEOREM IInvInductive == Spec => []IInv
  BY InitIInv, NextKeepsIInv, PTL DEF Spec

-----------------------------------------------------------------------------
(***************************************************************************)
(* The state of the contracts is well typed.                               *)
(***************************************************************************)
THEOREM TypeCorrect == Spec => []TypeOK
<1>1. IInv => TypeOK
  <2> SUFFICES ASSUME IInv PROVE TypeOK
    OBVIOUS
  <2>1. Typed /\ pc \in {"idle", "next", "validators"}
    BY DEF IInv, Control
  <2>2. \A r \in GroupResult : IsGroup(r)
    BY DEF GroupResult, IsGroup, NoGroup
  <2>3. \A s \in {groups, mem, written} : DOMAIN s = Group /\ \A g \in Group : IsGroup(s[g])
    BY <2>1, <2>2 DEF Typed
  <2>4. \A i \in DOMAIN pools : pools[i] \in Pools
    BY <2>1 DEF Typed
  <2>5. read.height \in 0 .. latest_height /\ read.time \in 0 .. time
    BY <2>1 DEF Typed, latest_height
  <2> QED BY <2>1, <2>3, <2>4, <2>5 DEF TypeOK, Typed
<1> QED BY <1>1, IInvInductive, PTL

(***************************************************************************)
(* Groups that exclude each other never share a node.                      *)
(***************************************************************************)
THEOREM ClustersAlwaysApart == Spec => []ClustersApart
<1>1. IInv => ClustersApart
  BY DEF IInv, ClustersApart
<1> QED BY <1>1, IInvInductive, PTL

(***************************************************************************)
(* The genesis election is whole, and no group is empty after it.          *)
(***************************************************************************)
THEOREM GenesisAlwaysWhole == Spec => []GenesisWhole
<1>1. IInv => GenesisWhole
  BY DEF IInv, Whole, GenesisWhole
<1> QED BY <1>1, IInvInductive, PTL

(***************************************************************************)
(* The groups of a cluster have one date, and validators know the version  *)
(* of their auditors.                                                      *)
(***************************************************************************)
THEOREM ClustersAlwaysMoveTogether == Spec => []ClusterMovesTogether
<1>1. IInv => ClusterMovesTogether
  BY DEF IInv, Together, ClusterMovesTogether
<1> QED BY <1>1, IInvInductive, PTL

(***************************************************************************)
(* The numbers of every election are sound.                                *)
(***************************************************************************)
THEOREM ElectionsAlwaysSound == Spec => []ElectionsSound
<1>1. IInv => ElectionsSound
  <2> SUFFICES ASSUME IInv PROVE ElectionsSound
    OBVIOUS
  <2>1. Typed
    BY DEF IInv
  <2>2. /\ IsFiniteSet(args.standbys.auditor) /\ IsFiniteSet(args.standbys.validator)
        /\ \A g \in Group : IsFiniteSet(mem[g].members)
        /\ IsRange(sizes.auditor) /\ IsRange(sizes.validator)
    BY <2>1, ElectionAssumption, FS_Subset DEF Typed, GroupResult
  <2>3. ASSUME due # {}
        PROVE  CountsSound(TRUE, mem[Current].members, AuditorStandbys(Current), sizes.auditor)
    <3>1. Current \in Group
      BY <2>1, <2>3, CurrentIsDue, Numbers
    <3>2. IsFiniteSet(AuditorStandbys(Current))
      BY <2>2, FS_Difference DEF AuditorStandbys
    <3> QED BY <2>2, <3>1, <3>2, CountsAreSound
  <2>4. ASSUME todo # {}
        PROVE  CountsSound(TRUE, mem[Min(todo)].members, ValidatorStandbys(Min(todo)),
                           sizes.validator)
    <3>1. Min(todo) \in Group
      BY <2>1, <2>4, Least, Numbers DEF Typed
    <3>2. IsFiniteSet(ValidatorStandbys(Min(todo)))
      BY <2>2, FS_Difference DEF ValidatorStandbys
    <3> QED BY <2>2, <3>1, <3>2, CountsAreSound
  <2> QED BY <2>3, <2>4 DEF ElectionsSound
<1> QED BY <1>1, IInvInductive, PTL

(***************************************************************************)
(* What a step does to a group: it stays as it is, or keeps the limits.    *)
(***************************************************************************)
RotatedWithinLimits ==
  \A g \in Group :
    groups'[g].members # groups[g].members =>
      RotationSound(groups[g].members, groups'[g].members, sizes[RoleOf(g)])

(***************************************************************************)
(* A call rotates every group within its limits, whatever the pool, the    *)
(* sizes of groups and the elections before it were.                       *)
(***************************************************************************)
THEOREM RotationsAreBounded == Spec => RotationBounded
<1>1. IInv /\ [Next]_vars => [RotatedWithinLimits]_vars
  <2> SUFFICES ASSUME IInv, Next PROVE RotatedWithinLimits
    OBVIOUS
  <2>1. CASE UNCHANGED groups
    BY <2>1 DEF RotatedWithinLimits
  <2>2. CASE end_call
    <3>1. CASE \A g \in Group : groups'[g].members = mem[g].members
      BY <3>1 DEF IInv, Bounded, RotatedWithinLimits
    <3> QED BY <2>1, <2>2, <3>1, EndOfCall
  <2>3. CASE \/ PoolChanges \/ SetSizes \/ Tick
             \/ \E at \in 0 .. time : standby_on_timer(at)
             \/ \E at \in 0 .. time, seed \in Seeds : on_timer(at, seed)
             \/ elect_auditor \/ elect_validator \/ end_cluster
    <3>1. UNCHANGED groups
      BY <2>3 DEF PoolChanges, SetSizes, Tick, standby_on_timer, on_timer, elect_auditor,
                  elect_validator, end_cluster
    <3> QED BY <2>1, <3>1
  <2> QED BY <2>2, <2>3 DEF Next
<1> QED BY <1>1, IInvInductive, PTL DEF Spec, RotationBounded, RotatedWithinLimits

-----------------------------------------------------------------------------
(***************************************************************************)
(* Elections implements ClusterElections.  What a call has written so far  *)
(* is whole clusters that have moved, no more than it has counted; what it *)
(* has not come to yet is as it was.                                       *)
(***************************************************************************)
AsBefore(a) == \A g \in Cluster(a) : written[g] = groups[g]

Moved(a) ==
  /\ \A g \in Cluster(a) : /\ written[g].version = groups[g].version + 1
                           /\ written[g].timestamp = args.timestamp
                           /\ g # a => written[g].associated_version = written[a].version
  /\ \E g \in Cluster(a) : written[g].members # groups[g].members

MovedClusters == {a \in Auditor : written[a].version # groups[a].version}

WrittenWhole == \A a \in Auditor : AsBefore(a) \/ Moved(a)

\* The call's copy of what is ahead.
AsYet ==
  /\ \A a \in Auditor : Ahead(a) => \A g \in Cluster(a) : mem[g] = groups[g]
  /\ \A v \in todo : mem[v] = groups[v]
  /\ \A a \in due : AsBefore(a)

\* The groups elected of the cluster at hand.
AtHand ==
  pc = "validators" =>
    /\ RotationsLeft
    /\ \A g \in Cluster(Current) \ todo : mem[g].version = groups[g].version + 1
    /\ success => \E g \in Cluster(Current) \ todo : mem[g].members # groups[g].members

Counted ==
  /\ Cardinality(MovedClusters) <= rotated
  /\ executed => rotated <= MaxRotatedClusters

Progress == WrittenWhole /\ AsYet /\ AtHand /\ Counted

\* An election that succeeds changes the group.
LEMMA ElectionChanges ==
  ASSUME NEW cluster \in BOOLEAN, NEW old, NEW pool, NEW range,
         IsFiniteSet(old), IsFiniteSet(pool), IsRange(range),
         NEW new \in elect_group(cluster, old, pool, range)
  PROVE  new # old
<1>1. PICK gone, out, in : Outcome(cluster, old, pool, range, gone, out, in, new)
  BY ElectionOutcome
<1>2. IsFiniteSet(pool \ old) /\ in \subseteq pool \ old /\ in \subseteq new
  BY <1>1, FS_Difference DEF Outcome
<1>3. CASE Shrunk(old, pool, range, gone, out, in)
  <2>1. Cardinality(old) > range.max /\ range.max \in Nat /\ Cardinality(old) \in Nat
    BY <1>3, FS_CardinalityType DEF Shrunk, IsRange
  <2>2. RotationSound(old, new, range)
    BY RotationsAreSound
  <2>3. Cardinality(new) = range.max
    BY <2>1, <2>2 DEF RotationSound
  <2> QED BY <2>1, <2>3
<1>4. CASE Rotated(cluster, old, pool, range, gone, out, in)
  <2> DEFINE n == Cardinality(old)
             f == Cardinality(pool \ old)
             u == Smaller(Cardinality(old \ pool), RotationLimit(n, f, range))
  <2>1. /\ ~ (n > range.max) /\ f # 0 /\ ~ ((n - u) + f < range.min)
        /\ Cardinality(in) = ElectInCount(n, u, f, range)
    BY <1>4 DEF Rotated
  <2>2. n \in Nat /\ f \in Nat /\ u \in Nat /\ range.max \in Nat /\ range.min \in Nat
    <3>1. n \in Nat /\ f \in Nat /\ Cardinality(old \ pool) \in Nat
      BY <1>2, FS_CardinalityType, FS_Difference
    <3>2. range.max \in Nat /\ range.min \in Nat
      BY DEF IsRange
    <3>3. f # 0
      BY <2>1
    <3>4. RotationLimit(n, f, range) \in 1 .. f
      <4> HIDE DEF n, f
      <4> QED BY <3>1, <3>3, Limit
    <3>5. u \in Nat
      <4> HIDE DEF n, f
      <4> QED BY <3>1, <3>4 DEF Smaller
    <3> QED BY <3>1, <3>2, <3>5
  <2>3. CountsSound(cluster, old, pool, range)
    BY CountsAreSound
  <2>4. f # 0 /\ n <= range.max /\ (n - u) + f >= range.min
    <3>1. ~ (n > range.max) /\ f # 0 /\ ~ ((n - u) + f < range.min)
      BY <2>1
    <3> HIDE DEF n, f, u
    <3> QED BY <2>2, <3>1
  <2>5. ElectInCount(n, u, f, range) \in 1 .. f
    BY <2>3, <2>4 DEF CountsSound
  <2>6. Cardinality(in) # 0
    BY <2>1, <2>2, <2>5
  <2>7. in # {}
    BY <2>6, FS_EmptySet
  <2> QED BY <1>2, <2>7
<1> QED BY <1>1, <1>3, <1>4 DEF Outcome

\* Elect counts the group's version up and succeeds only if its members change.
LEMMA ElectCounts ==
  ASSUME Typed, NEW g \in Group, NEW offered \in SUBSET Node, NEW sofar \in BOOLEAN,
         Elect(g, offered, sofar)
  PROVE  /\ mem'[g].version = mem[g].version + 1
         /\ mem'[g].members # mem[g].members \/ success' = sofar
<1> DEFINE outcomes == elect_group(TRUE, mem[g].members, offered, sizes[RoleOf(g)])
<1>1. mem \in [Group -> GroupResult] /\ mem[g] \in GroupResult
  BY DEF Typed
<1>2. DOMAIN mem[g] = {"members", "version", "timestamp", "associated_version"}
  BY <1>1 DEF GroupResult
<1>3. /\ Dated(mem[g]).version = mem[g].version + 1
      /\ \A S : [Dated(mem[g]) EXCEPT !.members = S].version = mem[g].version + 1
      /\ \A S : [Dated(mem[g]) EXCEPT !.members = S].members = S
  BY <1>2 DEF Dated
<1>4. CASE outcomes = {}
  <2>1. mem' = [mem EXCEPT ![g] = Dated(mem[g])] /\ success' = sofar
    BY <1>4 DEF Elect
  <2> QED BY <1>1, <1>3, <2>1
<1>5. CASE outcomes # {}
  <2>1. PICK members \in outcomes : mem' = [mem EXCEPT ![g] = [Dated(@) EXCEPT !.members = members]]
    BY <1>5 DEF Elect
  <2>2. mem[g].members \subseteq Node /\ IsFiniteSet(mem[g].members) /\ IsFiniteSet(offered)
    BY <1>1, ElectionAssumption, FS_Subset DEF GroupResult
  <2>3. members # mem[g].members
    BY <2>2, SizesAreRanges, ElectionChanges DEF Typed
  <2> HIDE DEF outcomes
  <2>4. mem'[g] = [Dated(mem[g]) EXCEPT !.members = members]
    BY <1>1, <2>1
  <2> QED BY <1>3, <2>3, <2>4
<1> QED BY <1>4, <1>5

LEMMA ProgressInit == Init => Progress
<1> SUFFICES ASSUME Init PROVE Progress
  OBVIOUS
<1>1. written = groups /\ mem = groups /\ pc = "idle" /\ due = {} /\ todo = {} /\ rotated = 0
      /\ executed = FALSE
  BY DEF Init
<1>2. MovedClusters = {}
  BY <1>1 DEF MovedClusters
<1> QED BY <1>1, <1>2, FS_EmptySet
        DEF Progress, WrittenWhole, AsBefore, AsYet, Ahead, AtHand, Counted

\* Steps that leave the call alone.
LEMMA ProgressStays ==
  ASSUME Progress, UNCHANGED <<groups, executed, callVars>>
  PROVE  Progress'
<1>1. \A a : AsBefore(a)' <=> AsBefore(a)
  BY DEF AsBefore, callVars
<1>2. \A a : Moved(a)' <=> Moved(a)
  BY DEF Moved, callVars
<1>3. MovedClusters' = MovedClusters
  BY DEF MovedClusters, callVars
<1>4. Current' = Current
  BY DEF Current, callVars
<1>5. WrittenWhole'
  BY <1>1, <1>2 DEF Progress, WrittenWhole
<1>6. AsYet'
  BY <1>1, <1>4 DEF Progress, AsYet, Ahead, callVars
<1>7. AtHand'
  BY <1>4 DEF Progress, AtHand, RotationsLeft, callVars
<1>8. Counted'
  BY <1>3 DEF Progress, Counted, callVars
<1> QED BY <1>5, <1>6, <1>7, <1>8 DEF Progress

\* At its start a call has written nothing.
LEMMA ProgressStarts ==
  ASSUME IInv, NEW at \in 0 .. time, NEW seed \in Seeds, on_timer(at, seed)
  PROVE  Progress'
<1>1. /\ mem' = groups /\ written' = groups /\ pc' = "next" /\ rotated' = 0
      /\ UNCHANGED <<groups, executed, todo>> /\ due' \subseteq Auditor
  BY DEF on_timer
<1>2. WrittenWhole' /\ AsYet' /\ AtHand'
  BY <1>1 DEF WrittenWhole, AsBefore, AsYet, Ahead, AtHand
<1>3. MovedClusters' = {}
  BY <1>1 DEF MovedClusters
<1>4. Cardinality(MovedClusters') = 0
  BY <1>3, FS_EmptySet
<1>5. Counted'
  BY <1>1, <1>4, ElectionAssumption DEF Counted
<1> QED BY <1>2, <1>5 DEF Progress

\* While the groups of a cluster are elected, nothing is written.
LEMMA NothingWritten ==
  ASSUME Progress, UNCHANGED <<groups, executed, args, due, rotated, written>>
  PROVE  WrittenWhole' /\ Counted' /\ (\A a \in due' : AsBefore(a)')
<1>1. \A a : AsBefore(a)' <=> AsBefore(a)
  BY DEF AsBefore
<1>2. \A a : Moved(a)' <=> Moved(a)
  BY DEF Moved
<1>3. MovedClusters' = MovedClusters
  BY DEF MovedClusters
<1>4. WrittenWhole'
  BY <1>1, <1>2 DEF Progress, WrittenWhole
<1>5. Counted'
  BY <1>3 DEF Progress, Counted
<1>6. \A a \in due' : AsBefore(a)'
  BY <1>1 DEF Progress, AsYet
<1> QED BY <1>4, <1>5, <1>6

\* The election of a group of auditors.
LEMMA AuditorProgress ==
  ASSUME IInv, Progress, elect_auditor
  PROVE  Progress'
<1> DEFINE a == Current
<1>0. /\ Typed /\ pc = "next" /\ pc' = "validators" /\ due # {} /\ todo' = Associated(a)
      /\ UNCHANGED <<groups, executed, args, due, rotated, written>>
      /\ RotationsLeft
      /\ Elect(a, AuditorStandbys(a), FALSE)
  BY DEF IInv, elect_auditor
<1>1. a \in due /\ a \in Auditor /\ a \in Group /\ Current' = a
  BY <1>0, CurrentIsDue, Numbers DEF Current
<1> HIDE DEF a
<1>2. AuditorStandbys(a) \in SUBSET Node
  BY <1>0 DEF AuditorStandbys, Typed
<1>3. \A h \in Group \ {a} : mem'[h] = mem[h]
  BY <1>0, <1>1, <1>2, ElectStep
<1>4. /\ mem'[a].version = mem[a].version + 1
      /\ mem'[a].members # mem[a].members \/ success' = FALSE
  BY <1>0, <1>1, <1>2, ElectCounts
<1>5. \A b \in Auditor : b \in due => \A g \in Cluster(b) : mem[g] = groups[g]
  BY <1>0 DEF Progress, AsYet, Ahead
<1>6. WrittenWhole' /\ Counted' /\ (\A b \in due' : AsBefore(b)')
  BY <1>0, NothingWritten
<1>7. AsYet'
  <2>1. \A b \in Auditor : b # a => a \notin Cluster(b) /\ Cluster(b) \subseteq Group
    BY <1>1, Clusters
  <2>2. \A v \in Associated(a) : v \in Cluster(a) /\ v \in Group \ {a}
    BY <1>1, Numbers DEF Cluster, Associated
  <2>3. \A b \in Auditor : Ahead(b)' => \A g \in Cluster(b) : mem'[g] = groups'[g]
    BY <1>0, <1>1, <1>3, <1>5, <2>1 DEF Ahead
  <2>4. \A v \in todo' : mem'[v] = groups'[v]
    BY <1>0, <1>1, <1>3, <1>5, <2>2
  <2> QED BY <1>6, <2>3, <2>4 DEF AsYet
<1>8. AtHand'
  <2>1. Cluster(a) \ todo' = {a}
    BY <1>0, <1>1, Numbers DEF Cluster, Associated
  <2>2. mem[a] = groups[a]
    BY <1>1, <1>5, Clusters
  <2>3. RotationsLeft'
    BY <1>0 DEF RotationsLeft
  <2> QED BY <1>0, <1>1, <1>4, <2>1, <2>2, <2>3 DEF AtHand
<1> QED BY <1>6, <1>7, <1>8 DEF Progress

\* The election of a group of validators.
LEMMA ValidatorProgress ==
  ASSUME IInv, Progress, elect_validator
  PROVE  Progress'
<1> DEFINE v == Min(todo)
           a == Current
<1>0. /\ Typed /\ pc = "validators" /\ due # {} /\ todo # {} /\ todo' = todo \ {v}
      /\ todo \subseteq Associated(a)
      /\ UNCHANGED <<groups, executed, pc, args, due, rotated, written>>
      /\ Elect(v, ValidatorStandbys(v), success)
  BY DEF IInv, Control, elect_validator
<1>1. a \in due /\ a \in Auditor /\ Current' = a
  BY <1>0, CurrentIsDue DEF Current
<1>2. v \in todo /\ v \in Validator /\ v \in Group /\ v \in Cluster(a) /\ v # a
  <2>1. v \in todo
    BY <1>0, Least, Numbers DEF Typed
  <2> QED BY <1>0, <1>1, <2>1, Numbers DEF Typed, Cluster
<1>3. /\ RotationsLeft
      /\ \A g \in Cluster(a) \ todo : mem[g].version = groups[g].version + 1
      /\ success => \E g \in Cluster(a) \ todo : mem[g].members # groups[g].members
  BY <1>0 DEF Progress, AtHand
<1>4. /\ \A b \in Auditor : b \in due /\ b # a => \A g \in Cluster(b) : mem[g] = groups[g]
      /\ \A w \in todo : mem[w] = groups[w]
  BY <1>0 DEF Progress, AsYet, Ahead
<1> HIDE DEF v, a
<1>5. ValidatorStandbys(v) \in SUBSET Node
  BY <1>0 DEF ValidatorStandbys, Typed
<1>6. \A h \in Group \ {v} : mem'[h] = mem[h]
  <2>1. /\ mem' \in [Group -> GroupResult]
        /\ \A h \in Group \ {v} : mem'[h] = mem[h]
        /\ mem'[v].timestamp = args.timestamp
        /\ \/ mem'[v].members = mem[v].members /\ success' = success
           \/ /\ success' = TRUE
              /\ mem'[v].members \subseteq mem[v].members \cup ValidatorStandbys(v)
              /\ RotationSound(mem[v].members, mem'[v].members, sizes[RoleOf(v)])
    BY <1>0, <1>2, <1>5, ElectStep DEF Typed
  <2> QED BY <2>1
<1>7. /\ mem'[v].version = mem[v].version + 1
      /\ mem'[v].members # mem[v].members \/ success' = success
  BY <1>0, <1>2, <1>5, ElectCounts DEF Typed
<1>8. WrittenWhole' /\ Counted' /\ (\A b \in due' : AsBefore(b)')
  BY <1>0, NothingWritten
<1>9. AsYet'
  <2>1. \A b \in Auditor : b # a => v \notin Cluster(b) /\ Cluster(b) \subseteq Group
    BY <1>1, <1>2, Clusters
  <2>2. todo' \subseteq Group \ {v}
    BY <1>0, Numbers DEF Typed
  <2>3. \A b \in Auditor : Ahead(b)' => \A g \in Cluster(b) : mem'[g] = groups'[g]
    BY <1>0, <1>1, <1>4, <1>6, <2>1 DEF Ahead
  <2>4. \A w \in todo' : mem'[w] = groups'[w]
    BY <1>0, <1>4, <1>6, <2>2
  <2> QED BY <1>8, <2>3, <2>4 DEF AsYet
<1>10. AtHand'
  <2>1. Cluster(a) \ todo' = (Cluster(a) \ todo) \cup {v} /\ Cluster(a) \subseteq Group
    BY <1>0, <1>1, <1>2, Clusters
  <2>2. mem[v] = groups[v]
    BY <1>2, <1>4
  <2>3. RotationsLeft'
    BY <1>0, <1>3 DEF RotationsLeft
  <2>4. \A g \in Cluster(a) \ todo' : mem'[g].version = groups'[g].version + 1
    <3>1. SUFFICES ASSUME NEW g \in Cluster(a) \ todo'
                   PROVE  mem'[g].version = groups[g].version + 1
      BY <1>0
    <3>2. CASE g = v
      BY <1>7, <2>2, <3>2
    <3>3. CASE g # v
      <4>1. g \in Cluster(a) \ todo /\ g \in Group \ {v}
        BY <2>1, <3>1, <3>3
      <4> QED BY <1>3, <1>6, <4>1
    <3> QED BY <3>2, <3>3
  <2>5. success' => \E g \in Cluster(a) \ todo' : mem'[g].members # groups'[g].members
    <3>1. CASE mem'[v].members # mem[v].members
      BY <1>0, <2>1, <2>2, <3>1
    <3>2. CASE success' = success
      <4>1. SUFFICES ASSUME success
                     PROVE  \E g \in Cluster(a) \ todo' : mem'[g].members # groups[g].members
        BY <1>0, <3>2
      <4>2. PICK g \in Cluster(a) \ todo : mem[g].members # groups[g].members
        BY <1>3, <4>1
      <4>3. g \in Group \ {v} /\ g \in Cluster(a) \ todo'
        BY <1>2, <2>1, <4>2
      <4> QED BY <1>6, <4>2, <4>3
    <3> QED BY <1>7, <3>1, <3>2
  <2> QED BY <1>0, <1>1, <2>3, <2>4, <2>5 DEF AtHand
<1> QED BY <1>8, <1>9, <1>10 DEF Progress

\* The store of a cluster holds all that was elected of it.
LEMMA ClusterWritten ==
  ASSUME Typed, NEW a \in Auditor, WriteCluster(a)
  PROVE  /\ written'[a] = mem[a]
         /\ \A v \in Associated(a) :
              /\ written'[v].version = mem[v].version
              /\ written'[v].timestamp = mem[v].timestamp
              /\ written'[v].members = mem[v].members
              /\ written'[v].associated_version = mem[a].version
         /\ \A g \in Group \ Cluster(a) : written'[g] = written[g]
<1>1. \A g \in Group : mem[g] \in GroupResult
  BY DEF Typed
<1>2. \A r \in GroupResult : \A n :
        /\ [r EXCEPT !.associated_version = n].version = r.version
        /\ [r EXCEPT !.associated_version = n].timestamp = r.timestamp
        /\ [r EXCEPT !.associated_version = n].members = r.members
        /\ [r EXCEPT !.associated_version = n].associated_version = n
  BY DEF GroupResult
<1>3. a \in Group /\ a \notin Associated(a) /\ Associated(a) \subseteq Group
  BY Numbers DEF Associated
<1>4. written'[a] = mem[a]
  BY <1>3 DEF WriteCluster
<1>5. \A v \in Associated(a) :
        written'[v] = [mem[v] EXCEPT !.associated_version = mem[a].version]
  BY <1>3 DEF WriteCluster
<1>6. \A g \in Group \ Cluster(a) : written'[g] = written[g]
  BY DEF WriteCluster, Cluster
<1>7. ASSUME NEW v \in Associated(a)
      PROVE  /\ written'[v].version = mem[v].version
             /\ written'[v].timestamp = mem[v].timestamp
             /\ written'[v].members = mem[v].members
             /\ written'[v].associated_version = mem[a].version
  <2> DEFINE r == mem[v]
             n == mem[a].version
  <2>1. r \in GroupResult /\ written'[v] = [r EXCEPT !.associated_version = n]
    BY <1>1, <1>3, <1>5
  <2> HIDE DEF n, r
  <2>2. /\ written'[v].version = r.version /\ written'[v].timestamp = r.timestamp
        /\ written'[v].members = r.members /\ written'[v].associated_version = n
    BY <1>2, <2>1
  <2> QED BY <2>2 DEF n, r
<1> QED BY <1>4, <1>6, <1>7

LEMMA AuditorsAreFinite == IsFiniteSet(Auditor)
  BY ElectionAssumption, FS_Interval DEF Auditor

\* The end of a cluster: it has moved, or is left as it was.
LEMMA ClusterProgress ==
  ASSUME IInv, Progress, end_cluster
  PROVE  Progress'
<1>0. PICK a \in Auditor : a = Current /\ a \in due /\ a \in Group
  <2>1. Typed /\ due # {}
    BY DEF IInv, Control, end_cluster
  <2> QED BY <2>1, CurrentIsDue, Numbers
<1>1. /\ Typed /\ pc = "validators" /\ pc' = "next" /\ todo = {} /\ due # {}
      /\ due' = due \ {a}
      /\ UNCHANGED <<groups, executed, args, todo, mem>>
      /\ IF success THEN WriteCluster(a) /\ rotated' = rotated + 1
                    ELSE UNCHANGED <<written, rotated>>
  BY <1>0 DEF IInv, Control, end_cluster
<1>2. /\ RotationsLeft
      /\ \A g \in Cluster(a) : mem[g].version = groups[g].version + 1
      /\ success => \E g \in Cluster(a) : mem[g].members # groups[g].members
  BY <1>0, <1>1 DEF Progress, AtHand
<1>3. \A g \in Cluster(a) : mem[g].timestamp = args.timestamp
  BY <1>0, <1>1 DEF IInv, DatedNow
<1>4. AsYet' <=> \A b \in due' : AsBefore(b)'
  BY <1>0, <1>1 DEF Progress, AsYet, Ahead
<1>5. AtHand'
  BY <1>1 DEF AtHand
<1>6. \A b \in due : AsBefore(b)
  BY DEF Progress, AsYet
<1>7. CASE ~ success
  <2>1. UNCHANGED <<written, rotated>>
    BY <1>1, <1>7
  <2>2. \A b : (AsBefore(b)' <=> AsBefore(b)) /\ (Moved(b)' <=> Moved(b))
    BY <1>1, <2>1 DEF AsBefore, Moved
  <2>3. MovedClusters' = MovedClusters
    BY <1>1, <2>1 DEF MovedClusters
  <2>4. WrittenWhole' /\ Counted'
    BY <1>1, <2>1, <2>2, <2>3 DEF Progress, WrittenWhole, Counted
  <2>5. AsYet'
    BY <1>1, <1>4, <1>6, <2>2
  <2> QED BY <1>5, <2>4, <2>5 DEF Progress
<1>8. CASE success
  <2>1. /\ written'[a] = mem[a]
        /\ \A v \in Associated(a) :
             /\ written'[v].version = mem[v].version
             /\ written'[v].timestamp = mem[v].timestamp
             /\ written'[v].members = mem[v].members
             /\ written'[v].associated_version = mem[a].version
        /\ \A g \in Group \ Cluster(a) : written'[g] = written[g]
    BY <1>1, <1>0, <1>8, ClusterWritten
  <2>2. Moved(a)'
    <3>1. \A g \in Cluster(a) :
            /\ written'[g].version = mem[g].version
            /\ written'[g].timestamp = mem[g].timestamp
            /\ written'[g].members = mem[g].members
            /\ g # a => written'[g].associated_version = written'[a].version
      BY <2>1 DEF Cluster
    <3>2. \A g \in Cluster(a) :
            /\ written'[g].version = groups'[g].version + 1
            /\ written'[g].timestamp = args'.timestamp
            /\ g # a => written'[g].associated_version = written'[a].version
      BY <1>1, <1>2, <1>3, <3>1
    <3>3. \E g \in Cluster(a) : written'[g].members # groups'[g].members
      BY <1>1, <1>2, <1>8, <3>1
    <3> QED BY <3>2, <3>3 DEF Moved
  <2>3. \A b \in Auditor \ {a} : \A g \in Cluster(b) : written'[g] = written[g]
    BY <1>0, <2>1, Clusters
  <2>4. \A b \in Auditor \ {a} : (AsBefore(b) => AsBefore(b)') /\ (Moved(b) => Moved(b)')
    <3> SUFFICES ASSUME NEW b \in Auditor \ {a}
                 PROVE  (AsBefore(b) => AsBefore(b)') /\ (Moved(b) => Moved(b)')
      OBVIOUS
    <3>1. b \in Cluster(b)
      BY Clusters
    <3> QED BY <1>1, <2>3, <3>1 DEF AsBefore, Moved
  <2>5. WrittenWhole'
    BY <2>2, <2>4 DEF Progress, WrittenWhole
  <2>6. AsYet'
    BY <1>1, <1>4, <1>6, <2>4 DEF Typed
  <2>7. Counted'
    <3>2. IsFiniteSet(MovedClusters)
      BY AuditorsAreFinite, FS_Subset DEF MovedClusters
    <3>3. MovedClusters' \subseteq MovedClusters \cup {a}
      BY <1>1, <2>3, Clusters DEF MovedClusters
    <3>4. /\ IsFiniteSet(MovedClusters \cup {a})
          /\ Cardinality(MovedClusters \cup {a}) <= Cardinality(MovedClusters) + 1
      <4>1. Cardinality(MovedClusters) \in Nat
        BY <3>2, FS_CardinalityType
      <4> QED BY <3>2, <4>1, FS_AddElement
    <3>5. Cardinality(MovedClusters') <= Cardinality(MovedClusters \cup {a})
      BY <3>3, <3>4, FS_Subset
    <3>6. IsFiniteSet(MovedClusters')
      BY <3>3, <3>4, FS_Subset
    <3>7. /\ Cardinality(MovedClusters) \in Nat /\ Cardinality(MovedClusters') \in Nat
          /\ Cardinality(MovedClusters \cup {a}) \in Nat
      BY <3>2, <3>4, <3>6, FS_CardinalityType
    <3>8. rotated' = rotated + 1 /\ rotated \in Nat /\ MaxRotatedClusters \in Nat
      BY <1>1, <1>8, ElectionAssumption DEF Typed
    <3>9. Cardinality(MovedClusters) <= rotated
      BY DEF Progress, Counted
    <3>10. executed => rotated < MaxRotatedClusters
      BY <1>2 DEF RotationsLeft
    <3>11. Cardinality(MovedClusters') <= rotated'
      BY <3>4, <3>5, <3>7, <3>8, <3>9
    <3>12. executed' => rotated' <= MaxRotatedClusters
      BY <1>1, <3>8, <3>10
    <3> QED BY <3>11, <3>12 DEF Counted
  <2> QED BY <1>5, <2>5, <2>6, <2>7 DEF Progress
<1> QED BY <1>7, <1>8

\* Between calls there is nothing written again.
LEMMA EndProgress ==
  ASSUME end_call
  PROVE  Progress'
<1>1. /\ mem' = groups' /\ written' = groups' /\ pc' = "idle" /\ due' = {} /\ todo' = {}
      /\ rotated' = 0
  BY DEF end_call
<1>2. WrittenWhole' /\ AsYet' /\ AtHand'
  BY <1>1 DEF WrittenWhole, AsBefore, AsYet, Ahead, AtHand
<1>3. MovedClusters' = {}
  BY <1>1 DEF MovedClusters
<1>4. Counted'
  BY <1>1, <1>3, FS_EmptySet, ElectionAssumption DEF Counted
<1> QED BY <1>2, <1>4 DEF Progress

\* What the steps of a call other than the last leave alone.
LEMMA NotYetSeen ==
  ASSUME \/ PoolChanges \/ SetSizes \/ Tick
         \/ \E at \in 0 .. time : standby_on_timer(at)
         \/ \E at \in 0 .. time, seed \in Seeds : on_timer(at, seed)
         \/ elect_auditor \/ elect_validator \/ end_cluster
  PROVE  UNCHANGED <<groups, executed>>
  BY DEF PoolChanges, SetSizes, Tick, standby_on_timer, on_timer, elect_auditor,
         elect_validator, end_cluster

LEMMA NextKeepsProgress == IInv /\ Progress /\ [Next]_vars => Progress'
<1> SUFFICES ASSUME IInv, Progress, [Next]_vars PROVE Progress'
  OBVIOUS
<1>1. CASE \/ PoolChanges \/ SetSizes \/ Tick
           \/ (\E at \in 0 .. time : standby_on_timer(at)) \/ UNCHANGED vars
  <2>1. UNCHANGED <<groups, executed, callVars>>
    BY <1>1 DEF PoolChanges, SetSizes, Tick, standby_on_timer, vars
  <2> QED BY <2>1, ProgressStays
<1>2. CASE \E at \in 0 .. time, seed \in Seeds : on_timer(at, seed)
  BY <1>2, ProgressStarts
<1>3. CASE elect_auditor
  BY <1>3, AuditorProgress
<1>4. CASE elect_validator
  BY <1>4, ValidatorProgress
<1>5. CASE end_cluster
  BY <1>5, ClusterProgress
<1>6. CASE end_call
  BY <1>6, EndProgress
<1> QED BY <1>1, <1>2, <1>3, <1>4, <1>5, <1>6 DEF Next

\* What a call has written is whole clusters in every reachable state.
THEOREM ProgressInductive == Spec => []Progress
<1>1. IInv /\ Progress /\ [Next]_vars => Progress'
  BY NextKeepsProgress
<1> QED BY <1>1, ProgressInit, IInvInductive, PTL DEF Spec

\* The promise counts as the limit does.
LEMMA SameCount == \A S : Promised!Cardinality(S) = Cardinality(S)
  BY DEF Promised!Cardinality, Cardinality

\* The clusters of the promise are those of the association.
LEMMA SameClusters ==
  ASSUME NEW a
  PROVE  Promised!ClusterOf(a) = Cluster(a)
  BY DEF Promised!ClusterOf, Cluster, Associated

\* Which clusters have moved; every group is in one of the clusters.
LEMMA MovedOrNot ==
  ASSUME Typed, Progress
  PROVE  /\ \A a \in MovedClusters : a \in Auditor /\ Moved(a)
         /\ \A a \in Auditor \ MovedClusters : AsBefore(a)
         /\ MovedClusters = {} => written = groups
<1>1. ASSUME NEW a \in Auditor, AsBefore(a) PROVE a \notin MovedClusters
  BY <1>1, Clusters DEF AsBefore, MovedClusters
<1>2. ASSUME NEW a \in Auditor, Moved(a) PROVE a \in MovedClusters
  <2>1. a \in Cluster(a) /\ a \in Group
    BY Clusters
  <2>2. groups[a] \in GroupResult /\ written[a].version = groups[a].version + 1
    BY <1>2, <2>1 DEF Typed, Moved
  <2>3. groups[a].version \in Int
    BY <2>2 DEF GroupResult
  <2> QED BY <2>2, <2>3 DEF MovedClusters
<1>3. \A a \in Auditor : AsBefore(a) \/ Moved(a)
  BY DEF Progress, WrittenWhole
<1>4. ASSUME MovedClusters = {} PROVE written = groups
  <2>1. \A a \in Auditor : AsBefore(a)
    BY <1>2, <1>3, <1>4
  <2>2. \A g \in Group : \E a \in Auditor : g \in Cluster(a)
    BY Associates, Clusters, Numbers DEF Cluster
  <2>3. \A g \in Group : written[g] = groups[g]
    BY <2>1, <2>2 DEF AsBefore
  <2> QED BY <2>3 DEF Typed
<1> QED BY <1>1, <1>2, <1>3, <1>4 DEF MovedClusters

\* A call that ends is an election of the clusters that have moved, or nothing.
LEMMA EndIsElection ==
  ASSUME IInv, Progress, end_call
  PROVE  UNCHANGED <<groups, executed>> \/ Promised!Elect(MovedClusters)
<1> DEFINE S == MovedClusters
<1>0. Typed
  BY DEF IInv
<1>1. SUFFICES ASSUME ~ UNCHANGED <<groups, executed>>
               PROVE  Promised!Elect(S)
  OBVIOUS
<1>2. /\ executed' = TRUE /\ groups' = written
      /\ \A g \in Group : groups'[g].members = mem[g].members /\ mem[g].members # {}
  BY <1>1, EndOfCall
<1>3. /\ \A a \in S : a \in Auditor /\ Moved(a)
      /\ \A a \in Auditor \ S : AsBefore(a)
      /\ S = {} => written = groups
  BY <1>0, MovedOrNot
<1>4. ASSUME ~ executed PROVE S = Auditor
  <2>1. \A g \in Group : groups[g].members = {}
    BY <1>4 DEF IInv, Whole, NoGroup
  <2>2. \A a \in Auditor : ~ AsBefore(a)
    BY <1>2, <2>1, Clusters DEF AsBefore
  <2> QED BY <1>3, <2>2
<1>5. S # {}
  <2>1. CASE executed
    BY <1>0, <1>1, <1>2, <1>3, <2>1 DEF Typed
  <2>2. CASE ~ executed
    <3>1. 1 \in Auditor
      BY ElectionAssumption DEF Auditor
    <3> QED BY <1>4, <2>2, <3>1
  <2> QED BY <2>1, <2>2
<1>6. executed => Cardinality(S) <= MaxRotatedClusters
  <2>2. Cardinality(S) \in Nat
    BY AuditorsAreFinite, FS_Subset, FS_CardinalityType DEF MovedClusters
  <2>3. Cardinality(S) <= rotated /\ rotated \in Nat /\ MaxRotatedClusters \in Nat
        /\ (executed => rotated <= MaxRotatedClusters)
    BY <1>0, ElectionAssumption DEF Progress, Counted, Typed
  <2> QED BY <2>2, <2>3
<1>7. DOMAIN groups' = Auditor \cup Validator
  BY <1>0, <1>2, Numbers DEF Typed
<1>8. \A a \in Auditor \ S : Promised!Stays(a)
  BY <1>2, <1>3, SameClusters DEF AsBefore, Promised!Stays
<1>9. \A a \in S : Promised!Rotates(a, args.timestamp)
  BY <1>2, <1>3, SameClusters DEF Moved, Promised!Rotates
<1>10. args.timestamp \in {groups'[a].timestamp : a \in S}
  <2>1. PICK a \in S : TRUE
    BY <1>5
  <2>2. a \in Cluster(a) /\ Moved(a)
    BY <1>3, Clusters
  <2> QED BY <1>2, <2>2 DEF Moved
<1>11. \A g \in Auditor \cup Validator : groups'[g].members # {}
  BY <1>2, Numbers
<1>12. Promised!StayApart
  <2>1. Apart(groups')
    BY <1>2, ApartByMembers DEF IInv
  <2> QED BY <2>1 DEF Apart, Promised!StayApart, Promised!Disjoint
<1>13. IF executed THEN Cardinality(S) <= MaxRotatedClusters ELSE S = Auditor
  BY <1>4, <1>6
<1>14. \E at \in {groups'[a].timestamp : a \in S} : \A a \in S : Promised!Rotates(a, at)
  BY <1>9, <1>10
<1> HIDE DEF S
<1> QED BY <1>2, <1>7, <1>8, <1>11, <1>12, <1>13, <1>14, SameCount DEF Promised!Elect

(***************************************************************************)
(* Elections implements ClusterElections: whatever is due, and whichever   *)
(* elections fail, a call changes whole clusters, no more than its limit,  *)
(* or nothing.                                                             *)
(***************************************************************************)
THEOREM CallsAreElections == Spec => CallsElectClusters
<1>1. Init => Promised!Init
  BY Numbers DEF Init, Promised!Init, Promised!Unelected, NoGroup
<1>2. IInv /\ Progress /\ [Next]_vars => [Promised!Next]_<<groups, executed>>
  <2> SUFFICES ASSUME IInv, Progress, [Next]_vars
               PROVE  UNCHANGED <<groups, executed>> \/ Promised!Next
    OBVIOUS
  <2>1. CASE end_call
    <3>1. MovedClusters \in SUBSET Auditor
      BY DEF MovedClusters
    <3> QED BY <2>1, <3>1, EndIsElection DEF Promised!Next
  <2>2. CASE UNCHANGED vars
    BY <2>2 DEF vars
  <2> QED BY <2>1, <2>2, NotYetSeen DEF Next
<1> QED BY <1>1, <1>2, IInvInductive, ProgressInductive, PTL DEF Spec, CallsElectClusters, Promised!Spec

-----------------------------------------------------------------------------
(***************************************************************************)
(* The rest of the module is about StandbyPool and RoleContext.            *)
(***************************************************************************)
(***************************************************************************)
(* Rounds and turns.  A block in which a turn comes schedule rounds after  *)
(* the last one calls the next table, though rounds are counted modulo     *)
(* Cycle: that is a multiple of schedule times the number of tables.       *)
(***************************************************************************)
LEMMA Quotient ==
  ASSUME NEW q \in Int, NEW s \in Nat \ {0}, NEW r \in 0 .. s - 1
  PROVE  /\ (q * s + r) \div s = q
         /\ (q * s + r) % s = r
<1> DEFINE a == q * s + r
           d == a \div s
           m == a % s
<1>1. a \in Int /\ d \in Int /\ m \in 0 .. s - 1 /\ a = s * d + m /\ q * s \in Int
  OBVIOUS
<1>2. s * (q - d) = m - r
  BY <1>1
<1> HIDE DEF d, m
<1>3. ASSUME q > d PROVE FALSE
  <2>1. s * (q - d) >= s
    BY <1>1, <1>3
  <2> QED BY <1>1, <1>2, <2>1
<1>4. ASSUME q < d PROVE FALSE
  <2>1. s * (q - d) <= 0 - s
    BY <1>1, <1>4
  <2> QED BY <1>1, <1>2, <2>1
<1>5. q = d /\ m = r
  BY <1>1, <1>2, <1>3, <1>4
<1> QED BY <1>5 DEF a, d, m

\* Whole multiples of t leave the remainder as it is.
LEMMA Remainder ==
  ASSUME NEW x \in Int, NEW k \in Int, NEW t \in Nat \ {0}
  PROVE  (x + k * t) % t = x % t
<1> DEFINE d == x \div t
           m == x % t
<1>1. d \in Int /\ m \in 0 .. t - 1 /\ x = d * t + m
  OBVIOUS
<1> HIDE DEF d, m
<1>2. x + k * t = (d + k) * t + m /\ d + k \in Int
  BY <1>1
<1>3. ((d + k) * t + m) % t = m
  BY <1>1, <1>2, Quotient
<1> QED BY <1>2, <1>3 DEF m

LEMMA Successor ==
  ASSUME NEW x \in Int, NEW t \in Nat \ {0}
  PROVE  ((x % t) + 1) % t = (x + 1) % t
<1> DEFINE y == (x % t) + 1
<1>1. x \div t \in Int /\ y \in Int /\ x + 1 = y + (x \div t) * t
  OBVIOUS
<1> HIDE DEF y
<1>2. (y + (x \div t) * t) % t = y % t
  BY <1>1, Remainder
<1> QED BY <1>1, <1>2 DEF y

\* The table after next schedule's is the next one.
LEMMA NextTurn ==
  ASSUME NEW s \in Nat \ {0}, NEW t \in Nat \ {0}, NEW cycle \in Nat \ {0},
         cycle % (s * t) = 0, NEW b \in 0 .. cycle - 1
  PROVE  (((b + s) % cycle) \div s) % t = (((b \div s) % t) + 1) % t
<1> DEFINE q == b \div s
           r == b % s
           k == cycle \div (s * t)
<1>1. q \in Nat /\ r \in 0 .. s - 1 /\ b = q * s + r
  OBVIOUS
<1>2. s * t \in Nat \ {0} /\ k \in Nat /\ cycle = k * (s * t)
  <2>1. s * t \in Nat \ {0}
    OBVIOUS
  <2> HIDE DEF k
  <2>2. \A w \in Nat \ {0} : cycle % w = 0 => cycle \div w \in Nat /\ cycle = (cycle \div w) * w
    OBVIOUS
  <2> QED BY <2>1, <2>2 DEF k
<1> HIDE DEF q, r, k
<1>3. k # 0 /\ s <= cycle /\ k * t \in Nat /\ cycle = (k * t) * s
  <2>1. k # 0
    BY <1>2
  <2>2. cycle = (k * t) * s /\ k * t \in Nat \ {0}
    BY <1>2, <2>1
  <2>3. \A w \in Nat \ {0} : s <= w * s
    OBVIOUS
  <2> QED BY <2>1, <2>2, <2>3
<1>4. ((q % t) + 1) % t = (q + 1) % t
  BY <1>1, Successor
<1>5. CASE b + s < cycle
  <2>1. (b + s) % cycle = (q + 1) * s + r
    BY <1>1, <1>5
  <2>2. ((q + 1) * s + r) \div s = q + 1
    BY <1>1, Quotient
  <2> QED BY <1>1, <1>4, <2>1, <2>2 DEF q
<1>6. CASE ~ (b + s < cycle)
  <2>1. (b + s) % cycle = b + s - cycle
    BY <1>3, <1>6
  <2>2. b + s - cycle = (q + 1 - k * t) * s + r
    BY <1>1, <1>3
  <2>3. ((q + 1 - k * t) * s + r) \div s = q + 1 - k * t
    <3>1. q + 1 - k * t \in Int
      BY <1>1, <1>3
    <3> QED BY <1>1, <3>1, Quotient
  <2>4. (q + 1 - k * t) % t = (q + 1) % t
    <3> DEFINE x == q + 1 - k * t
    <3>1. x \in Int /\ x + k * t = q + 1
      BY <1>1, <1>3
    <3>2. k \in Int
      BY <1>2
    <3> HIDE DEF x
    <3>3. (x + k * t) % t = x % t
      BY <3>1, <3>2, Remainder
    <3> QED BY <3>1, <3>3 DEF x
  <2> QED BY <1>4, <2>1, <2>2, <2>3, <2>4 DEF q
<1> QED BY <1>5, <1>6

-----------------------------------------------------------------------------
(***************************************************************************)
(* The election of a group without rotation takes no more standbys than    *)
(* there is room for: no two of those it takes have as many before them.   *)
(***************************************************************************)
LEMMA FirstOnes ==
  ASSUME NEW S \in SUBSET Nat, IsFiniteSet(S), NEW max \in Nat
  PROVE  First(S, max) \subseteq S /\ Cardinality(First(S, max)) <= max
<1> DEFINE Before(n) == {m \in S : m < n}
           place == [n \in First(S, max) |-> Cardinality(Before(n))]
<1>1. First(S, max) \subseteq S
  BY DEF First
<1>2. \A n : IsFiniteSet(Before(n)) /\ Cardinality(Before(n)) \in Nat
  <2>1. \A n : Before(n) \in SUBSET S
    OBVIOUS
  <2> QED BY <2>1, FS_Subset, FS_CardinalityType
<1>3. place \in [First(S, max) -> 0 .. max - 1]
  BY <1>2 DEF First
<1>4. ASSUME NEW n \in S, NEW m \in S, m < n
      PROVE  Cardinality(Before(m)) < Cardinality(Before(n))
  <2>1. Before(m) \in SUBSET Before(n) /\ m \in Before(n) /\ m \notin Before(m)
    <3>1. n \in Nat /\ m \in Nat /\ \A k \in S : k \in Nat /\ (k < m => k < n)
      BY <1>4
    <3>2. Before(m) \in SUBSET Before(n)
      BY <3>1
    <3>3. m \in Before(n)
      BY <1>4
    <3>4. m \notin Before(m)
      BY <3>1
    <3> QED BY <3>2, <3>3, <3>4
  <2>2. Cardinality(Before(m)) <= Cardinality(Before(n))
        /\ Cardinality(Before(n)) # Cardinality(Before(m))
    <3>1. IsFiniteSet(Before(n))
      BY <1>2
    <3>2. Before(m) # Before(n)
      BY <2>1
    <3> HIDE DEF Before
    <3> QED BY <2>1, <3>1, <3>2, FS_Subset
  <2> QED BY <1>2, <2>2
<1>5. place \in Injection(First(S, max), 0 .. max - 1)
  <2>1. ASSUME NEW n \in First(S, max), NEW m \in First(S, max), place[n] = place[m]
        PROVE  n = m
    <3>1. Cardinality(Before(n)) = Cardinality(Before(m)) /\ n \in S /\ m \in S
      BY <1>1, <2>1
    <3> HIDE DEF Before, place
    <3>2. ~ (n < m) /\ ~ (m < n)
      BY <1>2, <1>4, <3>1
    <3> QED BY <3>1, <3>2
  <2> QED BY <1>3, <2>1 DEF Injection, IsInjective
<1>6. IsFiniteSet(0 .. max - 1) /\ Cardinality(0 .. max - 1) = max
  BY FS_Interval
<1>7. Cardinality(First(S, max)) <= max
  BY <1>5, <1>6, FS_Injection
<1> QED BY <1>1, <1>7

(***************************************************************************)
(* What there is of the contexts: no more than one, and a call for every   *)
(* contract.                                                               *)
(***************************************************************************)
ContextTyped ==
  /\ here \in Deployments
  /\ round \in 0 .. Cycle - 1 /\ seen \in BOOLEAN
  /\ schedule \in ScheduleIntervals
  /\ Live = {} \/ \E v \in Vnode[here] : Live = {v}
  /\ \A v \in Live : contexts[v] \in {NoSchedule} \cup 0 .. ScheduleRange - 1
  /\ called \in 0 .. TableNum - 1
  /\ calls \in [Contract -> SUBSET Nat] /\ \A c \in Contract : calls[c] \subseteq Ages(c)
  /\ started \subseteq StandAlone
  /\ steady \in BOOLEAN

\* Everything there is in the pool and in the groups.
MembersTyped ==
  /\ DOMAIN reg \subseteq Candidate /\ \A n \in DOMAIN reg : reg[n] \in Kinds[n]
  /\ active \in BOOLEAN /\ activated \in BOOLEAN
  /\ DOMAIN standbys \subseteq Candidate
  /\ \A n \in DOMAIN standbys : standbys[n] \subseteq RecGroup
  /\ DOMAIN rec_groups = RecGroup
  /\ \A g \in RecGroup : /\ rec_groups[g] \subseteq Candidate
                         /\ Cardinality(rec_groups[g]) <= Sizes[g].max

(***************************************************************************)
(* While everything is steady there is one context; its count says how     *)
(* many rounds ago, in round b, the last turn came, and the table called   *)
(* then is that of round b.                                                *)
(***************************************************************************)
InTurn ==
  steady =>
    /\ Statistic \in here
    /\ Live # {}
    /\ \A v \in Live :
         /\ contexts[v] \in 0 .. schedule - 1
         /\ \E b \in 0 .. Cycle - 1 :
              /\ called = (b \div schedule) % TableNum
              /\ round = (b + contexts[v] + (IF seen THEN 0 ELSE 1)) % Cycle

LEMMA TypedImpliesPoolTypeOK == ContextTyped /\ MembersTyped => PoolTypeOK
<1> SUFFICES ASSUME ContextTyped, MembersTyped PROVE PoolTypeOK
  OBVIOUS
<1>1. Live \subseteq Vnode[here] /\ Cardinality(Live) <= 1
  <2>1. CASE Live = {}
    BY <2>1, FS_EmptySet
  <2>2. CASE \E v \in Vnode[here] : Live = {v}
    <3>1. PICK v \in Vnode[here] : Live = {v}
      BY <2>2
    <3>2. Cardinality({v}) = 1
      BY FS_Singleton
    <3> QED BY <3>1, <3>2
  <2> QED BY <2>1, <2>2 DEF ContextTyped
<1>2. ContextTypeOK
  BY <1>1 DEF ContextTypeOK, ContextTyped
<1> QED BY <1>2 DEF PoolTypeOK, MembersTyped

-----------------------------------------------------------------------------
(***************************************************************************)
(* The contexts.                                                           *)
(***************************************************************************)
LEMMA AgedCalls ==
  ASSUME NEW c \in Contract, NEW ages \in SUBSET Ages(c)
  PROVE  Aged(c, ages) \subseteq Ages(c)
<1>1. DOMAIN Patience \subseteq Contract /\ Patience \in [DOMAIN Patience -> Nat]
  BY RoleContextAssumption
<1> SUFFICES ASSUME NEW age \in ages, c \in DOMAIN Patience
             PROVE  (IF age > Patience[c] THEN age ELSE age + 1) \in Ages(c)
  BY DEF Aged, Ages
<1> QED BY <1>1 DEF Ages

LEMMA AgesAreNumbers == \A c \in Contract : Ages(c) \in SUBSET Nat /\ 0 \in Ages(c)
<1>1. DOMAIN Patience \subseteq Contract /\ Patience \in [DOMAIN Patience -> Nat]
  BY RoleContextAssumption
<1> QED BY <1>1 DEF Ages

LEMMA VnodeKeepsContextTyped ==
  ASSUME ContextTyped, NEW v \in Vnode[here], do_new_vnode(v) \/ do_destory_vnode(v)
  PROVE  ContextTyped'
<1>1. CASE do_new_vnode(v)
  <2>1. Live' = {v} /\ contexts'[v] = NoSchedule
    BY <1>1 DEF do_new_vnode, Live
  <2> QED BY <1>1, <2>1 DEF ContextTyped, do_new_vnode
<1>2. CASE do_destory_vnode(v)
  <2>1. Live' = {}
    BY <1>2 DEF ContextTyped, do_destory_vnode, Live
  <2> QED BY <1>2, <2>1 DEF ContextTyped, do_destory_vnode
<1> QED BY <1>1, <1>2

LEMMA TimerKeepsContextTyped ==
  ASSUME ContextTyped, TimerBlock
  PROVE  ContextTyped'
<1>1. round' \in 0 .. Cycle - 1
  BY RoleContextAssumption DEF ContextTyped, TimerBlock
<1>2. /\ calls' \in [Contract -> SUBSET Nat]
      /\ \A c \in Contract : calls'[c] \subseteq Ages(c)
  <2>1. \A c \in Contract : Aged(c, calls[c]) \subseteq Ages(c) /\ Ages(c) \subseteq Nat
    BY AgedCalls, AgesAreNumbers DEF ContextTyped
  <2> QED BY <2>1 DEF TimerBlock
<1>3. Live' = Live
  BY DEF TimerBlock, Live
<1> QED BY <1>1, <1>2, <1>3 DEF ContextTyped, TimerBlock

LEMMA BlockKeepsContextTyped ==
  ASSUME ContextTyped, do_on_block
  PROVE  ContextTyped'
<1>1. /\ calls' \in [Contract -> SUBSET Nat]
      /\ \A c \in Contract : calls'[c] \subseteq Ages(c)
  BY AgesAreNumbers DEF ContextTyped, do_on_block
<1>2. schedule \in Nat \ {0} /\ TableNum \in Nat \ {0} /\ ScheduleRange \in Nat \ {0}
  BY RoleContextAssumption DEF ContextTyped
<1>3. called' \in 0 .. TableNum - 1
  <2>1. round \in Nat /\ called \in 0 .. TableNum - 1
    BY RoleContextAssumption DEF ContextTyped
  <2>2. round \div schedule \in Nat
    BY <1>2, <2>1
  <2>3. (round \div schedule) % TableNum \in 0 .. TableNum - 1
    BY <1>2, <2>2
  <2> QED BY <2>1, <2>3 DEF do_on_block
<1>4. Live' = Live /\ \A v \in Live : contexts'[v] \in {NoSchedule} \cup 0 .. ScheduleRange - 1
  <2>1. \A v \in Live : CurrentInterval(contexts[v]) \in {NoSchedule} \cup 0 .. ScheduleRange - 1
    <3> SUFFICES ASSUME NEW v \in Live
                 PROVE  CurrentInterval(contexts[v]) \in {NoSchedule} \cup 0 .. ScheduleRange - 1
      OBVIOUS
    <3>1. contexts[v] \in {NoSchedule} \cup 0 .. ScheduleRange - 1
      BY DEF ContextTyped
    <3> QED BY <1>2, <3>1 DEF CurrentInterval, TurnDue, Advanced, NoSchedule
  <2> QED BY <2>1 DEF do_on_block, ContextTyped, Live
<1>5. steady' \in BOOLEAN
  BY DEF do_on_block, ContextTyped
<1>6. seen' \in BOOLEAN /\ UNCHANGED <<here, round, schedule, started>>
  BY DEF do_on_block
<1> QED BY <1>1, <1>3, <1>4, <1>5, <1>6 DEF ContextTyped

LEMMA ContextNextKeepsTyped == ContextTyped /\ ContextNext => ContextTyped'
<1>1. ASSUME ContextTyped, SetSchedule PROVE ContextTyped'
  BY <1>1 DEF ContextTyped, SetSchedule, Live
<1> QED BY <1>1, VnodeKeepsContextTyped, TimerKeepsContextTyped, BlockKeepsContextTyped
        DEF ContextNext

LEMMA ExecuteKeepsContextTyped ==
  ASSUME ContextTyped, NEW c, NEW age, Execute(c, age), started' \subseteq StandAlone
  PROVE  ContextTyped'
<1>1. /\ calls' \in [Contract -> SUBSET Nat]
      /\ \A d \in Contract : calls'[d] \subseteq Ages(d)
  BY DEF ContextTyped, Execute
<1>2. Live' = Live
  BY DEF Execute, Live
<1> QED BY <1>1, <1>2 DEF ContextTyped, Execute

LEMMA ContextStays ==
  /\ ContextTyped /\ UNCHANGED <<here, contextVars>> => ContextTyped'
  /\ InTurn /\ UNCHANGED <<here, round, seen, schedule, contexts, called, steady>> => InTurn'
<1>1. ContextTyped /\ UNCHANGED <<here, contextVars>> => ContextTyped'
  BY DEF ContextTyped, contextVars, Live
<1>2. ASSUME InTurn, UNCHANGED <<here, round, seen, schedule, contexts, called, steady>>
      PROVE  InTurn'
  BY <1>2 DEF InTurn, Live
<1> QED BY <1>1, <1>2

(***************************************************************************)
(* The count of a role context and the turns.                              *)
(***************************************************************************)
LEMMA BlockKeepsInTurn ==
  ASSUME ContextTyped, InTurn, do_on_block
  PROVE  /\ InTurn'
         /\ steady /\ (\E v \in Live : TurnDue(contexts[v])) =>
              called' = (called + 1) % TableNum
<1> DEFINE turn == \E v \in Live : TurnDue(contexts[v])
<1>1. /\ schedule \in 1 .. ScheduleRange - 1 /\ schedule \in Nat \ {0}
      /\ TableNum \in Nat \ {0} /\ ScheduleRange \in Nat \ {0} /\ Cycle \in Nat \ {0}
      /\ Cycle % (schedule * TableNum) = 0 /\ round \in 0 .. Cycle - 1
  BY RoleContextAssumption DEF ContextTyped
<1>2. ~ seen /\ seen' = TRUE /\ UNCHANGED <<here, round, schedule>>
  BY DEF do_on_block
<1>3. CASE Statistic \notin here
  BY <1>2, <1>3 DEF do_on_block, InTurn
<1>4. CASE Statistic \in here /\ turn
  <2>1. PICK v \in Live : TurnDue(contexts[v])
    BY <1>4
  <2>2. Live = {v} /\ Live' = {v}
    BY <1>4, <2>1 DEF ContextTyped, do_on_block, Live
  <2>3. contexts'[v] = 0 /\ called' = (round \div schedule) % TableNum
    BY <1>4, <2>1, <2>2 DEF do_on_block, CurrentInterval
  <2>4. (round + 0 + 0) % Cycle = round
    BY <1>1
  <2>5. InTurn'
    BY <1>1, <1>2, <1>4, <2>2, <2>3, <2>4 DEF InTurn
  <2>6. ASSUME steady PROVE called' = (called + 1) % TableNum
    <3>1. contexts[v] \in 0 .. schedule - 1
      BY <2>2, <2>6 DEF InTurn
    <3>2. PICK b \in 0 .. Cycle - 1 :
            called = (b \div schedule) % TableNum /\ round = (b + contexts[v] + 1) % Cycle
      BY <1>2, <2>2, <2>6 DEF InTurn
    <3>3. contexts[v] + 1 = schedule
      BY <1>1, <2>1, <3>1 DEF TurnDue, Advanced, NoSchedule
    <3>4. round = (b + schedule) % Cycle
      BY <3>1, <3>2, <3>3
    <3> QED BY <1>1, <2>3, <3>2, <3>4, NextTurn
  <2> QED BY <2>5, <2>6
<1>5. CASE Statistic \in here /\ ~ turn
  <2>1. /\ steady' = steady /\ called' = called /\ Live' = Live
        /\ \A v \in Live : contexts'[v] = Advanced(contexts[v]) /\ ~ TurnDue(contexts[v])
    BY <1>5 DEF do_on_block, ContextTyped, Live, CurrentInterval
  <2>2. ASSUME steady, NEW v \in Live
        PROVE  /\ contexts'[v] \in 0 .. schedule' - 1
               /\ \E b \in 0 .. Cycle - 1 :
                    /\ called' = (b \div schedule') % TableNum
                    /\ round' = (b + contexts'[v] + (IF seen' THEN 0 ELSE 1)) % Cycle
    <3>1. contexts[v] \in 0 .. schedule - 1
      BY <2>2 DEF InTurn
    <3>2. PICK b \in 0 .. Cycle - 1 :
            called = (b \div schedule) % TableNum /\ round = (b + contexts[v] + 1) % Cycle
      BY <1>2, <2>2 DEF InTurn
    <3>3. contexts'[v] = contexts[v] + 1 /\ contexts[v] + 1 # schedule
      BY <1>1, <2>1, <2>2, <3>1 DEF TurnDue, Advanced
    <3>4. b + contexts[v] + 1 = b + contexts'[v] + 0
      BY <1>1, <3>1, <3>3
    <3> QED BY <1>1, <1>2, <2>1, <3>1, <3>2, <3>3, <3>4
  <2>3. steady => Statistic \in here /\ Live # {}
    BY DEF InTurn
  <2> QED BY <1>2, <1>5, <2>1, <2>2, <2>3 DEF InTurn
<1> QED BY <1>3, <1>4, <1>5

LEMMA TimerKeepsInTurn ==
  ASSUME ContextTyped, InTurn, TimerBlock
  PROVE  InTurn'
<1>0. CASE ~ (steady /\ seen)
  BY <1>0 DEF TimerBlock, InTurn, ContextTyped
<1> SUFFICES ASSUME steady, seen PROVE InTurn'
  BY <1>0
<1>1. /\ Cycle \in Nat \ {0} /\ schedule \in Nat
      /\ seen' = FALSE /\ round' = (round + 1) % Cycle
      /\ UNCHANGED <<here, schedule, contexts, called>> /\ Live' = Live
  BY RoleContextAssumption DEF TimerBlock, ContextTyped, Live
<1>2. ASSUME NEW v \in Live
      PROVE  \E b \in 0 .. Cycle - 1 :
               /\ called = (b \div schedule) % TableNum
               /\ round' = (b + contexts[v] + 1) % Cycle
  <2>1. contexts[v] \in 0 .. schedule - 1
    BY <1>2 DEF InTurn
  <2>2. PICK b \in 0 .. Cycle - 1 :
          called = (b \div schedule) % TableNum /\ round = (b + contexts[v] + 0) % Cycle
    BY <1>2 DEF InTurn
  <2>3. round' = (b + contexts[v] + 1) % Cycle
    <3> DEFINE x == b + contexts[v]
    <3>1. x \in Int /\ x + 0 = x
      BY <1>1, <2>1
    <3> HIDE DEF x
    <3>2. ((x % Cycle) + 1) % Cycle = (x + 1) % Cycle
      BY <1>1, <3>1, Successor
    <3> QED BY <1>1, <2>2, <3>1, <3>2 DEF x
  <2> QED BY <2>2, <2>3
<1> QED BY <1>1, <1>2 DEF InTurn

LEMMA ContextNextKeepsInTurn ==
  ContextTyped /\ InTurn /\ ContextNext => InTurn'
<1>1. ASSUME \/ SetSchedule
             \/ \E v \in Vnode[here] : do_new_vnode(v) \/ do_destory_vnode(v)
      PROVE  InTurn'
  BY <1>1 DEF SetSchedule, do_new_vnode, do_destory_vnode, InTurn
<1> QED BY <1>1, BlockKeepsInTurn, TimerKeepsInTurn DEF ContextNext

-----------------------------------------------------------------------------
(***************************************************************************)
(* The pool and the groups.                                                *)
(***************************************************************************)
LEMMA GroupsOfContracts ==
  /\ \A c \in DOMAIN Groups : c \in Contract /\ Groups[c] \subseteq RecGroup
  /\ \A g \in RecGroup : Sizes[g].max \in Nat
  /\ Candidate \subseteq Nat /\ IsFiniteSet(Candidate) /\ Seed \subseteq Candidate
  BY StandbyAssumption DEF RecGroup

LEMMA RegistrationsKeepTyped ==
  ASSUME MembersTyped, Registrations
  PROVE  MembersTyped'
<1>1. ASSUME NEW n \in Candidate, NEW kind \in Kinds[n], Register(n, kind)
      PROVE  DOMAIN reg' \subseteq Candidate /\ \A m \in DOMAIN reg' : reg'[m] \in Kinds[m]
  BY <1>1 DEF MembersTyped, Register
<1>2. ASSUME NEW n \in Candidate, NEW kind \in Kinds[n], Update(n, kind)
      PROVE  DOMAIN reg' \subseteq Candidate /\ \A m \in DOMAIN reg' : reg'[m] \in Kinds[m]
  BY <1>2 DEF MembersTyped, Update
<1>3. ASSUME NEW n \in Candidate, Unregister(n)
      PROVE  DOMAIN reg' \subseteq Candidate /\ \A m \in DOMAIN reg' : reg'[m] \in Kinds[m]
  BY <1>3 DEF MembersTyped, Unregister
<1>4. ASSUME Activate
      PROVE  DOMAIN reg' \subseteq Candidate /\ \A m \in DOMAIN reg' : reg'[m] \in Kinds[m]
  BY <1>4 DEF MembersTyped, Activate
<1>5. active' \in BOOLEAN
  BY DEF MembersTyped, Registrations, Register, Update, Unregister, Activate
<1>6. DOMAIN reg' \subseteq Candidate /\ \A m \in DOMAIN reg' : reg'[m] \in Kinds[m]
  BY <1>1, <1>2, <1>3, <1>4 DEF Registrations
<1>7. UNCHANGED poolVars
  BY DEF Registrations
<1> QED BY <1>5, <1>6, <1>7 DEF MembersTyped, poolVars

\* The roles of a node that is registered are groups.
LEMMA RolesAreGroups ==
  ASSUME MembersTyped, NEW n \in DOMAIN reg
  PROVE  n \in Candidate /\ reg[n].roles \subseteq RecGroup
  BY StandbyAssumption DEF MembersTyped

LEMMA JoinKeepsTyped ==
  ASSUME MembersTyped, NEW n \in Candidate, nodeJoinNetwork2(n)
  PROVE  MembersTyped'
<1>1. /\ DOMAIN standbys' \subseteq Candidate
      /\ \A m \in DOMAIN standbys' : standbys'[m] \subseteq RecGroup
  BY RolesAreGroups DEF MembersTyped, nodeJoinNetwork2
<1> QED BY <1>1 DEF MembersTyped, nodeJoinNetwork2

LEMMA PoolCallKeepsTyped ==
  ASSUME MembersTyped, NEW age, rec_standby_on_timer(age)
  PROVE  MembersTyped'
<1>1. /\ DOMAIN standbys' \subseteq Candidate
      /\ \A m \in DOMAIN standbys' : standbys'[m] \subseteq RecGroup
  BY RolesAreGroups DEF MembersTyped, rec_standby_on_timer, Synchronised
<1>2. activated' \in BOOLEAN
  BY DEF MembersTyped, rec_standby_on_timer, RecordsActivation
<1> QED BY <1>1, <1>2 DEF MembersTyped, rec_standby_on_timer

(***************************************************************************)
(* An election of either kind makes a group of members it had and standbys *)
(* it is offered, and none that is too large.                              *)
(***************************************************************************)
LEMMA ElectedGroup ==
  ASSUME MembersTyped, NEW g \in RecGroup, NEW new \in Elected(g)
  PROVE  /\ new \subseteq rec_groups[g] \cup Offered(g)
         /\ new \subseteq Candidate
         /\ Cardinality(new) <= Sizes[g].max
<1>1. /\ rec_groups[g] \subseteq Candidate /\ Offered(g) \subseteq Candidate
      /\ Cardinality(rec_groups[g]) <= Sizes[g].max
  BY DEF MembersTyped, Offered
<1>2. /\ IsFiniteSet(rec_groups[g]) /\ IsFiniteSet(Offered(g)) /\ Offered(g) \in SUBSET Nat
      /\ Sizes[g].max \in Nat /\ Cardinality(rec_groups[g]) \in Nat
  BY <1>1, GroupsOfContracts, FS_Subset, FS_CardinalityType
<1>3. CASE new = rec_groups[g]
  BY <1>1, <1>3
<1>4. CASE new = First(Offered(g), Sizes[g].max)
  BY <1>1, <1>2, <1>4, FirstOnes
<1>5. CASE g \in Committee /\ new \in elect_group(FALSE, rec_groups[g], Offered(g), Sizes[g])
  <2>1. IsRange(Sizes[g])
    BY <1>5, StandbyAssumption
  <2>2. PICK gone, out, in :
          Outcome(FALSE, rec_groups[g], Offered(g), Sizes[g], gone, out, in, new)
    BY <1>5, ElectionOutcome
  <2>3. new \subseteq rec_groups[g] \cup Offered(g)
    BY <2>2 DEF Outcome
  <2>4. RotationSound(rec_groups[g], new, Sizes[g])
    BY <1>2, <1>5, <2>1, RotationsAreSound
  <2>5. Cardinality(new) \in 1 .. Sizes[g].max
    BY <1>1, <1>2, <2>4 DEF RotationSound
  <2> QED BY <1>1, <1>2, <2>3, <2>5
<1> QED BY <1>3, <1>4, <1>5 DEF Elected, elect_committee, elect_nonconsensus

\* What the call of an election contract leaves in a group.
LEMMA ElectionCall ==
  ASSUME MembersTyped, NEW c \in DOMAIN Groups, NEW age, elect_on_timer(c, age),
         NEW g \in RecGroup
  PROVE  rec_groups'[g] = rec_groups[g] \/ rec_groups'[g] \in Elected(g)
<1>1. CASE InTime(c, age)
  <2>1. PICK elected \in [Groups[c] -> SUBSET Candidate] :
          /\ \A h \in Groups[c] : elected[h] \in Elected(h)
          /\ rec_groups' = [h \in RecGroup |-> IF h \in Groups[c] THEN elected[h]
                                                ELSE rec_groups[h]]
    BY <1>1 DEF elect_on_timer
  <2> QED BY <2>1
<1> QED BY <1>1 DEF elect_on_timer

LEMMA ElectionKeepsTyped ==
  ASSUME MembersTyped, NEW c \in DOMAIN Groups, NEW age, elect_on_timer(c, age)
  PROVE  MembersTyped'
<1>1. \A g \in RecGroup : /\ rec_groups'[g] \subseteq Candidate
                          /\ Cardinality(rec_groups'[g]) <= Sizes[g].max
  BY ElectionCall, ElectedGroup DEF MembersTyped
<1>2. DOMAIN rec_groups' = RecGroup
  BY DEF elect_on_timer, MembersTyped
<1> QED BY <1>1, <1>2 DEF MembersTyped, elect_on_timer

-----------------------------------------------------------------------------
(***************************************************************************)
(* Before the activation nobody but seeds is offered, so nobody else is    *)
(* elected.  The pool never records an activation that has not come.       *)
(***************************************************************************)
LEMMA SeedsStay ==
  ASSUME MembersTyped, SeedsUntilActive, PoolNext
  PROVE  SeedsUntilActive'
<1>1. ASSUME ContextNext /\ UNCHANGED <<reg, active, poolVars>> PROVE SeedsUntilActive'
  BY <1>1 DEF SeedsUntilActive, poolVars
<1>2. ASSUME Registrations PROVE SeedsUntilActive'
  <2>1. ~ active' => ~ active
    BY <1>2 DEF Registrations, Register, Update, Unregister, Activate
  <2>2. UNCHANGED <<activated, rec_groups>>
    BY <1>2 DEF Registrations, poolVars
  <2> QED BY <2>1, <2>2 DEF SeedsUntilActive
<1>3. ASSUME NEW n \in Candidate, nodeJoinNetwork2(n) PROVE SeedsUntilActive'
  BY <1>3 DEF SeedsUntilActive, nodeJoinNetwork2
<1>4. ASSUME NEW age, rec_standby_on_timer(age) PROVE SeedsUntilActive'
  BY <1>4 DEF SeedsUntilActive, rec_standby_on_timer, RecordsActivation
<1>5. ASSUME NEW c \in DOMAIN Groups, NEW age, elect_on_timer(c, age), ~ active
      PROVE  \A g \in RecGroup : rec_groups'[g] \subseteq Seed
  <2> SUFFICES ASSUME NEW g \in RecGroup PROVE rec_groups'[g] \subseteq Seed
    OBVIOUS
  <2>1. ~ activated /\ rec_groups[g] \subseteq Seed
    BY <1>5 DEF SeedsUntilActive
  <2>2. Offered(g) \subseteq Seed
    BY <2>1 DEF Offered
  <2> QED BY <1>5, <2>1, <2>2, ElectionCall, ElectedGroup
<1>6. ASSUME NEW c \in DOMAIN Groups, NEW age, elect_on_timer(c, age)
      PROVE  SeedsUntilActive'
  BY <1>5, <1>6 DEF SeedsUntilActive, elect_on_timer
<1> QED BY <1>1, <1>2, <1>3, <1>4, <1>6 DEF PoolNext

IPool == ContextTyped /\ MembersTyped /\ SeedsUntilActive /\ InTurn

LEMMA PoolInitIPool == PoolInit => IPool
<1> SUFFICES ASSUME PoolInit PROVE IPool
  OBVIOUS
<1>1. ContextTyped /\ InTurn
  <2>1. here \in Deployments /\ schedule \in ScheduleIntervals /\ Live = {} /\ started = {}
        /\ seen = FALSE /\ steady = FALSE
    BY DEF PoolInit, ContextInit, Live
  <2>2. round \in 0 .. Cycle - 1 /\ called \in 0 .. TableNum - 1
    BY RoleContextAssumption DEF PoolInit, ContextInit
  <2>3. calls \in [Contract -> SUBSET Nat] /\ \A c \in Contract : calls[c] \subseteq Ages(c)
    BY DEF PoolInit, ContextInit
  <2> QED BY <2>1, <2>2, <2>3 DEF ContextTyped, InTurn
<1>2. \A g \in RecGroup : /\ Genesis(g) \subseteq Seed
                          /\ Cardinality(Genesis(g)) <= Sizes[g].max
  <2> SUFFICES ASSUME NEW g \in RecGroup
               PROVE  Genesis(g) \subseteq Seed /\ Cardinality(Genesis(g)) <= Sizes[g].max
    OBVIOUS
  <2>1. Seed \in SUBSET Nat /\ IsFiniteSet(Seed) /\ Sizes[g].max \in Nat
    BY GroupsOfContracts, FS_Subset
  <2>2. First(Seed, Sizes[g].max) \subseteq Seed
        /\ Cardinality(First(Seed, Sizes[g].max)) <= Sizes[g].max
    BY <2>1, FirstOnes
  <2> QED BY <2>1, <2>2, FS_EmptySet DEF Genesis
<1>3. MembersTyped
  BY <1>2, StandbyAssumption DEF PoolInit, SeedRoles, MembersTyped
<1>4. SeedsUntilActive
  BY <1>2 DEF PoolInit, SeedsUntilActive
<1> QED BY <1>1, <1>3, <1>4 DEF IPool

LEMMA PoolStepKeepsTyped ==
  ASSUME IPool, PoolNext
  PROVE  ContextTyped' /\ MembersTyped'
<1> USE DEF IPool
<1>1. ASSUME ContextNext /\ UNCHANGED <<reg, active, poolVars>> PROVE ContextTyped' /\ MembersTyped'
  <2>1. MembersTyped'
    BY <1>1 DEF MembersTyped, poolVars
  <2> QED BY <1>1, <2>1, ContextNextKeepsTyped
<1>2. ASSUME Registrations PROVE ContextTyped' /\ MembersTyped'
  BY <1>2, RegistrationsKeepTyped, ContextStays DEF Registrations
<1>3. ASSUME NEW n \in Candidate, nodeJoinNetwork2(n) PROVE ContextTyped' /\ MembersTyped'
  BY <1>3, JoinKeepsTyped, ContextStays DEF nodeJoinNetwork2
<1>4. ASSUME NEW age \in Ages("standby"), rec_standby_on_timer(age)
      PROVE  ContextTyped' /\ MembersTyped'
  <2>1. started' \subseteq StandAlone
    BY <1>4 DEF rec_standby_on_timer, ContextTyped
  <2> QED BY <1>4, <2>1, PoolCallKeepsTyped, ExecuteKeepsContextTyped DEF rec_standby_on_timer
<1>5. ASSUME NEW c \in DOMAIN Groups, NEW age \in Ages(c), elect_on_timer(c, age)
      PROVE  ContextTyped' /\ MembersTyped'
  <2>1. started' \subseteq StandAlone
    BY <1>5 DEF elect_on_timer, ContextTyped
  <2> QED BY <1>5, <2>1, ElectionKeepsTyped, GroupsOfContracts, ExecuteKeepsContextTyped
          DEF elect_on_timer
<1> QED BY <1>1, <1>2, <1>3, <1>4, <1>5 DEF PoolNext

LEMMA PoolStepKeepsInTurn ==
  ASSUME IPool, PoolNext
  PROVE  InTurn'
<1>1. CASE ContextNext
  BY <1>1, ContextNextKeepsInTurn DEF IPool
<1>2. CASE ~ ContextNext
  <2>1. UNCHANGED <<here, round, seen, schedule, contexts, called, steady>>
    BY <1>2 DEF PoolNext, Registrations, nodeJoinNetwork2, rec_standby_on_timer,
                elect_on_timer, Execute, contextVars
  <2> QED BY <2>1, ContextStays DEF IPool
<1> QED BY <1>1, <1>2

THEOREM IPoolInductive == PoolSpec => []IPool
<1>1. IPool /\ [PoolNext]_allVars => IPool'
  <2>1. ASSUME IPool, PoolNext PROVE IPool'
    BY <2>1, PoolStepKeepsTyped, PoolStepKeepsInTurn, SeedsStay DEF IPool
  <2>2. ASSUME IPool, UNCHANGED allVars PROVE IPool'
    <3>1. ContextTyped' /\ InTurn'
      BY <2>2, ContextStays DEF IPool, allVars, contextVars
    <3>2. MembersTyped' /\ SeedsUntilActive'
      BY <2>2 DEF IPool, MembersTyped, SeedsUntilActive, allVars, poolVars
    <3> QED BY <3>1, <3>2 DEF IPool
  <2> QED BY <2>1, <2>2
<1> QED BY <1>1, PoolInitIPool, PTL DEF PoolSpec

(***************************************************************************)
(* The pool's state has its type, whatever the deployment, the schedule    *)
(* and the sizes, and no group is ever larger than governance allows.      *)
(***************************************************************************)
THEOREM PoolTypeCorrect == PoolSpec => []PoolTypeOK
<1>1. IPool => PoolTypeOK
  BY TypedImpliesPoolTypeOK DEF IPool
<1> QED BY <1>1, IPoolInductive, PTL

(***************************************************************************)
(* Until the network is active the groups of the beacon chain consist of   *)
(* seeds, however many others register, join and are listed.               *)
(***************************************************************************)
THEOREM SeedsAloneUntilActive == PoolSpec => []SeedsUntilActive
<1>1. IPool => SeedsUntilActive
  BY DEF IPool
<1> QED BY <1>1, IPoolInductive, PTL

(***************************************************************************)
(* From turn to turn the tables are called one after the other, for any    *)
(* number of tables, any schedule and over the end of the cycle.           *)
(***************************************************************************)
THEOREM TurnsComeInOrder == PoolSpec => TurnsInOrder
<1>1. IPool => (steady /\ do_on_block /\ (\E v \in Live : TurnDue(contexts[v]))
                  => called' = (called + 1) % TableNum)
  BY BlockKeepsInTurn DEF IPool
<1> QED BY <1>1, IPoolInductive, PTL DEF TurnsInOrder
=============================================================================
