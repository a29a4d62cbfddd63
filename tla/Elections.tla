----------------------------- MODULE Elections -----------------------------
(***************************************************************************)
(* The elections of auditors and validators                                *)
(* (xzec_elect_consensus_group_contract.cpp).  A cluster is a group of     *)
(* auditors with the groups of validators associated with it               *)
(* (xzec_group_association_contract.cpp).  The contract elects cluster     *)
(* after cluster, each group from the standbys that the groups elected     *)
(* before it leave.  It reads the standbys from REC's pool at the height   *)
(* that ZEC's standby pool contract (xzec_standby_pool_contract.cpp) has   *)
(* settled on, so it may not know of what has happened since.              *)
(*                                                                         *)
(* A call of on_timer is one transaction.  Here it takes a step for every  *)
(* group it elects: the steps work on the copy mem, stores of finished     *)
(* clusters go to written, and groups, what others see, changes with the   *)
(* last step only.  A call that throws changes nothing.                    *)
(***************************************************************************)
EXTENDS Rotation, Sequences

CONSTANTS
  Node,
  AuditorCount,    \* auditor_group_count
  ValidatorCount,  \* validator_group_count
  Pools,           \* what REC's standby pool may list: the standbys of each role
  SeedPool,        \* what it lists at first: the seed nodes
  Ranges,          \* sizes of groups that governance may set for each role
  Seeds,           \* values of the random seed
  ElectionInterval,   \* cluster_election_interval
  MaxRotatedClusters, \* max_auditor_rotation_count
  HeightStep,      \* cross_reading_rec_standby_pool_contract_height_step_limitation
  ReadTimeout,     \* cross_reading_rec_standby_pool_contract_logic_timeout_limitation
  MaxHeight,       \* bound: blocks of REC's standby pool
  MaxTime          \* bound: the logic clock

Auditor == 1 .. AuditorCount
Validator == AuditorCount + 1 .. AuditorCount + ValidatorCount
Group == Auditor \cup Validator

ASSUME ElectionAssumption ==
  /\ AuditorCount \in Nat \ {0} /\ ValidatorCount \in Nat \ {0}
  /\ ValidatorCount % AuditorCount = 0
  /\ IsFiniteSet(Node)
  /\ \A p \in Pools : DOMAIN p = {"auditor", "validator"}
                      /\ p.auditor \subseteq Node /\ p.validator \subseteq Node
  /\ SeedPool \in Pools
  /\ \A r \in Ranges : DOMAIN r = {"auditor", "validator"}
                       /\ IsRange(r.auditor) /\ IsRange(r.validator)
  /\ Seeds \subseteq Nat
  /\ {ElectionInterval, MaxRotatedClusters, HeightStep, ReadTimeout, MaxHeight, MaxTime} \subseteq Nat

RoleOf(g) == IF g \in Auditor THEN "auditor" ELSE "validator"

\* The association of groups: validator groups are dealt out in equal shares.
AuditorOf(v) == (v - AuditorCount - 1) \div (ValidatorCount \div AuditorCount) + 1
Associated(a) == {v \in Validator : AuditorOf(v) = a}
Cluster(a) == {a} \cup Associated(a)

VARIABLES
  pools,     \* REC's standby pool: what it lists at each height, from 0
  read,      \* ZEC's standby pool contract: height last read, and when
  sizes,     \* the sizes of groups in force
  groups,    \* the current groups: members, version, timestamp and, for
             \*   validators, associated_group_version
  executed,  \* XPROPERTY_CONTRACT_ELECTION_EXECUTED_KEY: genesis_elected
  time,      \* TIME()
  pc,        \* what a call under way does next; "idle" if there is none
  args,      \* its election_timestamp and the standbys it has read
  due,       \* the clusters it has still to look at
  todo,      \* the validator groups of the current cluster still to be elected
  rotated,   \* how many clusters it has rotated (auditor_rotation_num)
  success,   \* whether the current cluster has elected a group
  mem,       \* its copy of the groups, all_cluster_election_result_store
  written    \* its changes to the contract's properties

callVars == <<pc, args, due, todo, rotated, success, mem, written>>
vars == <<pools, read, sizes, groups, executed, time, callVars>>

\* A group without version has never been elected.
NoGroup == [members |-> {}, version |-> -1, timestamp |-> 0, associated_version |-> -1]

-----------------------------------------------------------------------------
(***************************************************************************)
(* The environment: REC's standby pool and the governance.                 *)
(***************************************************************************)
PoolChanges ==
  /\ pc = "idle"
  /\ Len(pools) <= MaxHeight
  /\ \E p \in Pools : p # pools[Len(pools)] /\ pools' = Append(pools, p)
  /\ UNCHANGED <<read, sizes, groups, executed, time, callVars>>

SetSizes ==
  /\ pc = "idle"
  /\ \E r \in Ranges : r # sizes /\ sizes' = r
  /\ UNCHANGED <<pools, read, groups, executed, time, callVars>>

Tick ==
  /\ pc = "idle"
  /\ time < MaxTime
  /\ time' = time + 1
  /\ UNCHANGED <<pools, read, sizes, groups, executed, callVars>>

(***************************************************************************)
(* ZEC's standby pool: on_timer moves the height it reads at by a fixed    *)
(* step, so that all nodes of ZEC agree on it, or to the latest height if  *)
(* fewer blocks than that have come for too long.  The time at is that of  *)
(* the timer, which lies behind if the call comes late; then the unsigned  *)
(* difference of times exceeds any timeout.                                *)
(***************************************************************************)
latest_height == Len(pools) - 1

TimedOut(at) == at < read.time \/ at - read.time > ReadTimeout

\* slip: when it has waited for too long it takes the step all the same
NextReadBeyond(at) ==
  IF latest_height = read.height THEN [read EXCEPT !.time = at]
  ELSE IF latest_height - read.height >= HeightStep \/ TimedOut(at)
    THEN [height |-> read.height + HeightStep, time |-> at]
  ELSE read

NextRead(at) ==
  IF latest_height = read.height THEN [read EXCEPT !.time = at]
  ELSE IF latest_height - read.height >= HeightStep
    THEN [height |-> read.height + HeightStep, time |-> at]
  ELSE IF TimedOut(at) THEN [height |-> latest_height, time |-> at]
  ELSE read

\* A block of REC's that this node has not got leaves everything as it was.
standby_on_timer(at) ==
  /\ pc = "idle"
  /\ read' \in {NextRead(at), read}
  /\ UNCHANGED <<pools, sizes, groups, executed, time, callVars>>

-----------------------------------------------------------------------------
(***************************************************************************)
(* The start of an election.                                               *)
(***************************************************************************)
\* The differences between times are unsigned: a call that comes late, with a
\* timestamp before the last election of the group, finds it long overdue.
LongAgo(at, then, interval) == at < then \/ at - then >= interval

\* Every group's interval varies with the seed.  (int offset = seed % range - range / 2)
rotation_time(a, seed) ==
  LET wave == AuditorCount + ValidatorCount + a - 1
  IN  ElectionInterval + (seed % wave) - (wave \div 2)

rotation_flag(a, at, seed) ==
  \/ groups[a].members = {}
  \/ LongAgo(at, groups[a].timestamp, rotation_time(a, seed))

\* Nodes retry the call of a timer for half an interval.
on_timer(at, seed) ==
  /\ pc = "idle"
  /\ at + ElectionInterval \div 2 > time
  /\ args' = [timestamp |-> at, standbys |-> pools[read.height + 1]]
  /\ due' = {a \in Auditor : rotation_flag(a, at, seed)}
  /\ mem' = groups
  /\ written' = groups
  /\ rotated' = 0
  /\ pc' = "next"
  /\ UNCHANGED <<pools, read, sizes, groups, executed, time, todo, success>>

-----------------------------------------------------------------------------
(***************************************************************************)
(* The election of a cluster.                                              *)
(***************************************************************************)
Current == Min(due)

\* elect_group dates the group and counts up its version before it knows
\* whether the election succeeds.
Dated(g) == [g EXCEPT !.version = @ + 1, !.timestamp = args.timestamp]

\* Group g is elected from the standbys given, or fails to be; sofar: whether
\* the cluster has elected a group before.
Elect(g, standbys, sofar) ==
  LET outcomes == elect_group(TRUE, mem[g].members, standbys, sizes[RoleOf(g)])
  IN  IF outcomes = {}
        THEN /\ mem' = [mem EXCEPT ![g] = Dated(@)]
             /\ success' = sofar
        ELSE /\ \E members \in outcomes :
                  mem' = [mem EXCEPT ![g] = [Dated(@) EXCEPT !.members = members]]
             /\ success' = TRUE

Members(gs) == UNION {mem[g].members : g \in gs}

AuditorStandbys(a) ==
  args.standbys.auditor \ (Members(Associated(a)) \cup Members(Auditor \ {a}))

ValidatorStandbys(v) ==
  args.standbys.validator \ (Members({AuditorOf(v)}) \cup Members(Validator \ {v}))

\* auditor_rotation_num is compared before every cluster; the genesis
\* election takes them all.
\* slip: the clusters rotated before are compared, this one is not counted
RotationsLeftOver == rotated <= IF executed THEN MaxRotatedClusters ELSE AuditorCount

RotationsLeft == rotated < IF executed THEN MaxRotatedClusters ELSE AuditorCount

elect_auditor ==
  /\ pc = "next"
  /\ due # {} /\ RotationsLeft
  /\ Elect(Current, AuditorStandbys(Current), FALSE)
  /\ todo' = Associated(Current)
  /\ pc' = "validators"
  /\ UNCHANGED <<pools, read, sizes, groups, executed, time, args, due, rotated, written>>

elect_validator ==
  /\ pc = "validators"
  /\ todo # {}
  /\ LET v == Min(todo)
     IN  /\ todo' = todo \ {v}
         /\ Elect(v, ValidatorStandbys(v), success)
  /\ UNCHANGED <<pools, read, sizes, groups, executed, time, pc, args, due, rotated, written>>

\* The groups of a cluster are in one store, which is written if one of them
\* was elected.
WriteCluster(a) ==
  written' = [g \in Group |->
                IF g = a THEN mem[g]
                ELSE IF g \in Associated(a)
                  THEN [mem[g] EXCEPT !.associated_version = mem[a].version]
                ELSE written[g]]

end_cluster ==
  /\ pc = "validators"
  /\ todo = {}
  /\ IF success THEN WriteCluster(Current) /\ rotated' = rotated + 1
                ELSE UNCHANGED <<written, rotated>>
  /\ due' = due \ {Current}
  /\ pc' = "next"
  /\ UNCHANGED <<pools, read, sizes, groups, executed, time, args, todo, success, mem>>

(***************************************************************************)
(* The end of an election.  The genesis election throws if a group has     *)
(* remained empty, and will be called again.                               *)
(***************************************************************************)
AllElected == \A g \in Group : mem[g].members # {}

Commit ==
  IF executed \/ AllElected
    THEN groups' = written /\ executed' = TRUE
    ELSE UNCHANGED <<groups, executed>>

Nothing == [timestamp |-> 0, standbys |-> [auditor |-> {}, validator |-> {}]]

end_call ==
  /\ pc = "next"
  /\ due = {} \/ ~ RotationsLeft
  /\ Commit
  /\ pc' = "idle" /\ args' = Nothing /\ due' = {} /\ todo' = {} /\ rotated' = 0
  /\ success' = FALSE
  /\ mem' = groups' /\ written' = groups'
  /\ UNCHANGED <<pools, read, sizes, time>>

-----------------------------------------------------------------------------
Init ==
  /\ pools = <<SeedPool>>
  /\ read = [height |-> 0, time |-> 0]
  /\ sizes \in Ranges
  /\ groups = [g \in Group |-> NoGroup]
  /\ executed = FALSE
  /\ time = 1
  /\ pc = "idle" /\ args = Nothing /\ due = {} /\ todo = {} /\ rotated = 0
  /\ success = FALSE
  /\ mem = groups /\ written = groups

Next ==
  \/ PoolChanges
  \/ SetSizes
  \/ Tick
  \/ \E at \in 0 .. time : standby_on_timer(at)
  \/ \E at \in 0 .. time, seed \in Seeds : on_timer(at, seed)
  \/ elect_auditor
  \/ elect_validator
  \/ end_cluster
  \/ end_call

Spec == Init /\ [][Next]_vars

-----------------------------------------------------------------------------
(***************************************************************************)
(* Properties                                                              *)
(***************************************************************************)
IsGroup(g) ==
  /\ DOMAIN g = DOMAIN NoGroup
  /\ g.members \subseteq Node
  /\ g.version \in Nat \cup {-1} /\ g.associated_version \in Nat \cup {-1}
  /\ g.timestamp \in Nat

TypeOK ==
  /\ Len(pools) >= 1 /\ \A i \in DOMAIN pools : pools[i] \in Pools
  /\ read.height \in 0 .. latest_height /\ read.time \in 0 .. time
  /\ sizes \in Ranges
  /\ executed \in BOOLEAN /\ success \in BOOLEAN /\ time \in Nat
  /\ pc \in {"idle", "next", "validators"}
  /\ due \subseteq Auditor /\ todo \subseteq Validator /\ rotated \in Nat
  /\ \A s \in {groups, mem, written} : DOMAIN s = Group /\ \A g \in Group : IsGroup(s[g])
  /\ args.timestamp \in 0 .. time
  /\ args.standbys.auditor \subseteq Node /\ args.standbys.validator \subseteq Node

(***************************************************************************)
(* The rules of xelection/README.md: no node is in two groups of auditors, *)
(* in two groups of validators, or in a group of auditors and a group of   *)
(* validators associated with it, although every group is elected from     *)
(* standbys that were filtered by groups some of which are elected later.  *)
(***************************************************************************)
Apart(store) ==
  /\ \A a, b \in Auditor : a # b => store[a].members \cap store[b].members = {}
  /\ \A v, w \in Validator : v # w => store[v].members \cap store[w].members = {}
  /\ \A v \in Validator : store[v].members \cap store[AuditorOf(v)].members = {}

ClustersApart == Apart(groups)

(***************************************************************************)
(* The genesis election elects all groups or none, whichever group of      *)
(* whichever cluster fails, and no group is ever empty after it.           *)
(***************************************************************************)
GenesisWhole ==
  \A g \in Group : IF executed THEN groups[g].members # {} ELSE groups[g] = NoGroup

(***************************************************************************)
(* The groups of a cluster move together: validators name the version      *)
(* their auditors have now and are dated with the same election, even if   *)
(* the election of some of the groups failed.                              *)
(***************************************************************************)
ClusterMovesTogether ==
  \A v \in Validator :
    /\ groups[v].timestamp = groups[AuditorOf(v)].timestamp
    /\ groups[v].associated_version = groups[AuditorOf(v)].version

(***************************************************************************)
(* The numbers of members to enter and to leave are sound in every         *)
(* election that may be about to happen (see CountsSound).                 *)
(***************************************************************************)
ElectionsSound ==
  /\ pc = "next" /\ due # {} =>
       CountsSound(TRUE, mem[Current].members, AuditorStandbys(Current), sizes.auditor)
  /\ pc = "validators" /\ todo # {} =>
       LET v == Min(todo)
       IN  CountsSound(TRUE, mem[v].members, ValidatorStandbys(v), sizes.validator)

(***************************************************************************)
(* What a call does to a group: it stays as it is, or is rotated within    *)
(* the limits that RotationSound states.                                   *)
(***************************************************************************)
RotationBounded ==
  [][\A g \in Group :
       groups'[g].members # groups[g].members =>
         RotationSound(groups[g].members, groups'[g].members, sizes[RoleOf(g)])]_vars

(***************************************************************************)
(* Seen from outside a call is one election of whole clusters, as module   *)
(* ClusterElections promises, or nothing at all; whichever of its groups   *)
(* cannot be elected, and however many clusters are due.                   *)
(***************************************************************************)
Promised == INSTANCE ClusterElections WITH
  Leader <- [v \in Validator |-> AuditorOf(v)], MaxRotated <- MaxRotatedClusters

CallsElectClusters == Promised!Spec
=============================================================================
