-------------------------- MODULE ClusterElections --------------------------
(***************************************************************************)
(* What the elections of auditors and validators promise.  An election     *)
(* takes certain clusters and changes all groups of these in one step, and *)
(* nothing else: every group is one version further and has the date of    *)
(* the election, validators name the version of their auditors, and some   *)
(* group of the cluster has other members than before.  The first election *)
(* takes all clusters, later ones no more than MaxRotated.  Clusters stay  *)
(* apart.                                                                  *)
(***************************************************************************)
EXTENDS Integers, FiniteSets

CONSTANTS
  Auditor, Validator,  \* the groups
  Leader,              \* [Validator -> the auditors of its cluster]
  MaxRotated

VARIABLES groups, executed

Unelected == [members |-> {}, version |-> -1, timestamp |-> 0, associated_version |-> -1]

ClusterOf(a) == {a} \cup {v \in Validator : Leader[v] = a}

Stays(a) == \A g \in ClusterOf(a) : groups'[g] = groups[g]

Rotates(a, at) ==
  /\ \A g \in ClusterOf(a) : /\ groups'[g].version = groups[g].version + 1
                             /\ groups'[g].timestamp = at
                             /\ g # a => groups'[g].associated_version = groups'[a].version
  /\ \E g \in ClusterOf(a) : groups'[g].members # groups[g].members

Disjoint(g, h) == groups'[g].members \cap groups'[h].members = {}

StayApart ==
  /\ \A a, b \in Auditor : a # b => Disjoint(a, b)
  /\ \A v, w \in Validator : v # w => Disjoint(v, w)
  /\ \A v \in Validator : Disjoint(v, Leader[v])

Elect(S) ==
  /\ IF executed THEN Cardinality(S) <= MaxRotated ELSE S = Auditor
  /\ DOMAIN groups' = Auditor \cup Validator
  /\ \A a \in Auditor \ S : Stays(a)
  /\ \E at \in {groups'[a].timestamp : a \in S} : \A a \in S : Rotates(a, at)
  /\ \A g \in Auditor \cup Validator : groups'[g].members # {}
  /\ StayApart
  /\ executed' = TRUE

Init ==
  /\ groups = [g \in Auditor \cup Validator |-> Unelected]
  /\ executed = FALSE

Next == \E S \in SUBSET Auditor : Elect(S)

Spec == Init /\ [][Next]_<<groups, executed>>
=============================================================================
