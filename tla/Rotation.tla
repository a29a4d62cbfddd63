------------------------------ MODULE Rotation ------------------------------
(***************************************************************************)
(* How the members of one group are rotated                                *)
(* (xelect_consensus_group_contract.cpp).  The contracts that elect REC,   *)
(* ZEC and the clusters of auditors and validators all inherit elect_group *)
(* from there.  This module has no variables: an election is the set of    *)
(* groups it may end in, and the empty set if it fails.                    *)
(*                                                                         *)
(* Who enters and who leaves is drawn with weights that depend on stakes;  *)
(* normalize_stake leaves no weight at 0, so anybody may be drawn.         *)
(***************************************************************************)
EXTENDS Integers, FiniteSets, FiniteSetsExt

CONSTANTS
  RotationRatio,   \* election_rotation_count_ratio, in per cent
  MinimumRotation  \* cluster_election_minimum_rotation_ratio, in per cent

ASSUME RatioAssumption == RotationRatio \in 0 .. 100 /\ MinimumRotation \in 0 .. 100

\* xrange_t<xgroup_size_t>: an election with max < min is refused.
IsRange(r) == r.min \in Nat \ {0} /\ r.max \in Nat /\ r.min <= r.max

Smaller(a, b) == IF a <= b THEN a ELSE b

(***************************************************************************)
(* The numbers, from the sizes involved: a group of n members, u of whom   *)
(* leave because they are not in the standby pool, and f standbys that are *)
(* not in the group.  All are unsigned in the code.                        *)
(***************************************************************************)
calculate_rotation_count(n, range) ==
  LET share == (RotationRatio * n) \div 100
  IN  IF n = 0 THEN range.min ELSE IF share <= 1 THEN 1 ELSE share

\* slip: as many as there are standbys
RotationLimitWide(n, f, range) == f

RotationLimit(n, f, range) == Smaller(calculate_rotation_count(n, range), f)

\* So few standbys that members must leave for the group to be rotated at all.
StandbysScarce(n, f) == f <= (n * MinimumRotation + 99) \div 100

ElectInCount(n, u, f, range) ==
  IF n >= range.max THEN RotationLimit(n, f, range)
  ELSE IF n < range.min THEN range.min - n
  ELSE Smaller(RotationLimit(n, f, range), range.max - (n - u))

\* slip: those dismissed do not count
ElectOutUncounted(cluster, n, u, f, range) ==
  IF n >= range.max \/ (n >= range.min /\ cluster /\ StandbysScarce(n, f))
    THEN ElectInCount(n, u, f, range)
    ELSE 0

\* cluster: the group is one of auditors or validators
ElectOutCount(cluster, n, u, f, range) ==
  IF n >= range.max \/ (n >= range.min /\ cluster /\ StandbysScarce(n, f))
    THEN ElectInCount(n, u, f, range) - u
    ELSE 0

-----------------------------------------------------------------------------
(***************************************************************************)
(* The elections.                                                          *)
(***************************************************************************)
\* The members that are asked to leave because they are no standbys any more;
\* when there are more than the limit, the order of the slots decides.
Dismissed(group, pool, limit) ==
  LET gone == group \ pool IN kSubset(Smaller(Cardinality(gone), limit), gone)

do_normal_election(cluster, group, pool, range) ==
  LET n == Cardinality(group)
      fts_standbys == pool \ group
      f == Cardinality(fts_standbys)
      limit == RotationLimit(n, f, range)
      u == Smaller(Cardinality(group \ pool), limit)
  IN  IF f = 0 \/ (n - u) + f < range.min THEN {}
      ELSE UNION { UNION { { ((group \ gone) \ out) \cup in :
                               in \in kSubset(ElectInCount(n, u, f, range), fts_standbys) } :
                           out \in kSubset(ElectOutCount(cluster, n, u, f, range), group \ gone) } :
                   gone \in Dismissed(group, pool, limit) }

do_shrink_election(group, pool, range) ==
  LET shrink_size == Cardinality(group) - range.max
  IN  UNION { { (group \ gone) \ out :
                  out \in kSubset(shrink_size - Cardinality(gone), group \ gone) } :
              gone \in Dismissed(group, pool, shrink_size) }

elect_group(cluster, group, pool, range) ==
  IF pool = {} THEN {}
  ELSE IF Cardinality(group) > range.max THEN do_shrink_election(group, pool, range)
  ELSE do_normal_election(cluster, group, pool, range)

-----------------------------------------------------------------------------
(***************************************************************************)
(* Properties of the numbers and of the elections.                         *)
(***************************************************************************)
\* What the assertions of do_normal_election say of its numbers (lines 449,
\* 489 and 514) and what they leave to unsigned arithmetic: an election that
\* gets there elects somebody in, no more than there are standbys, and the
\* difference of those to leave does not fall below zero.
CountsSound(cluster, group, pool, range) ==
  LET n == Cardinality(group)
      f == Cardinality(pool \ group)
      u == Smaller(Cardinality(group \ pool), RotationLimit(n, f, range))
      in == ElectInCount(n, u, f, range)
      out == ElectOutCount(cluster, n, u, f, range)
  IN  (f # 0 /\ n <= range.max /\ (n - u) + f >= range.min)
        => in \in 1 .. f /\ out \in 0 .. n - u

\* What an election may do to a group: it replaces no more than the rotation
\* count, or those above the maximum; it never grows beyond the maximum, and
\* a group within its range does not get smaller.  (A group below the minimum
\* may: the code fills up what was missing before it dismissed members.)
RotationSound(old, new, range) ==
  LET n == Cardinality(old)
      over == n - range.max
  IN  /\ n # 0 => Cardinality(old \ new) <= IF over > 0 THEN over
                                            ELSE calculate_rotation_count(n, range)
      /\ over > 0 => Cardinality(new) = range.max
      /\ over <= 0 => Cardinality(new) \in 1 .. range.max
      /\ n \in range.min .. range.max => Cardinality(new) >= n
      /\ n = 0 => Cardinality(new) = range.min
=============================================================================
