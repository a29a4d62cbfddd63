------------------------------ MODULE MCReward ------------------------------
(***************************************************************************)
(* An instance of Reward for TLC: three nodes, two tables, years of four   *)
(* clocks.  The first year issues half of the reserve, the second one the  *)
(* minimum.                                                                *)
(***************************************************************************)
EXTENDS Reward

MCTableOf == [n \in {1, 2, 3} |-> IF n = 3 THEN "t2" ELSE "t1"]

NodeWith(roles, deposit, ratio) == [roles |-> roles, deposit |-> deposit, ratio |-> ratio]

\* Everyone valid; or nobody for edge and archive, and a validator that has
\* lost its deposit.
MCRegistries ==
  { [n \in 1 .. 3 |-> CASE n = 1 -> NodeWith({"auditor", "validator"}, 2, 40)
                        [] n = 2 -> NodeWith({"edge", "archive", "auditor"}, 1, 100)
                        [] n = 3 -> NodeWith({"edge", "validator"}, 1, 0)],
    [n \in {1, 3} |-> IF n = 1 THEN NodeWith({"auditor"}, 1, 0) ELSE NodeWith({"validator"}, 0, 10)] }

Tally(a, b) == [n \in {1, 2} |-> IF n = 1 THEN a ELSE b]

\* Votes from both tables, enough for both auditors or for the first one only.
MCTicketSets ==
  { [t \in Table |-> IF t = "t1" THEN Tally(1, 2) ELSE Tally(2, 1)],
    [t \in Table |-> IF t = "t1" THEN [n \in {1} |-> 2] ELSE << >>] }

\* A group of auditors and two of validators, one below the zero workload.
MCWorkloads ==
  { [auditor |-> [g \in {"a1"} |-> [n \in {1, 2} |-> n + 1]],
     validator |-> [g \in {"v1", "v2"} |-> IF g = "v1" THEN [n \in {1, 3} |-> 2]
                                                      ELSE [n \in {3} |-> 1]]] }

MCRatio == [edge |-> 20, archive |-> 10, auditor |-> 10, validator |-> 30, vote |-> 20, governance |-> 10]
MCZeroWorkload == [auditor |-> 2, validator |-> 1]
=============================================================================
