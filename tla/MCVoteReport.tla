---------------------------- MODULE MCVoteReport ----------------------------
(***************************************************************************)
(* Instances of VoteReport for TLC.                                        *)
(***************************************************************************)
EXTENDS VoteReport

CONSTANTS t1, t2, v1, v2, v3

\* One table with one voter: reports in two batches, the second incomplete.
OneVoterOf == [v \in {v1} |-> t1]

\* One table with two voters.
OneTableOf == [v \in {v1, v2} |-> t1]

\* Two voters of one table, one of another: totals over the voters of a table,
\* and the vote amount of a node over the tables.
TwoTablesOf == [v \in {v1, v2, v3} |-> IF v = v3 THEN t2 ELSE t1]

\* The set of registered nodes that makes the network active.
OneActive == {{1}}
BothActive == {{1, 2}}
AllActive == {{1, 2, 3}}
=============================================================================
