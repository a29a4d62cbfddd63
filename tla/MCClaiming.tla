----------------------------- MODULE MCClaiming -----------------------------
(***************************************************************************)
(* An instance of Claiming for TLC: two nodes and two voters of a table,   *)
(* tokens of four fractions.                                               *)
(***************************************************************************)
EXTENDS Claiming

MCTableOf == [a \in {1, 2, 11, 12} |-> "t1"]

One(n, x) == [k \in {n} |-> x]
Two(x, y) == [n \in {1, 2} |-> IF n = 1 THEN x ELSE y]

\* One voter changes between the first node and both.
MCVotesHeld == [v \in Voter |-> IF v = 11 THEN {One(1, 1), Two(2, 1)} ELSE {One(1, 1)}]

Given(nodes, dividends, community) ==
  [nodes |-> nodes, dividends |-> dividends, community |-> community]

\* A round with a node's reward, dividends of both nodes, and a share of the
\* community; and one with a dividend only.
MCGivenRewards ==
  { Given([t \in {"t1"} |-> One(2, 6)], [t \in {"t1"} |-> Two(5, 3)], 9),
    Given([t \in {} |-> One(1, 0)], [t \in {"t1"} |-> One(1, 7)], 3) }

\* Old records: the nodes' have been claimed before, down to two fractions.
Record(x, paid) == [accumulated |-> x + paid * Precision, unclaimed |-> x]
VoterRecord(x) == [accumulated |-> x, unclaimed |-> x, parts |-> One(1, Record(x, 0))]

MCOldNodeRecords == { [n \in Node |-> Record(2, n - 1)] }
MCOldVoterRecords == { [v \in Voter |-> VoterRecord(IF v = 11 THEN 3 ELSE 0)] }
=============================================================================
