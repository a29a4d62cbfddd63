---------------------------- MODULE MCElections ----------------------------
(***************************************************************************)
(* An instance of Elections for TLC: two clusters of one group of auditors *)
(* and one of validators.                                                  *)
(***************************************************************************)
EXTENDS Elections

CONSTANTS n1, n2, n3, n4, n5

MCNode == {n1, n2, n3, n4, n5}

Listed(as, vs) == [auditor |-> as, validator |-> vs]

\* Enough nodes for two clusters, though some must be an auditor in one and a
\* validator in the other; or so few that members have to leave.
MCSeedPool == Listed({n1, n2, n3, n4}, {n1, n2, n3})
MCPools == {MCSeedPool, Listed({n2, n5}, {n3})}

Sizes(a, b) == [min |-> a, max |-> b]
MCRanges == { [auditor |-> Sizes(1, 2), validator |-> Sizes(1, 1)],
              [auditor |-> Sizes(1, 1), validator |-> Sizes(2, 2)] }
=============================================================================
