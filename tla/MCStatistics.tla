---------------------------- MODULE MCStatistics ----------------------------
(***************************************************************************)
(* Instances of Statistics for TLC.                                        *)
(***************************************************************************)
EXTENDS Statistics

CONSTANTS t1, t2, n1, n2

BagOf(n, x) == [y \in {x} |-> n]
Two(a, b) == BagOf(a, <<"auditor", n1>>) (+) BagOf(b, <<"auditor", n2>>)
Idle == [block_count |-> EmptyBag, subset_count |-> EmptyBag]

Work(n) == BagOf(n, <<"auditor", n1>>)

\* A block of two auditors, one of which signed only half of what it was asked
\* to, with a change of the pledged TGAS and no work; and one with both, of a
\* node that is a validator as well and did not sign as such.
MCContents ==
  { [info |-> [block_count |-> Two(1, 2), subset_count |-> Two(2, 2)],
     work |-> EmptyBag, tgas |-> -1],
    [info |-> [block_count |-> BagOf(2, <<"auditor", n1>>),
               subset_count |-> BagOf(2, <<"auditor", n1>>) (+) BagOf(1, <<"validator", n1>>)],
     work |-> Work(2), tgas |-> 3] }

LateContents == { [info |-> Idle, work |-> Work(1), tgas |-> 0] }
=============================================================================
