--------------------------- MODULE MCStandbyPool ---------------------------
(***************************************************************************)
(* An instance of StandbyPool for TLC: the pool with one of the election   *)
(* contracts at a time, or the statistics contract of two tables.          *)
(***************************************************************************)
EXTENDS StandbyPool

CONSTANTS v1, v2

MCContract == {"standby", "archive", "rec"}
MCInterval == [c \in MCContract |-> IF c = "archive" THEN 2 ELSE 1]
MCPatience == [c \in {"archive", "rec"} |-> 0]
MCDeployments == {{"standby", "archive"}, {"standby", "rec"}, {Statistic}}

\* The vnodes of two elections: the next may begin before the last one ends.
MCVnode == [d \in MCDeployments |-> IF Statistic \in d THEN {v1, v2} ELSE {v1}]

MCGroups == [c \in {"archive", "rec"} |->
               IF c = "archive" THEN {"archive", "exchange"} ELSE {"rec"}]
MCSizes == [g \in {"archive", "exchange", "rec"} |->
              IF g = "archive" THEN [min |-> 1, max |-> 2]
              ELSE IF g = "exchange" THEN [min |-> 0, max |-> 1]
              ELSE [min |-> 1, max |-> 2]]

\* A node that can be in all groups, and one in none with too small a deposit.
Able == [roles |-> {"archive", "exchange", "rec"}, enough |-> TRUE]
Unable == [roles |-> {}, enough |-> FALSE]
MCKinds == [n \in {1, 2} |-> IF n = 1 THEN {Able} ELSE {Able, Unable}]
=============================================================================
