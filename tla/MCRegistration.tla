--------------------------- MODULE MCRegistration ---------------------------
(***************************************************************************)
(* An instance of Registration for TLC: one account and two miner types,   *)
(* the second with the larger deposit.                                     *)
(***************************************************************************)
EXTENDS Registration

CONSTANTS a, edge, advance

MCMinDeposit == [k \in {edge, advance} |-> IF k = edge THEN 1 ELSE 2]
=============================================================================
