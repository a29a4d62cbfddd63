------------------------------ MODULE Payments ------------------------------
(***************************************************************************)
(* What the reward system promises an account: its entitlement, counted in *)
(* fractions of a token, only grows, and a claim pays out everything whole *)
(* that is due at that moment, so that nothing is ever paid twice.         *)
(***************************************************************************)
EXTENDS Integers

CONSTANTS
  Account,
  Precision   \* fractions to a token

VARIABLES
  entitled,   \* fractions an account has been given so far
  paid        \* tokens it has been paid so far

Init ==
  /\ entitled \in [Account -> Nat]
  /\ paid \in [Account -> Nat]

Grant ==
  /\ DOMAIN entitled' = Account
  /\ \A a \in Account : entitled'[a] \in Nat /\ entitled'[a] >= entitled[a]
  /\ UNCHANGED paid

Pay(a) ==
  /\ paid' = [paid EXCEPT ![a] = entitled[a] \div Precision]
  /\ UNCHANGED entitled

Next == Grant \/ \E a \in Account : Pay(a)

Spec == Init /\ [][Next]_<<entitled, paid>>
=============================================================================
