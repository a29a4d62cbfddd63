----------------------------- MODULE MCProposal -----------------------------
(***************************************************************************)
(* Instances of Proposal for TLC: a committee of three with one outsider,  *)
(* and the requests submitted in each run.                                 *)
(***************************************************************************)
EXTENDS Proposal

CONSTANTS alice, bob, carol, dave, erin, frank, fee, wl, tcc, ex

MCAddress == {alice, bob, carol, dave}
MCProposer == {alice, dave}
MCUserAddress == {alice, bob, dave}
MCParam == {fee, wl, tcc, ex}
MCBwParam == {wl}

MCGenesis == [q \in {tcc, ex, fee} |-> IF q = tcc THEN {alice, bob, carol} ELSE {bob}]

Ask(type, target, value, amount) ==
  [type |-> type, target |-> target, value |-> value, amount |-> amount]

\* Every type of proposal; one of them replaces the committee, while another
\* proposal may be being voted on.
BookRequests ==
  { Ask("update", tcc, {alice, dave}, 0), Ask("update", fee, {dave}, 0),
    Ask("update_asset", dave, {}, 2), Ask("delete", fee, {}, 0),
    Ask("add", wl, {dave}, 0), Ask("incremental_add", wl, {alice, dave}, 0),
    Ask("incremental_delete", wl, {dave}, 0), Ask("delete", ex, {}, 0) }

\* A committee of six, large enough for an adopted proposal to carry a no.
SixAddress == {alice, bob, carol, dave, erin, frank}
SixGenesis == [q \in {tcc, ex, fee} |-> IF q = tcc THEN SixAddress ELSE {bob}]
SixRequests == { Ask("update", fee, {dave}, 0), Ask("update_asset", dave, {}, 2) }
=============================================================================
