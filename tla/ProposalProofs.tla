--------------------------- MODULE ProposalProofs ---------------------------
(***************************************************************************)
(* Proofs about the governance contract, for every set of addresses,       *)
(* parameters and requests and every bound.                                *)
(*                                                                         *)
(* The invariant is stated once over the three maps and the id counter,    *)
(* Books(n, P, V, R), so that the sweep that ends every handler can be     *)
(* treated by one lemma: a handler builds intermediate maps that satisfy   *)
(* Books and the sweep preserves it.                                       *)
(***************************************************************************)
EXTENDS Proposal, FiniteSetTheorems, TLAPS

\* n ids given out, proposals P, ballots V, refunds R: the maps are well typed
\* and agree with each other.
Books(n, P, V, R) ==
  /\ n \in Nat
  /\ P \in [DOMAIN P -> ProposalInfo]
  /\ DOMAIN P \subseteq 1 .. n
  /\ V \in [DOMAIN V -> Ballots]
  /\ DOMAIN V \subseteq DOMAIN P
  /\ R \in [1 .. n -> Nat]
  /\ \A id \in DOMAIN V : Voted(V[id]) # {} /\ V[id].yes \cap V[id].no = {}
  /\ \A id \in DOMAIN P :
       P[id].voting_status = IF id \in DOMAIN V THEN "in_progress" ELSE "none"
  /\ \A id \in 1 .. n : R[id] = IF id \in DOMAIN P THEN 0 ELSE 1
  /\ \A id \in DOMAIN P : P[id].type = "update_asset" \/ P[id].target \in Param

\* The rest of the inductive invariant.
Rest ==
  /\ params \in [DOMAIN params -> Value]
  /\ DOMAIN params \subseteq Param
  /\ grants \in [1 .. last_id -> Nat]
  /\ current_voted_proposal \in ProposalInfo \cup {NoProposal}
  /\ committee \in Value
  /\ time \in Nat
  /\ GrantOnlyWhenSettled
  /\ CurrentVotedIsInForce

IInv == Books(last_id, proposals, votes, refunds) /\ Rest

\* Ending a set of live proposals and refunding each once keeps the books.
LEMMA SettleKeepsBooks ==
  ASSUME NEW n, NEW P, NEW V, NEW R, Books(n, P, V, R),
         NEW S \in SUBSET DOMAIN P
  PROVE  Books(n, Without(P, S), Without(V, S), Refunded(R, S))
<1> DEFINE P2 == Without(P, S)
           V2 == Without(V, S)
           R2 == Refunded(R, S)
<1>1. /\ DOMAIN P2 = DOMAIN P \ S
      /\ \A id \in DOMAIN P2 : P2[id] = P[id]
  BY DEF Without
<1>2. /\ DOMAIN V2 = DOMAIN V \ S
      /\ \A id \in DOMAIN V2 : V2[id] = V[id]
  BY DEF Without
<1>3. /\ DOMAIN R2 = 1 .. n
      /\ \A id \in 1 .. n : R2[id] = IF id \in S THEN R[id] + 1 ELSE R[id]
  BY DEF Refunded, Books
<1>4. P2 \in [DOMAIN P2 -> ProposalInfo]
  BY <1>1 DEF Books, Without
<1>5. V2 \in [DOMAIN V2 -> Ballots]
  BY <1>2 DEF Books, Without
<1>6. R2 \in [1 .. n -> Nat]
  BY DEF Books, Refunded
<1>7. \A id \in 1 .. n : R2[id] = IF id \in DOMAIN P2 THEN 0 ELSE 1
  BY <1>1, <1>3 DEF Books
<1>8. \A id \in DOMAIN P2 :
        P2[id].voting_status = IF id \in DOMAIN V2 THEN "in_progress" ELSE "none"
  BY <1>1, <1>2 DEF Books
<1> HIDE DEF P2, V2, R2
<1>9. Books(n, P2, V2, R2)
  BY <1>1, <1>2, <1>4, <1>5, <1>6, <1>7, <1>8 DEF Books
<1> QED BY <1>9 DEF P2, V2, R2

\* A new proposal under the next id keeps the books.
LEMMA OpenKeepsBooks ==
  ASSUME NEW n, NEW P, NEW V, NEW R, Books(n, P, V, R),
         NEW info \in ProposalInfo, info.voting_status = "none",
         info.type = "update_asset" \/ info.target \in Param
  PROVE  Books(n + 1, With(P, n + 1, info), V, With(R, n + 1, 0))
<1> DEFINE m == n + 1
           P2 == With(P, m, info)
           R2 == With(R, m, 0)
<1>1. n \in Nat /\ m \in Nat /\ m \notin 1 .. n /\ 1 .. m = (1 .. n) \cup {m}
  BY DEF Books
<1> HIDE DEF m
<1>2. /\ DOMAIN P2 = DOMAIN P \cup {m}
      /\ P2[m] = info
      /\ \A id \in DOMAIN P : P2[id] = P[id]
  BY <1>1 DEF With, Books
<1>3. /\ DOMAIN R2 = 1 .. m
      /\ R2[m] = 0
      /\ \A id \in 1 .. n : R2[id] = R[id]
  BY <1>1 DEF With, Books
<1>4. P2 \in [DOMAIN P2 -> ProposalInfo]
  BY DEF Books, With
<1>5. R2 \in [1 .. m -> Nat]
  BY <1>1 DEF Books, With
<1> HIDE DEF P2, R2
<1>6. \A id \in 1 .. m : R2[id] = IF id \in DOMAIN P2 THEN 0 ELSE 1
  BY <1>1, <1>2, <1>3 DEF Books
<1>7. \A id \in DOMAIN P2 :
        P2[id].voting_status = IF id \in DOMAIN V THEN "in_progress" ELSE "none"
  BY <1>1, <1>2 DEF Books
<1>8. Books(m, P2, V, R2)
  BY <1>1, <1>2, <1>4, <1>5, <1>6, <1>7 DEF Books
<1> QED BY <1>8 DEF m, P2, R2

\* Recording a member's ballot on a live proposal keeps the books.
LEMMA KeepOpenKeepsBooks ==
  ASSUME NEW n, NEW P, NEW V, NEW R, Books(n, P, V, R),
         NEW id \in DOMAIN P, NEW b \in Ballots,
         Voted(b) # {}, b.yes \cap b.no = {}
  PROVE  Books(n, [P EXCEPT ![id].voting_status = "in_progress"], With(V, id, b), R)
<1> DEFINE P2 == [P EXCEPT ![id].voting_status = "in_progress"]
           V2 == With(V, id, b)
<1>0. P[id] \in ProposalInfo
  BY DEF Books
<1>a. /\ [P[id] EXCEPT !.voting_status = "in_progress"] \in ProposalInfo
      /\ [P[id] EXCEPT !.voting_status = "in_progress"].voting_status = "in_progress"
      /\ [P[id] EXCEPT !.voting_status = "in_progress"].type = P[id].type
      /\ [P[id] EXCEPT !.voting_status = "in_progress"].target = P[id].target
  BY <1>0 DEF ProposalInfo
<1>b. P2 = [i \in DOMAIN P |-> IF i = id
                                THEN [P[id] EXCEPT !.voting_status = "in_progress"]
                                ELSE P[i]]
  BY DEF Books
<1>1. /\ DOMAIN P2 = DOMAIN P
      /\ \A i \in DOMAIN P : P2[i].voting_status =
             IF i = id THEN "in_progress" ELSE P[i].voting_status
      /\ \A i \in DOMAIN P : P2[i].type = P[i].type /\ P2[i].target = P[i].target
      /\ P2 \in [DOMAIN P2 -> ProposalInfo]
  BY <1>a, <1>b DEF Books
<1>2. /\ DOMAIN V2 = DOMAIN V \cup {id}
      /\ \A i \in DOMAIN V2 : V2[i] = IF i = id THEN b ELSE V[i]
      /\ V2 \in [DOMAIN V2 -> Ballots]
  BY DEF Books, With
<1> HIDE DEF P2, V2
<1>3. Books(n, P2, V2, R)
  BY <1>1, <1>2 DEF Books
<1> QED BY <1>3 DEF P2, V2

\* The sweep at the end of a handler keeps the books of the maps it is given.
LEMMA SweepKeepsBooks ==
  ASSUME NEW n, NEW P, NEW V, NEW R, Books(n, P, V, R),
         delete_expired_proposal(P, V, R)
  PROVE  /\ Books(n, proposals', votes', refunds')
         /\ DOMAIN proposals' \subseteq DOMAIN P
<1> DEFINE gone == {id \in DOMAIN P : proposal_expired(P[id])}
<1>1. gone \in SUBSET DOMAIN P
  OBVIOUS
<1>2. /\ proposals' = Without(P, gone)
      /\ votes' = Without(V, gone)
      /\ refunds' = Refunded(R, gone)
  BY DEF delete_expired_proposal
<1> HIDE DEF gone
<1>3. Books(n, proposals', votes', refunds')
  BY <1>1, <1>2, SettleKeepsBooks
<1> QED BY <1>2, <1>3 DEF Without
-----------------------------------------------------------------------------
(***************************************************************************)
(* Init and the steps.                                                     *)
(***************************************************************************)
LEMMA InitIInv == Init => IInv
<1> SUFFICES ASSUME Init PROVE IInv
  OBVIOUS
<1>1. Books(last_id, proposals, votes, refunds)
  BY DEF Init, Books
<1>2. Rest
  BY ParamAssumption DEF Init, Rest, GrantOnlyWhenSettled, CurrentVotedIsInForce, NoProposal
<1> QED BY <1>1, <1>2 DEF IInv

\* submitProposal opens a proposal with a new id.
LEMMA SubmitKeeps ==
  ASSUME IInv, NEW src \in Proposer, NEW r \in Requests,
         NEW dep \in Deposits, NEW e \in Durations,
         submitProposal(src, r, dep, e)
  PROVE  IInv'
<1> DEFINE id == last_id + 1
           info == [type |-> r.type, target |-> r.target, value |-> r.value,
                    amount |-> r.amount, deposit |-> dep,
                    proposal_client_address |-> src,
                    end_time |-> time + e, voting_status |-> "none"]
<1>1. r \in Request /\ dep \in Nat /\ e \in Nat /\ src \in Address
  BY RequestAssumption, NumberAssumption, AddressAssumption
<1>2. /\ info \in ProposalInfo
      /\ info.voting_status = "none"
      /\ info.type = "update_asset" \/ info.target \in Param
  BY <1>1, RequestAssumption DEF Request, ProposalInfo, IInv, Rest
<1>3. /\ last_id' = id
      /\ grants' = With(grants, id, 0)
      /\ delete_expired_proposal(With(proposals, id, info), votes, With(refunds, id, 0))
      /\ UNCHANGED <<params, current_voted_proposal, committee, time>>
  BY DEF submitProposal, NextId
<1> HIDE DEF info
<1>4. Books(id, With(proposals, id, info), votes, With(refunds, id, 0))
  BY <1>2, OpenKeepsBooks DEF IInv
<1>5. /\ Books(id, proposals', votes', refunds')
      /\ DOMAIN proposals' \subseteq DOMAIN With(proposals, id, info)
  BY <1>3, <1>4, SweepKeepsBooks
<1>6. last_id \in Nat /\ 1 .. id = (1 .. last_id) \cup {id} /\ id \notin 1 .. last_id
  BY DEF IInv, Books
<1>7. /\ grants' \in [1 .. id -> Nat]
      /\ grants'[id] = 0
      /\ \A i \in 1 .. last_id : grants'[i] = grants[i]
  BY <1>3, <1>6 DEF With, IInv, Rest
<1>8. \A i \in DOMAIN proposals' : i \in DOMAIN proposals \/ i = id
  BY <1>5 DEF With
<1>9. GrantOnlyWhenSettled'
  BY <1>3, <1>6, <1>7, <1>8 DEF GrantOnlyWhenSettled, IInv, Rest
<1>10. Rest'
  BY <1>3, <1>7, <1>9 DEF Rest, IInv, CurrentVotedIsInForce
<1> QED BY <1>3, <1>5, <1>10 DEF IInv

\* The maps after one live proposal is ended and the rest swept.
LEMMA SettleOneKeeps ==
  ASSUME IInv, NEW id \in DOMAIN proposals,
         delete_expired_proposal(Without(proposals, {id}), Without(votes, {id}),
                                 Refunded(refunds, {id}))
  PROVE  /\ Books(last_id, proposals', votes', refunds')
         /\ DOMAIN proposals' \subseteq DOMAIN proposals \ {id}
<1>1. Books(last_id, Without(proposals, {id}), Without(votes, {id}),
            Refunded(refunds, {id}))
  BY SettleKeepsBooks DEF IInv
<1>2. DOMAIN Without(proposals, {id}) = DOMAIN proposals \ {id}
  BY DEF Without
<1> QED BY <1>1, <1>2, SweepKeepsBooks

\* withdrawProposal settles a proposal.
LEMMA WithdrawKeeps ==
  ASSUME IInv, NEW src, NEW id \in 1 .. last_id, withdrawProposal(src, id)
  PROVE  IInv'
<1>1. /\ Books(last_id, proposals', votes', refunds')
      /\ DOMAIN proposals' \subseteq DOMAIN proposals \ {id}
  BY SettleOneKeeps DEF withdrawProposal
<1>2. UNCHANGED <<params, last_id, grants, current_voted_proposal, committee, time>>
  BY DEF withdrawProposal
<1>3. Rest'
  BY <1>1, <1>2 DEF Rest, IInv, GrantOnlyWhenSettled, CurrentVotedIsInForce
<1> QED BY <1>1, <1>2, <1>3 DEF IInv

\* What an adopted proposal leaves in ONCHAIN_PARAMS is well typed.
LEMMA NewParamsType ==
  ASSUME IInv, NEW p \in ProposalInfo, CanApply(p), p.type # "update_asset",
         p.target \in Param
  PROVE  /\ NewParams(p) \in [DOMAIN NewParams(p) -> Value]
         /\ DOMAIN NewParams(p) \subseteq Param
<1>1. /\ params \in [DOMAIN params -> Value]
      /\ DOMAIN params \subseteq Param
      /\ p.value \in Value
      /\ p.type \in ProposalType
  BY DEF IInv, Rest, ProposalInfo
<1>2. CASE p.type \in {"update", "add"}
  <2>1. NewParams(p) = With(params, p.target, p.value)
    BY <1>2 DEF NewParams
  <2> QED BY <1>1, <2>1 DEF With
<1>3. CASE p.type = "delete"
  <2>1. NewParams(p) = Without(params, {p.target})
    BY <1>3 DEF NewParams
  <2> QED BY <1>1, <2>1 DEF Without
<1>4. CASE p.type = "incremental_add"
  <2>1. NewParams(p) = With(params, p.target, params[p.target] \cup p.value)
    BY <1>4 DEF NewParams
  <2>2. params[p.target] \cup p.value \in Value
    BY <1>1, <1>4 DEF CanApply, Value
  <2> QED BY <1>1, <2>1, <2>2 DEF With
<1>5. CASE p.type = "incremental_delete"
  <2>1. NewParams(p) = With(params, p.target, params[p.target] \ p.value)
    BY <1>5 DEF NewParams
  <2>2. params[p.target] \ p.value \in Value
    BY <1>1, <1>5 DEF CanApply, Value
  <2> QED BY <1>1, <2>1, <2>2 DEF With
<1> QED BY <1>1, <1>2, <1>3, <1>4, <1>5 DEF ProposalType
\* Adopting p leaves CURRENT_VOTED_PROPOSAL describing its parameter.
LEMMA AdoptedIsInForce ==
  ASSUME IInv, NEW p \in ProposalInfo, CanApply(p), p.type # "update_asset",
         params' = NewParams(p),
         current_voted_proposal' = [p EXCEPT !.voting_status = "success"]
  PROVE  CurrentVotedIsInForce'
<1> DEFINE c == current_voted_proposal'
<1>1. c.type = p.type /\ c.target = p.target /\ c.value = p.value /\ p.type \in ProposalType
  BY DEF ProposalInfo
<1>2. CASE p.type \in {"update", "add"}
  BY <1>1, <1>2 DEF NewParams, With, CurrentVotedIsInForce
<1>3. CASE p.type = "delete"
  BY <1>1, <1>3 DEF NewParams, Without, CurrentVotedIsInForce
<1>4. CASE p.type = "incremental_add"
  <2>1. params' = With(params, p.target, params[p.target] \cup p.value)
    BY <1>4 DEF NewParams
  <2>2. p.target \in DOMAIN params' /\ params'[p.target] = params[p.target] \cup p.value
    BY <2>1 DEF With
  <2> QED BY <1>1, <1>4, <2>2 DEF CurrentVotedIsInForce
<1>5. CASE p.type = "incremental_delete"
  <2>1. params' = With(params, p.target, params[p.target] \ p.value)
    BY <1>5 DEF NewParams
  <2>2. p.target \in DOMAIN params' /\ params'[p.target] = params[p.target] \ p.value
    BY <2>1 DEF With
  <2> QED BY <1>1, <1>5, <2>2 DEF CurrentVotedIsInForce
<1> QED BY <1>1, <1>2, <1>3, <1>4, <1>5 DEF ProposalType

\* Each of the three conclusions of a vote keeps the invariant.
LEMMA ConcludeKeeps ==
  ASSUME IInv, NEW id \in DOMAIN proposals, NEW status, NEW b \in Ballots,
         status = "in_progress" => Voted(b) # {} /\ b.yes \cap b.no = {},
         Conclude(id, status, b),
         UNCHANGED <<last_id, committee, time>>
  PROVE  IInv'
<1>0. /\ proposals[id] \in ProposalInfo
      /\ id \in 1 .. last_id
      /\ proposals[id].type = "update_asset" \/ proposals[id].target \in Param
  BY DEF IInv, Books
<1>1. CASE status = "success" /\ Adopt(id)
  <2>1. /\ Apply(id, proposals[id])
        /\ delete_expired_proposal(Without(proposals, {id}), Without(votes, {id}),
                                   Refunded(refunds, {id}))
    BY <1>1 DEF Adopt
  <2>2. /\ Books(last_id, proposals', votes', refunds')
        /\ DOMAIN proposals' \subseteq DOMAIN proposals \ {id}
    BY <2>1, SettleOneKeeps
  <2>3. CASE proposals[id].type = "update_asset"
    <3>1. /\ grants' = [grants EXCEPT ![id] = @ + proposals[id].amount]
          /\ UNCHANGED <<params, current_voted_proposal>>
      BY <2>1, <2>3 DEF Apply
    <3>2. grants' \in [1 .. last_id -> Nat]
      BY <1>0, <3>1 DEF IInv, Rest, ProposalInfo
    <3>3. GrantOnlyWhenSettled'
      BY <1>0, <2>2, <3>1 DEF GrantOnlyWhenSettled, IInv, Rest
    <3> QED BY <2>2, <3>1, <3>2, <3>3 DEF IInv, Rest, CurrentVotedIsInForce
  <2>4. CASE proposals[id].type # "update_asset"
    <3>1. /\ CanApply(proposals[id])
          /\ params' = NewParams(proposals[id])
          /\ current_voted_proposal' = [proposals[id] EXCEPT !.voting_status = "success"]
          /\ UNCHANGED grants
      BY <2>1, <2>4 DEF Apply
    <3>2. CurrentVotedIsInForce'
      BY <1>0, <2>4, <3>1, AdoptedIsInForce
    <3>3. /\ params' \in [DOMAIN params' -> Value]
          /\ DOMAIN params' \subseteq Param
      BY <1>0, <2>4, <3>1, NewParamsType
    <3>4. current_voted_proposal' \in ProposalInfo
      BY <1>0, <3>1 DEF ProposalInfo
    <3>5. GrantOnlyWhenSettled'
      BY <2>2, <3>1 DEF GrantOnlyWhenSettled, IInv, Rest
    <3> QED BY <2>2, <3>1, <3>2, <3>3, <3>4, <3>5 DEF IInv, Rest
  <2> QED BY <2>3, <2>4
<1>2. CASE status = "failure" /\ Reject(id)
  <2>1. /\ UNCHANGED <<params, grants, current_voted_proposal>>
        /\ delete_expired_proposal(Without(proposals, {id}), Without(votes, {id}),
                                   Refunded(refunds, {id}))
    BY <1>2 DEF Reject
  <2>2. /\ Books(last_id, proposals', votes', refunds')
        /\ DOMAIN proposals' \subseteq DOMAIN proposals \ {id}
    BY <2>1, SettleOneKeeps
  <2> QED BY <2>1, <2>2 DEF IInv, Rest, GrantOnlyWhenSettled, CurrentVotedIsInForce
<1>3. CASE status = "in_progress" /\ KeepOpen(id, b)
  <2> DEFINE P2 == [proposals EXCEPT ![id].voting_status = "in_progress"]
             V2 == With(votes, id, b)
  <2>1. /\ UNCHANGED <<params, grants, current_voted_proposal>>
        /\ delete_expired_proposal(P2, V2, refunds)
    BY <1>3 DEF KeepOpen
  <2>2. Books(last_id, P2, V2, refunds)
    BY <1>3, KeepOpenKeepsBooks DEF IInv
  <2>3. DOMAIN P2 = DOMAIN proposals
    OBVIOUS
  <2> HIDE DEF P2, V2
  <2>4. /\ Books(last_id, proposals', votes', refunds')
        /\ DOMAIN proposals' \subseteq DOMAIN proposals
    BY <2>1, <2>2, <2>3, SweepKeepsBooks
  <2> QED BY <2>1, <2>4 DEF IInv, Rest, GrantOnlyWhenSettled, CurrentVotedIsInForce
<1> QED BY <1>1, <1>2, <1>3 DEF Conclude

\* The ballots read from VOTE_MAP are well formed, and stay so after a vote.
LEMMA CastKeepsBallots ==
  ASSUME IInv, NEW id \in DOMAIN proposals, NEW src \in Address, NEW option \in BOOLEAN,
         src \notin Voted(BallotsOf(id))
  PROVE  LET b == Cast(BallotsOf(id), src, option)
         IN  b \in Ballots /\ Voted(b) # {} /\ b.yes \cap b.no = {}
<1>1. BallotsOf(id) \in Ballots /\ BallotsOf(id).yes \cap BallotsOf(id).no = {}
  BY DEF BallotsOf, NoBallots, Ballots, Value, IInv, Books
<1>2. CASE option
  BY <1>1, <1>2 DEF Cast, Voted, Ballots, Value
<1>3. CASE ~option
  BY <1>1, <1>3 DEF Cast, Voted, Ballots, Value
<1> QED BY <1>2, <1>3

\* tccVote keeps a proposal open or settles it.
LEMMA VoteKeeps ==
  ASSUME IInv, NEW src \in Address, NEW id \in 1 .. last_id, NEW option \in BOOLEAN,
         tccVote(src, id, option)
  PROVE  IInv'
<1>1. id \in DOMAIN proposals /\ UNCHANGED <<last_id, committee, time>>
  BY DEF tccVote
<1>2. CASE proposal_expired(proposals[id])
  <2>1. Conclude(id, StatusExpired(BallotsOf(id)), BallotsOf(id))
    BY <1>2 DEF tccVote
  <2>2. StatusExpired(BallotsOf(id)) # "in_progress"
    BY DEF StatusExpired
  <2>3. BallotsOf(id) \in Ballots
    BY <1>1 DEF BallotsOf, NoBallots, Ballots, Value, IInv, Books
  <2> QED BY <1>1, <2>1, <2>2, <2>3, ConcludeKeeps
<1>3. CASE ~proposal_expired(proposals[id])
  <2> DEFINE b == Cast(BallotsOf(id), src, option)
  <2>1. src \notin Voted(BallotsOf(id)) /\ Conclude(id, StatusInTime(b), b)
    BY <1>3 DEF tccVote
  <2>2. b \in Ballots /\ Voted(b) # {} /\ b.yes \cap b.no = {}
    BY <1>1, <2>1, CastKeepsBallots
  <2> HIDE DEF b
  <2> QED BY <1>1, <2>1, <2>2, ConcludeKeeps
<1> QED BY <1>2, <1>3

\* Every step keeps the inductive invariant.
LEMMA NextKeepsIInv == IInv /\ [Next]_vars => IInv'
<1> SUFFICES ASSUME IInv, [Next]_vars PROVE IInv'
  OBVIOUS
<1>1. CASE Submit
  BY <1>1, SubmitKeeps DEF Submit
<1>2. CASE Withdraw
  BY <1>2, WithdrawKeeps DEF Withdraw
<1>3. CASE Vote
  BY <1>3, VoteKeeps DEF Vote
<1>4. CASE LoadConfig
  BY <1>4 DEF LoadConfig, IInv, Books, Rest, GrantOnlyWhenSettled, CurrentVotedIsInForce
<1>5. CASE Tick
  BY <1>5 DEF Tick, IInv, Books, Rest, GrantOnlyWhenSettled, CurrentVotedIsInForce
<1>6. CASE UNCHANGED vars
  BY <1>6 DEF vars, IInv, Books, Rest, GrantOnlyWhenSettled, CurrentVotedIsInForce
<1> QED BY <1>1, <1>2, <1>3, <1>4, <1>5, <1>6 DEF Next

\* The inductive invariant holds in every reachable state.
LEMMA IInvInductive == Spec => []IInv
BY InitIInv, NextKeepsIInv, PTL DEF Spec

-----------------------------------------------------------------------------
(***************************************************************************)
(* The maps keep their types in every reachable state of the contract.     *)
(***************************************************************************)
THEOREM TypeCorrect == Spec => []TypeOK
<1>1. IInv => TypeOK
  BY DEF IInv, Books, Rest, TypeOK
<1> QED BY <1>1, IInvInductive, PTL

(***************************************************************************)
(* Ballots belong to live proposals only and a live proposal is never a    *)
(* decided one: tccVote, withdrawProposal and the sweep clean both maps.   *)
(***************************************************************************)
THEOREM BallotsAlwaysMatch == Spec => []BallotsMatchProposals
<1>1. IInv => BallotsMatchProposals
  BY DEF IInv, Books, BallotsMatchProposals
<1> QED BY <1>1, IInvInductive, PTL

(***************************************************************************)
(* Every deposit is held or transferred back exactly once, whatever the    *)
(* number of proposals and however votes, withdrawals and expiries of the  *)
(* proposals interleave.                                                   *)
(***************************************************************************)
THEOREM DepositsAlwaysRefundedOnce == Spec => []DepositRefundedOnce
<1>1. IInv => DepositRefundedOnce
  BY DEF IInv, Books, DepositRefundedOnce
<1> QED BY <1>1, IInvInductive, PTL

(***************************************************************************)
(* update_asset grants come only from settled proposals.                   *)
(***************************************************************************)
THEOREM GrantsAlwaysSettled == Spec => []GrantOnlyWhenSettled
<1>1. IInv => GrantOnlyWhenSettled
  BY DEF IInv, Rest
<1> QED BY <1>1, IInvInductive, PTL

(***************************************************************************)
(* CURRENT_VOTED_PROPOSAL always describes the parameter it last changed.  *)
(***************************************************************************)
THEOREM CurrentVotedAlwaysInForce == Spec => []CurrentVotedIsInForce
<1>1. IInv => CurrentVotedIsInForce
  BY DEF IInv, Rest
<1> QED BY <1>1, IInvInductive, PTL
-----------------------------------------------------------------------------
(***************************************************************************)
(* Action properties.                                                      *)
(***************************************************************************)
\* Whatever maps the sweep is given, what it leaves has not expired.
LEMMA SweepLeavesNoneExpired ==
  ASSUME NEW n, NEW P, NEW V, NEW R, Books(n, P, V, R), time \in Nat,
         delete_expired_proposal(P, V, R)
  PROVE  \A id \in DOMAIN proposals' : proposals'[id].end_time >= time
<1> SUFFICES ASSUME NEW id \in DOMAIN proposals'
             PROVE  proposals'[id].end_time >= time
  OBVIOUS
<1>1. id \in DOMAIN P /\ ~proposal_expired(P[id]) /\ proposals'[id] = P[id]
  BY DEF delete_expired_proposal, Without
<1>2. P[id].end_time \in Nat
  BY <1>1 DEF Books, ProposalInfo
<1> QED BY <1>1, <1>2 DEF proposal_expired

\* One step leaves no expired proposal behind if it touched the maps.
LEMMA StepSweeps ==
  ASSUME IInv, [Next]_vars,
         <<proposals, votes>>' # <<proposals, votes>>
  PROVE  \A id \in DOMAIN proposals' : proposals'[id].end_time >= time'
<1> DEFINE Settled(id) ==
             delete_expired_proposal(Without(proposals, {id}), Without(votes, {id}),
                                     Refunded(refunds, {id}))
<1>0. time \in Nat
  BY DEF IInv, Rest
<1>1. ASSUME NEW id \in DOMAIN proposals, Settled(id)
      PROVE  \A i \in DOMAIN proposals' : proposals'[i].end_time >= time
  <2>1. Books(last_id, Without(proposals, {id}), Without(votes, {id}),
              Refunded(refunds, {id}))
    BY SettleKeepsBooks DEF IInv
  <2> QED BY <1>0, <1>1, <2>1, SweepLeavesNoneExpired
<1>2. CASE Submit
  <2>1. PICK src \in Proposer, r \in Requests, dep \in Deposits, e \in Durations :
          submitProposal(src, r, dep, e)
    BY <1>2 DEF Submit
  <2> DEFINE id == last_id + 1
             info == [type |-> r.type, target |-> r.target, value |-> r.value,
                      amount |-> r.amount, deposit |-> dep,
                      proposal_client_address |-> src,
                      end_time |-> time + e, voting_status |-> "none"]
  <2>2. r \in Request /\ dep \in Nat /\ e \in Nat /\ src \in Address
    BY RequestAssumption, NumberAssumption, AddressAssumption
  <2>3. /\ info \in ProposalInfo
        /\ info.voting_status = "none"
        /\ info.type = "update_asset" \/ info.target \in Param
    BY <1>0, <2>2, RequestAssumption DEF Request, ProposalInfo
  <2>4. /\ delete_expired_proposal(With(proposals, id, info), votes, With(refunds, id, 0))
        /\ time' = time
    BY <2>1 DEF submitProposal, NextId
  <2> HIDE DEF info
  <2>5. Books(id, With(proposals, id, info), votes, With(refunds, id, 0))
    BY <2>3, OpenKeepsBooks DEF IInv
  <2> QED BY <1>0, <2>4, <2>5, SweepLeavesNoneExpired
<1>3. CASE Withdraw
  <2>1. PICK src \in Proposer, id \in 1 .. last_id : withdrawProposal(src, id)
    BY <1>3 DEF Withdraw
  <2>2. id \in DOMAIN proposals /\ Settled(id) /\ time' = time
    BY <2>1 DEF withdrawProposal
  <2> HIDE DEF Settled
  <2> QED BY <1>1, <2>2
<1>4. CASE Vote
  <2>1. PICK src \in Address, id \in 1 .. last_id, option \in BOOLEAN :
          tccVote(src, id, option)
    BY <1>4 DEF Vote
  <2>2. id \in DOMAIN proposals /\ time' = time
    BY <2>1 DEF tccVote
  <2>3. CASE Adopt(id) \/ Reject(id)
    <3>1. Settled(id)
      BY <2>3 DEF Adopt, Reject
    <3> HIDE DEF Settled
    <3> QED BY <1>1, <2>2, <3>1
  <2>4. CASE ~(Adopt(id) \/ Reject(id))
    <3> DEFINE b == Cast(BallotsOf(id), src, option)
               P2 == [proposals EXCEPT ![id].voting_status = "in_progress"]
               V2 == With(votes, id, b)
    <3>1. StatusExpired(BallotsOf(id)) # "in_progress"
      BY DEF StatusExpired
    <3>2. /\ src \notin Voted(BallotsOf(id))
          /\ Conclude(id, StatusInTime(b), b)
      BY <2>1, <2>4, <3>1 DEF tccVote, Conclude
    <3>3. KeepOpen(id, b)
      BY <2>4, <3>2 DEF Conclude
    <3>4. b \in Ballots /\ Voted(b) # {} /\ b.yes \cap b.no = {}
      BY <2>2, <3>2, CastKeepsBallots
    <3> HIDE DEF b
    <3>5. Books(last_id, P2, V2, refunds)
      BY <2>2, <3>4, KeepOpenKeepsBooks DEF IInv
    <3>6. delete_expired_proposal(P2, V2, refunds)
      BY <3>3 DEF KeepOpen
    <3> HIDE DEF P2, V2
    <3> QED BY <1>0, <2>2, <3>5, <3>6, SweepLeavesNoneExpired
  <2> QED BY <2>3, <2>4
<1>5. CASE LoadConfig \/ Tick \/ UNCHANGED vars
  BY <1>5 DEF LoadConfig, Tick, vars
<1> QED BY <1>2, <1>3, <1>4, <1>5 DEF Next

(***************************************************************************)
(* Every call sweeps: after any step that touched the maps, no proposal    *)
(* whose time has run out is left.                                         *)
(***************************************************************************)
THEOREM CallsAlwaysSweep == Spec => SweptAfterEveryCall
<1>1. IInv /\ [Next]_vars =>
        [<<proposals, votes>>' # <<proposals, votes>>
          => \A id \in DOMAIN proposals' : proposals'[id].end_time >= time']_vars
  BY StepSweeps
<1> QED BY <1>1, IInvInductive, PTL DEF Spec, SweptAfterEveryCall

\* The sweep takes ballots away only together with their proposal.
LEMMA SweepKeepsBallots ==
  ASSUME NEW P, NEW V, NEW R, delete_expired_proposal(P, V, R)
  PROVE  /\ DOMAIN proposals' \subseteq DOMAIN P
         /\ \A id \in DOMAIN V \cap DOMAIN proposals' :
              id \in DOMAIN votes' /\ votes'[id] = V[id]
BY DEF delete_expired_proposal, Without

\* What becomes of the ballots of a proposal that is still there.
BallotsKept ==
  \A id \in DOMAIN votes \cap DOMAIN proposals' :
    /\ id \in DOMAIN votes'
    /\ votes[id].yes \subseteq votes'[id].yes
    /\ votes[id].no \subseteq votes'[id].no

(***************************************************************************)
(* Both together: the property of tccVote that the runs check.             *)
(***************************************************************************)
THEOREM AdoptedAlwaysSettled == Spec => []AdoptedIsSettled
<1>1. AdoptedIsSettled <=> GrantOnlyWhenSettled /\ CurrentVotedIsInForce
  BY DEF AdoptedIsSettled
<1> QED BY <1>1, GrantsAlwaysSettled, CurrentVotedAlwaysInForce, PTL

(***************************************************************************)
(* A recorded ballot stays as it is while its proposal lives.              *)
(***************************************************************************)
THEOREM BallotsAlwaysFinal == Spec => BallotsAreFinal
<1>1. ASSUME IInv, NEW id \in DOMAIN proposals,
             delete_expired_proposal(Without(proposals, {id}), Without(votes, {id}),
                                     Refunded(refunds, {id}))
      PROVE  BallotsKept
  <2>1. /\ DOMAIN proposals' \subseteq DOMAIN Without(proposals, {id})
        /\ \A i \in DOMAIN Without(votes, {id}) \cap DOMAIN proposals' :
              i \in DOMAIN votes' /\ votes'[i] = Without(votes, {id})[i]
    BY <1>1, SweepKeepsBallots
  <2> QED BY <2>1 DEF Without, BallotsKept
<1>2. ASSUME IInv, [Next]_vars PROVE BallotsKept
  <2>1. CASE Submit
    <3>1. PICK src \in Proposer, r \in Requests, dep \in Deposits, e \in Durations :
            submitProposal(src, r, dep, e)
      BY <2>1 DEF Submit
    <3>2. PICK P, R : delete_expired_proposal(P, votes, R)
      BY <3>1 DEF submitProposal, NextId
    <3> QED BY <3>2, SweepKeepsBallots DEF BallotsKept
  <2>2. CASE Withdraw
    BY <1>1, <1>2, <2>2 DEF Withdraw, withdrawProposal
  <2>3. CASE Vote
    <3>1. PICK src \in Address, id \in 1 .. last_id, option \in BOOLEAN :
            tccVote(src, id, option)
      BY <2>3 DEF Vote
    <3>2. id \in DOMAIN proposals
      BY <3>1 DEF tccVote
    <3>3. CASE Adopt(id) \/ Reject(id)
      BY <1>1, <1>2, <3>2, <3>3 DEF Adopt, Reject
    <3>4. CASE ~(Adopt(id) \/ Reject(id))
      <4> DEFINE b == Cast(BallotsOf(id), src, option)
      <4>1. StatusExpired(BallotsOf(id)) # "in_progress"
        BY DEF StatusExpired
      <4>2. KeepOpen(id, b)
        BY <3>1, <3>4, <4>1 DEF tccVote, Conclude
      <4>3. PICK P, R : delete_expired_proposal(P, With(votes, id, b), R)
        BY <4>2 DEF KeepOpen
      <4>4. /\ BallotsOf(id).yes \subseteq b.yes
            /\ BallotsOf(id).no \subseteq b.no
        <5>1. BallotsOf(id) \in Ballots
          BY <1>2, <3>2 DEF BallotsOf, NoBallots, Ballots, Value, IInv, Books
        <5> QED BY <5>1 DEF Cast, Ballots
      <4> HIDE DEF b
      <4>5. \A i \in DOMAIN votes : /\ i \in DOMAIN With(votes, id, b)
                                    /\ With(votes, id, b)[i] = IF i = id THEN b ELSE votes[i]
        BY DEF With
      <4>6. id \in DOMAIN votes => votes[id] = BallotsOf(id)
        BY DEF BallotsOf
      <4> QED BY <4>3, <4>4, <4>5, <4>6, SweepKeepsBallots DEF BallotsKept
    <3> QED BY <3>3, <3>4
  <2>4. CASE LoadConfig \/ Tick \/ UNCHANGED vars
    <3>1. UNCHANGED votes /\ UNCHANGED proposals
      BY <2>4 DEF LoadConfig, Tick, vars
    <3> QED BY <3>1 DEF BallotsKept
  <2> QED BY <1>2, <2>1, <2>2, <2>3, <2>4 DEF Next
<1>3. IInv /\ [Next]_vars => [BallotsKept]_vars
  BY <1>2
<1> QED BY <1>3, IInvInductive, PTL DEF Spec, BallotsAreFinal, BallotsKept

-----------------------------------------------------------------------------
(***************************************************************************)
(* What stands behind an adopted proposal.                                 *)
(***************************************************************************)
\* What a step that changes parameters or grants comes from.
Settles(id) ==
  /\ Voted(BallotsOf(id)) \subseteq committee => Mandate(id)
  /\ Without(params', {proposals[id].target})
       = Without(params, {proposals[id].target})
  /\ \A i \in 1 .. last_id :
       grants'[i] # grants[i] => i = id /\ grants'[i] = proposals[i].amount

MandateStep ==
  <<params, grants>>' # <<params, grants>> =>
    \/ last_id' = last_id + 1 /\ UNCHANGED params
    \/ \E id \in DOMAIN proposals \ DOMAIN proposals' : Settles(id)

\* The ballots on a live proposal are sets of addresses.
LEMMA BallotsAreTyped ==
  ASSUME IInv, NEW id \in DOMAIN proposals
  PROVE  /\ BallotsOf(id) = [yes |-> BallotsOf(id).yes, no |-> BallotsOf(id).no]
         /\ BallotsOf(id).yes \subseteq Address /\ BallotsOf(id).no \subseteq Address
         /\ BallotsOf(id).yes \cap BallotsOf(id).no = {}
BY DEF BallotsOf, NoBallots, Ballots, Value, IInv, Books

\* A set of ballots is as large as the larger set it is part of, or smaller.
LEMMA FewerBallots ==
  ASSUME NEW S \in SUBSET Address, NEW T \in SUBSET S
  PROVE  /\ IsFiniteSet(S) /\ Cardinality(S) \in Nat /\ Cardinality(T) \in Nat
         /\ Cardinality(T) <= Cardinality(S)
<1>1. IsFiniteSet(S)
  BY AddressAssumption, FS_Subset
<1> QED BY <1>1, FS_Subset, FS_CardinalityType

\* An approval has the mandate of the members, if the ballots are theirs.
LEMMA ApprovedHasMandate ==
  ASSUME IInv, NEW id \in DOMAIN proposals, NEW src \in committee, NEW option \in BOOLEAN,
         Voted(BallotsOf(id)) \subseteq committee,
         Approved(IF proposal_expired(proposals[id]) THEN BallotsOf(id)
                                                     ELSE Cast(BallotsOf(id), src, option))
  PROVE  Mandate(id)
<1> DEFINE old == BallotsOf(id)
           cast == IF proposal_expired(proposals[id]) THEN {} ELSE {src}
           b == IF proposal_expired(proposals[id]) THEN old ELSE Cast(old, src, option)
           S == (old.yes \cup cast) \cap committee
<1>1. /\ old = [yes |-> old.yes, no |-> old.no]
      /\ old.yes \subseteq committee
  BY BallotsAreTyped DEF Voted
<1>2. b.yes \subseteq S
  <2>1. CASE proposal_expired(proposals[id])
    BY <1>1, <2>1
  <2>2. CASE ~ proposal_expired(proposals[id])
    <3>1. b.yes \subseteq old.yes \cup {src}
      BY <1>1, <2>2 DEF Cast
    <3> QED BY <1>1, <2>2, <3>1
  <2> QED BY <2>1, <2>2
<1>3. committee \subseteq Address
  BY DEF IInv, Rest, Value
<1>4. /\ Cardinality(b.yes) \in Nat /\ Cardinality(S) \in Nat
      /\ Cardinality(b.yes) <= Cardinality(S)
  <2>1. S \in SUBSET Address
    BY <1>3
  <2> HIDE DEF b, S
  <2> QED BY <1>2, <2>1, FewerBallots
<1>5. Size \in Nat
  BY <1>3, FewerBallots DEF Size
<1>6. 3 * Cardinality(b.yes) >= 2 * Size
  BY DEF Approved
<1>7. 3 * Cardinality(S) >= 2 * Size
  <2> HIDE DEF b, S
  <2> QED BY <1>4, <1>5, <1>6
<1> QED BY <1>7 DEF Mandate

\* An adopted proposal changes its own target only, and is granted once.
LEMMA AdoptionChanges ==
  ASSUME IInv, NEW id \in DOMAIN proposals, Adopt(id), last_id' = last_id
  PROVE  /\ id \notin DOMAIN proposals'
         /\ Without(params', {proposals[id].target}) = Without(params, {proposals[id].target})
         /\ \A i \in 1 .. last_id :
              grants'[i] # grants[i] => i = id /\ grants'[i] = proposals[i].amount
<1> DEFINE p == proposals[id]
<1>1. /\ p \in ProposalInfo /\ id \in 1 .. last_id
      /\ grants \in [1 .. last_id -> Nat] /\ grants[id] = 0
      /\ params = [q \in DOMAIN params |-> params[q]]
  BY DEF IInv, Books, Rest, GrantOnlyWhenSettled
<1>2. id \notin DOMAIN proposals'
  BY DEF Adopt, delete_expired_proposal, Without
<1>3. CASE p.type = "update_asset"
  <2>1. grants' = [grants EXCEPT ![id] = @ + p.amount] /\ params' = params
    BY <1>3 DEF Adopt, Apply
  <2>2. grants'[id] = p.amount
    <3>1. grants'[id] = grants[id] + p.amount /\ p.amount \in Nat
      BY <1>1, <2>1 DEF ProposalInfo
    <3> QED BY <1>1, <3>1
  <2>3. \A i \in 1 .. last_id : i # id => grants'[i] = grants[i]
    BY <1>1, <2>1
  <2> QED BY <1>2, <2>1, <2>2, <2>3
<1>4. CASE p.type # "update_asset"
  <2>1. grants' = grants /\ params' = NewParams(p)
    BY <1>4 DEF Adopt, Apply
  <2>2. Without(NewParams(p), {p.target}) = Without(params, {p.target})
    <3>1. ASSUME NEW x
          PROVE  Without(With(params, p.target, x), {p.target}) = Without(params, {p.target})
      BY DEF With, Without
    <3>2. Without(Without(params, {p.target}), {p.target}) = Without(params, {p.target})
      BY DEF Without
    <3>3. p.type \in ProposalType
      BY <1>1 DEF ProposalInfo
    <3> HIDE DEF p
    <3>4. CASE p.type \in {"update", "add"}
      BY <3>1, <3>4 DEF NewParams
    <3>5. CASE p.type = "delete"
      BY <3>2, <3>5 DEF NewParams
    <3>6. CASE p.type = "incremental_add"
      BY <3>1, <3>6 DEF NewParams
    <3>7. CASE p.type = "incremental_delete"
      BY <3>1, <3>7 DEF NewParams
    <3> QED BY <1>4, <3>3, <3>4, <3>5, <3>6, <3>7 DEF ProposalType
  <2> QED BY <1>2, <2>1, <2>2
<1> QED BY <1>3, <1>4

LEMMA StepHasMandate ==
  ASSUME IInv, [Next]_vars
  PROVE  MandateStep
<1>1. CASE Submit
  BY <1>1 DEF Submit, submitProposal, NextId, MandateStep
<1>2. CASE Withdraw \/ LoadConfig \/ Tick \/ UNCHANGED vars
  BY <1>2 DEF Withdraw, withdrawProposal, LoadConfig, Tick, vars, MandateStep
<1>3. CASE Vote
  <2>1. PICK src \in Address, id \in 1 .. last_id, option \in BOOLEAN :
          tccVote(src, id, option)
    BY <1>3 DEF Vote
  <2>2. id \in DOMAIN proposals /\ src \in committee /\ last_id' = last_id
    BY <2>1 DEF tccVote, voter_in_committee
  <2> DEFINE b == IF proposal_expired(proposals[id]) THEN BallotsOf(id)
                  ELSE Cast(BallotsOf(id), src, option)
  <2>3. CASE ~ Adopt(id)
    <3>1. \E status, c : Conclude(id, status, c)
      BY <2>1 DEF tccVote
    <3>2. UNCHANGED <<params, grants>>
      BY <2>3, <3>1 DEF Conclude, Reject, KeepOpen
    <3> QED BY <3>2 DEF MandateStep
  <2>4. CASE Adopt(id) /\ Approved(b)
    <3>1. Voted(BallotsOf(id)) \subseteq committee => Mandate(id)
      BY <2>2, <2>4, ApprovedHasMandate
    <3>2. id \notin DOMAIN proposals' /\ Settles(id)
      BY <2>2, <2>4, <3>1, AdoptionChanges DEF Settles
    <3> QED BY <2>2, <3>2 DEF MandateStep
  <2>5. CASE ~ Approved(b)
    <3>1. UNCHANGED <<params, grants>>
      <4>1. CASE proposal_expired(proposals[id])
        <5>1. Conclude(id, "failure", BallotsOf(id))
          BY <2>1, <2>5, <4>1 DEF tccVote, StatusExpired
        <5> QED BY <5>1 DEF Conclude, Reject
      <4>2. CASE ~ proposal_expired(proposals[id])
        <5>1. Conclude(id, StatusInTime(b), b) /\ StatusInTime(b) # "success"
          BY <2>1, <2>5, <4>2 DEF tccVote, StatusInTime
        <5> QED BY <5>1 DEF Conclude, Reject, KeepOpen
      <4> QED BY <4>1, <4>2
    <3> QED BY <3>1 DEF MandateStep
  <2> QED BY <2>3, <2>4, <2>5
<1> QED BY <1>1, <1>2, <1>3 DEF Next

(***************************************************************************)
(* A parameter changes, or tokens are granted, only to settle one proposal *)
(* that asked for it and, as long as its voters are members, has the       *)
(* ballots of two thirds of the committee.                                 *)
(***************************************************************************)
THEOREM ChangesHaveMandate == Spec => MandateOfMembers
<1>1. IInv /\ [Next]_vars => [MandateStep]_vars
  BY StepHasMandate
<1> QED BY <1>1, IInvInductive, PTL DEF Spec, MandateOfMembers, MandateStep, Settles

-----------------------------------------------------------------------------
(***************************************************************************)
(* What may still be open, as long as the committee stays.                 *)
(***************************************************************************)
\* There is a committee, and no proposal is about it.
CommitteeStays ==
  GenesisParams[TccMember] # {} /\ \A r \in Requests : r.target # TccMember

Undecided(b) == ~ Vetoed(b) /\ Cardinality(Voted(b)) < Size

\* Proposals P and ballots V leave the committee alone and are undecided.
Waiting(P, V) ==
  /\ \A id \in DOMAIN P : P[id].target # TccMember
  /\ \A id \in DOMAIN V : Voted(V[id]) \subseteq committee /\ Undecided(V[id])

Seated ==
  /\ committee # {}
  /\ TccMember \in DOMAIN params /\ params[TccMember] = committee
  /\ Waiting(proposals, votes)

LEMMA SizeIsPositive ==
  ASSUME IInv, Seated
  PROVE  Size \in Nat \ {0} /\ Undecided(NoBallots)
<1>1. IsFiniteSet(committee)
  BY AddressAssumption, FS_Subset DEF IInv, Rest, Value
<1>2. Size \in Nat \ {0}
  BY <1>1, FS_CardinalityType, FS_EmptySet DEF Seated, Size
<1>3. Cardinality(NoBallots.no) = 0 /\ Cardinality(Voted(NoBallots)) = 0
  BY FS_EmptySet DEF NoBallots, Voted
<1> QED BY <1>2, <1>3 DEF Undecided, Vetoed

\* The sweep takes nothing but expired proposals away.
LEMMA SweepLeavesWaiting ==
  ASSUME NEW P, NEW V, NEW R, Waiting(P, V), delete_expired_proposal(P, V, R),
         committee' = committee
  PROVE  Waiting(proposals, votes)'
<1>1. /\ \A id \in DOMAIN proposals' : id \in DOMAIN P /\ proposals'[id] = P[id]
      /\ \A id \in DOMAIN votes' : id \in DOMAIN V /\ votes'[id] = V[id]
  BY DEF delete_expired_proposal, Without
<1> QED BY <1>1 DEF Waiting, Undecided, Vetoed, Size

\* The thresholds leave no gap: if everybody has voted and fewer than a fifth are
\* against, more than four fifths, and so two thirds, are for it.
LEMMA OpenIsUndecided ==
  ASSUME IInv, Seated, NEW b \in Ballots, Voted(b) \subseteq committee, b.yes \cap b.no = {},
         StatusInTime(b) = "in_progress"
  PROVE  Undecided(b)
<1>1. committee \in SUBSET Address
  BY DEF IInv, Rest, Value
<1> DEFINE y == Cardinality(b.yes)
           n == Cardinality(b.no)
           v == Cardinality(Voted(b))
<1>2. Size \in Nat /\ v <= Size
  BY <1>1, FewerBallots DEF Size
<1>3. IsFiniteSet(b.yes) /\ IsFiniteSet(b.no) /\ y \in Nat /\ n \in Nat /\ v \in Nat
  BY <1>1, FS_Subset, FewerBallots DEF Voted
<1>4. v = y + n
  <2>1. Cardinality(b.yes \cap b.no) = 0
    BY FS_EmptySet
  <2>2. v = y + n - Cardinality(b.yes \cap b.no)
    BY <1>3, FS_Union DEF Voted
  <2> QED BY <1>3, <2>1, <2>2
<1>5. ~ Vetoed(b) /\ ~ (Approved(b) /\ not_yet_voters_zero(b))
  BY DEF StatusInTime
<1>6. 5 * n < Size
  <2>1. ~ (5 * n >= Size)
    BY <1>5 DEF Vetoed
  <2> QED BY <1>2, <1>3, <2>1
<1>7. y + n # Size
  <2> SUFFICES ASSUME y + n = Size PROVE FALSE
    OBVIOUS
  <2>1. 3 * y >= 2 * Size
    BY <1>2, <1>3, <1>6
  <2> QED BY <1>5, <1>6, <2>1 DEF Approved, not_yet_voters_zero
<1>8. v < Size
  BY <1>2, <1>3, <1>4, <1>7
<1> QED BY <1>5, <1>8 DEF Undecided

\* A handler that removes a proposal, or opens one, or keeps one open.
LEMMA SettleLeavesWaiting ==
  ASSUME Seated, NEW id
  PROVE  Waiting(Without(proposals, {id}), Without(votes, {id}))
BY DEF Seated, Waiting, Without

\* An adopted proposal that is not about the committee leaves it in ONCHAIN_PARAMS.
LEMMA AdoptedKeepsCommittee ==
  ASSUME IInv, Seated, NEW id \in DOMAIN proposals, Adopt(id)
  PROVE  TccMember \in DOMAIN params' /\ params'[TccMember] = params[TccMember]
<1>1. proposals[id].target # TccMember /\ TccMember \in DOMAIN params
  BY DEF Seated, Waiting
<1>2. proposals[id].type \in ProposalType
  BY DEF IInv, Books, ProposalInfo
<1>3. params' = params \/ params' = NewParams(proposals[id])
  BY DEF Adopt, Apply
<1>4. params' = params \/ \E x : params' = With(params, proposals[id].target, x)
      \/ params' = Without(params, {proposals[id].target})
  <2>1. CASE proposals[id].type = "update_asset"
    BY <2>1 DEF Adopt, Apply
  <2> QED BY <1>2, <1>3, <2>1 DEF NewParams, ProposalType
<1> QED BY <1>1, <1>4 DEF With, Without

LEMMA NextKeepsSeated ==
  ASSUME CommitteeStays, IInv, Seated, [Next]_vars
  PROVE  Seated'
<1>1. CASE Submit
  <2>1. PICK src \in Proposer, r \in Requests, dep \in Deposits, e \in Durations :
          submitProposal(src, r, dep, e)
    BY <1>1 DEF Submit
  <2> DEFINE info == [type |-> r.type, target |-> r.target, value |-> r.value,
                      amount |-> r.amount, deposit |-> dep,
                      proposal_client_address |-> src,
                      end_time |-> time + e, voting_status |-> "none"]
             P == With(proposals, last_id + 1, info)
  <2>2. /\ delete_expired_proposal(P, votes, With(refunds, last_id + 1, 0))
        /\ UNCHANGED <<params, committee>>
    BY <2>1 DEF submitProposal, NextId
  <2>3. Waiting(P, votes)
    <3>1. info.target # TccMember
      BY DEF CommitteeStays
    <3> HIDE DEF info
    <3> QED BY <3>1 DEF Seated, Waiting, With
  <2> HIDE DEF P
  <2>4. Waiting(proposals, votes)'
    BY <2>2, <2>3, SweepLeavesWaiting
  <2> QED BY <2>2, <2>4 DEF Seated
<1>2. CASE Withdraw
  <2>1. PICK src \in Proposer, id \in 1 .. last_id : withdrawProposal(src, id)
    BY <1>2 DEF Withdraw
  <2>2. /\ delete_expired_proposal(Without(proposals, {id}), Without(votes, {id}),
                                   Refunded(refunds, {id}))
        /\ UNCHANGED <<params, committee>>
    BY <2>1 DEF withdrawProposal
  <2>3. Waiting(proposals, votes)'
    BY <2>2, SettleLeavesWaiting, SweepLeavesWaiting
  <2> QED BY <2>2, <2>3 DEF Seated
<1>3. CASE Vote
  <2>1. PICK src \in Address, id \in 1 .. last_id, option \in BOOLEAN :
          tccVote(src, id, option)
    BY <1>3 DEF Vote
  <2>2. id \in DOMAIN proposals /\ src \in committee /\ committee' = committee
    BY <2>1 DEF tccVote, voter_in_committee
  <2>3. CASE Adopt(id)
    <3>1. delete_expired_proposal(Without(proposals, {id}), Without(votes, {id}),
                                  Refunded(refunds, {id}))
      BY <2>3 DEF Adopt
    <3>2. Waiting(proposals, votes)'
      BY <2>2, <3>1, SettleLeavesWaiting, SweepLeavesWaiting
    <3> QED BY <2>2, <2>3, <3>2, AdoptedKeepsCommittee DEF Seated
  <2>4. CASE Reject(id)
    <3>1. /\ delete_expired_proposal(Without(proposals, {id}), Without(votes, {id}),
                                     Refunded(refunds, {id}))
          /\ params' = params
      BY <2>4 DEF Reject
    <3>2. Waiting(proposals, votes)'
      BY <2>2, <3>1, SettleLeavesWaiting, SweepLeavesWaiting
    <3> QED BY <2>2, <3>1, <3>2 DEF Seated
  <2>5. CASE ~ Adopt(id) /\ ~ Reject(id)
    <3> DEFINE b == Cast(BallotsOf(id), src, option)
               P == [proposals EXCEPT ![id].voting_status = "in_progress"]
               V == With(votes, id, b)
    <3>1. StatusExpired(BallotsOf(id)) # "in_progress"
      BY DEF StatusExpired
    <3>2. /\ src \notin Voted(BallotsOf(id))
          /\ Conclude(id, StatusInTime(b), b)
      BY <2>1, <2>5, <3>1 DEF tccVote, Conclude
    <3>3. KeepOpen(id, b) /\ StatusInTime(b) = "in_progress"
      BY <2>5, <3>2 DEF Conclude
    <3>4. b \in Ballots /\ b.yes \cap b.no = {}
      BY <2>2, <3>2, CastKeepsBallots
    <3>5. Voted(b) \subseteq committee
      <4>1. Voted(BallotsOf(id)) \subseteq committee
        BY DEF Seated, Waiting, BallotsOf, NoBallots, Voted
      <4>2. BallotsOf(id) = [yes |-> BallotsOf(id).yes, no |-> BallotsOf(id).no]
        BY <2>2, BallotsAreTyped
      <4> QED BY <2>2, <4>1, <4>2 DEF Cast, Voted
    <3> HIDE DEF b
    <3>6. Undecided(b)
      BY <3>3, <3>4, <3>5, OpenIsUndecided
    <3>7. Waiting(P, V)
      <4>1. \A i \in DOMAIN P : P[i].target = proposals[i].target
        BY DEF IInv, Books, ProposalInfo
      <4>2. DOMAIN P = DOMAIN proposals
        OBVIOUS
      <4>3. \A i \in DOMAIN V : V[i] = b \/ (i \in DOMAIN votes /\ V[i] = votes[i])
        BY DEF With
      <4> HIDE DEF P, V
      <4> QED BY <3>5, <3>6, <4>1, <4>2, <4>3 DEF Seated, Waiting
    <3>8. delete_expired_proposal(P, V, refunds) /\ params' = params
      BY <3>3 DEF KeepOpen
    <3> HIDE DEF P, V
    <3>9. Waiting(proposals, votes)'
      BY <2>2, <3>7, <3>8, SweepLeavesWaiting
    <3> QED BY <2>2, <3>8, <3>9 DEF Seated
  <2> QED BY <2>3, <2>4, <2>5
<1>4. CASE LoadConfig
  <2>1. committee' = committee /\ UNCHANGED <<params, proposals, votes>>
    BY <1>4 DEF LoadConfig, Seated
  <2> QED BY <2>1 DEF Seated, Waiting, Undecided, Vetoed, Size
<1>5. CASE Tick \/ UNCHANGED vars
  <2>1. UNCHANGED <<params, proposals, votes, committee>>
    BY <1>5 DEF Tick, vars
  <2> QED BY <2>1 DEF Seated, Waiting, Undecided, Vetoed, Size
<1> QED BY <1>1, <1>2, <1>3, <1>4, <1>5 DEF Next

(***************************************************************************)
(* As long as no proposal is about the committee itself, tccVote leaves no *)
(* proposal open that its ballots already decide, for a committee of any   *)
(* size: the thresholds of two thirds and one fifth meet.                  *)
(***************************************************************************)
THEOREM NothingDecidedEverStaysOpen ==
  ASSUME CommitteeStays
  PROVE  Spec => []NothingDecidedStaysOpen
<1>1. Init => Seated
  BY ParamAssumption DEF Init, CommitteeStays, Seated, Waiting
<1>2. IInv /\ Seated /\ [Next]_vars => Seated'
  BY NextKeepsSeated
<1>3. IInv /\ Seated => NothingDecidedStaysOpen
  BY SizeIsPositive DEF Seated, Waiting, NothingDecidedStaysOpen, BallotsOf, Undecided
<1> QED BY <1>1, <1>2, <1>3, IInvInductive, PTL DEF Spec
=============================================================================
