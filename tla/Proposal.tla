------------------------------ MODULE Proposal ------------------------------
(***************************************************************************)
(* The TCC governance contract, xsystem_contracts/src/                     *)
(* xrec_proposal_contract.cpp.  Accounts submit proposals against the      *)
(* on-chain parameters (or a token grant) and lock a deposit; the members  *)
(* of the committee vote; a proposal leaves the contract by a decision, by *)
(* withdrawal or by expiry, and its deposit is transferred back.           *)
(*                                                                         *)
(* A handler that fails an XCONTRACT_ENSURE or throws is rolled back as a  *)
(* whole, so a failing call is a step that changes nothing: failure        *)
(* conditions are the negated guards of the actions.                       *)
(*                                                                         *)
(* Comma separated lists (tcc_member, whitelist, blacklist) are sets of    *)
(* addresses; every other parameter's value is one of these sets too, used *)
(* as a mere label, and the empty set is the empty string.                 *)
(***************************************************************************)
EXTENDS Naturals, FiniteSets

CONSTANTS
  Address,      \* accounts: proposers, voters, list entries
  Proposer,     \* those that submit or withdraw in this model
  UserAddress,  \* those of a user account type, the only ones in a b/w list
  Param,        \* names of on-chain parameters
  BwParam,      \* "whitelist" and "blacklist"
  TccMember,    \* the parameter "tcc_member"
  ExpireTime,   \* the parameter "tcc_proposal_expire_time"
  GenesisParams,\* ONCHAIN_PARAMS as setup() fills it
  Requests,     \* the <<type, target, value, amount>> submitted in this model
  Deposits,     \* amounts sent along with submitProposal
  MinDeposit,   \* min_tcc_proposal_deposit
  Durations,    \* values tcc_proposal_expire_time may hold
  MaxId,        \* bound: proposals ever submitted
  MaxTime       \* bound: the logic clock

Value == SUBSET Address

ProposalType == {"update", "update_asset", "add", "delete",
                 "incremental_add", "incremental_delete"}

Request == [type : ProposalType, target : Param \cup Address,
            value : Value, amount : Nat]

ASSUME AddressAssumption == IsFiniteSet(Address)
                            /\ UserAddress \subseteq Address
                            /\ Proposer \subseteq Address
ASSUME ParamAssumption ==
  /\ BwParam \subseteq Param
  /\ TccMember \in Param
  /\ ExpireTime \in Param
  /\ GenesisParams \in [DOMAIN GenesisParams -> Value]
  /\ DOMAIN GenesisParams \subseteq Param
  /\ TccMember \in DOMAIN GenesisParams
ASSUME RequestAssumption ==
  /\ Requests \subseteq Request
  /\ \A r \in Requests : r.type = "update_asset" <=> r.target \notin Param
ASSUME NumberAssumption ==
  /\ Deposits \subseteq Nat
  /\ Durations \subseteq Nat
  /\ MinDeposit \in Nat
  /\ MaxId \in Nat
  /\ MaxTime \in Nat

VARIABLES
  params,     \* ONCHAIN_PARAMS: function on the parameters that exist
  last_id,    \* SYSTEM_GENERATED_ID
  proposals,  \* PROPOSAL_MAP_ID: function on the ids of the live proposals
  votes,      \* VOTE_MAP_ID: function on the ids that have a ballot
  refunds,    \* TRANSFERs of a proposal's deposit asked for so far, by id
  grants,     \* tokens asked for by an update_asset proposal, by id
  current_voted_proposal, \* CURRENT_VOTED_PROPOSAL, NoProposal when empty
  committee,  \* tcc_member as the running configuration holds it
  time        \* TIME()

vars == <<params, last_id, proposals, votes, refunds, grants,
          current_voted_proposal, committee, time>>

(***************************************************************************)
(* The records of the two maps.  proposal_info's priority is always        *)
(* priority_critical and its cosigning status always cosigning_success;    *)
(* effective_timer_height is only stored.                                  *)
(***************************************************************************)
ProposalInfo ==
  [type : ProposalType, target : Param \cup Address, value : Value,
   amount : Nat, deposit : Nat, proposal_client_address : Address,
   end_time : Nat, voting_status : {"none", "in_progress", "success"}]

NoProposal == [type |-> "none"]

Ballots == [yes : Value, no : Value]

NoBallots == [yes |-> {}, no |-> {}]

\* A slip the runs must catch: the stored ballots are not read back.
BallotsForgotten(id) == NoBallots

\* get_value_map: an absent entry reads as an empty map.
BallotsOf(id) == IF id \in DOMAIN votes THEN votes[id] ELSE NoBallots

\* The map without the entries of a set of keys (MAP_REMOVE).
Without(f, keys) == [k \in DOMAIN f \ keys |-> f[k]]

\* The map with one entry added or overwritten (MAP_SET).
With(f, key, val) == [k \in DOMAIN f \cup {key} |-> IF k = key THEN val ELSE f[k]]

\* refunds after TRANSFERring the deposits of a set of proposals.
Refunded(r, ids) == [i \in DOMAIN r |-> IF i \in ids THEN r[i] + 1 ELSE r[i]]

(***************************************************************************)
(* proposal_expired and the sweep every handler ends with.                 *)
(***************************************************************************)
proposal_expired(info) == info.end_time < time

SweepLeavesVotes(props, ballots, paid) ==       \* slip: VOTE_MAP_ID forgotten
  LET gone == {id \in DOMAIN props : proposal_expired(props[id])}
  IN  /\ proposals' = Without(props, gone)
      /\ votes' = ballots
      /\ refunds' = Refunded(paid, gone)

delete_expired_proposal(props, ballots, paid) ==
  LET gone == {id \in DOMAIN props : proposal_expired(props[id])}
  IN  /\ proposals' = Without(props, gone)
      /\ votes' = Without(ballots, gone)
      /\ refunds' = Refunded(paid, gone)

(***************************************************************************)
(* submitProposal.                                                         *)
(***************************************************************************)
check_bwlist_proposal(value) == value # {} /\ value \subseteq UserAddress

ValidRequest(r) ==
  \/ /\ r.type = "update"
     /\ r.target \in DOMAIN params
     /\ params[r.target] \notin {{}, r.value}
  \/ /\ r.type = "update_asset"
     /\ r.target \in Address
  \/ /\ r.type = "add"
     /\ r.target \notin DOMAIN params
     /\ r.target \in BwParam => check_bwlist_proposal(r.value)
  \/ /\ r.type = "delete"
     /\ r.target \in DOMAIN params
  \/ /\ r.type \in {"incremental_add", "incremental_delete"}
     /\ r.target \in BwParam
     /\ check_bwlist_proposal(r.value)

NextIdStale == last_id                      \* slip: the id is not advanced

NextId == last_id + 1

submitProposal(src, r, deposit, expire) ==
  LET id == NextId
      info == [type |-> r.type, target |-> r.target, value |-> r.value,
               amount |-> r.amount, deposit |-> deposit,
               proposal_client_address |-> src,
               end_time |-> time + expire, voting_status |-> "none"]
  IN  /\ last_id < MaxId
      /\ ValidRequest(r)
      /\ deposit >= MinDeposit
      /\ ExpireTime \in DOMAIN params      \* MAP_GET throws on a missing field
      /\ last_id' = id
      /\ grants' = With(grants, id, 0)
      /\ delete_expired_proposal(With(proposals, id, info), votes,
                                 With(refunds, id, 0))
      /\ UNCHANGED <<params, current_voted_proposal, committee, time>>

(***************************************************************************)
(* withdrawProposal: at any time, by the proposer only.                    *)
(***************************************************************************)
withdrawProposal(src, id) ==
  /\ id \in DOMAIN proposals
  /\ src = proposals[id].proposal_client_address
  /\ delete_expired_proposal(Without(proposals, {id}), Without(votes, {id}),
                             Refunded(refunds, {id}))
  /\ UNCHANGED <<params, last_id, grants, current_voted_proposal, committee, time>>

(***************************************************************************)
(* tccVote.  The thresholds are doubles in the code; over the committee    *)
(* sizes in question yes/size >= 2.0/3 and no/size < 0.20 are the exact    *)
(* rational comparisons.  not_yet_voters is an unsigned difference that    *)
(* wraps when the committee has shrunk below the ballots cast; it is only  *)
(* compared with 0, which a wrapped value never equals.                    *)
(***************************************************************************)
voter_in_committee(src) == src \in committee

Size == Cardinality(committee)

ApprovedUnopposed(b) == 5 * Cardinality(b.no) < Size     \* slip: no quorum

Approved(b) == /\ 3 * Cardinality(b.yes) >= 2 * Size
               /\ 5 * Cardinality(b.no) < Size

Vetoed(b) == 5 * Cardinality(b.no) >= Size

not_yet_voters_zero(b) == Cardinality(b.yes) + Cardinality(b.no) = Size

Cast(b, src, option) == IF option THEN [b EXCEPT !.yes = @ \cup {src}]
                                  ELSE [b EXCEPT !.no = @ \cup {src}]

Voted(b) == b.yes \cup b.no

(***************************************************************************)
(* voting_status after a vote.  On an expired proposal the ballot is not   *)
(* recorded: the late call only decides on the ballots already there.      *)
(***************************************************************************)
StatusExpired(b) == IF Approved(b) THEN "success" ELSE "failure"

\* slip: the veto threshold of the lower priorities, 0.51
StatusMajorityVeto(b) == IF Approved(b) /\ not_yet_voters_zero(b) THEN "success"
                         ELSE IF 100 * Cardinality(b.no) >= 51 * Size THEN "failure"
                         ELSE "in_progress"

StatusInTime(b) == IF Approved(b) /\ not_yet_voters_zero(b) THEN "success"
                   ELSE IF Vetoed(b) THEN "failure"
                   ELSE "in_progress"

\* The incremental types read the old list with MAP_GET, which throws when the
\* parameter is gone by now.
CanApply(p) == p.type \in {"incremental_add", "incremental_delete"}
                 => p.target \in DOMAIN params

\* ONCHAIN_PARAMS after the adopted proposal p.
NewParams(p) ==
  CASE p.type \in {"update", "add"} -> With(params, p.target, p.value)
    [] p.type = "delete" -> Without(params, {p.target})
    [] p.type = "incremental_add" -> With(params, p.target, params[p.target] \cup p.value)
    [] p.type = "incremental_delete" -> With(params, p.target, params[p.target] \ p.value)

ApplyUnannounced(id, p) ==    \* slip: a delete is not announced to the nodes
  IF p.type = "update_asset"
    THEN /\ grants' = [grants EXCEPT ![id] = @ + p.amount]
         /\ UNCHANGED <<params, current_voted_proposal>>
    ELSE /\ CanApply(p)
         /\ params' = NewParams(p)
         /\ current_voted_proposal' =
              IF p.type = "delete" THEN current_voted_proposal
                                   ELSE [p EXCEPT !.voting_status = "success"]
         /\ UNCHANGED grants

Apply(id, p) ==
  IF p.type = "update_asset"
    THEN /\ grants' = [grants EXCEPT ![id] = @ + p.amount]
         /\ UNCHANGED <<params, current_voted_proposal>>
    ELSE /\ CanApply(p)
         /\ params' = NewParams(p)
         /\ current_voted_proposal' = [p EXCEPT !.voting_status = "success"]
         /\ UNCHANGED grants

(***************************************************************************)
(* The three ways a vote goes: decided for, decided against, still open.   *)
(***************************************************************************)
Adopt(id) == /\ Apply(id, proposals[id])
             /\ delete_expired_proposal(Without(proposals, {id}),
                                        Without(votes, {id}),
                                        Refunded(refunds, {id}))

RejectStaysLive(id) ==                   \* slip: MAP_REMOVE after the sweep
  /\ UNCHANGED <<params, grants, current_voted_proposal>>
  /\ delete_expired_proposal(proposals, Without(votes, {id}), Refunded(refunds, {id}))

Reject(id) == /\ UNCHANGED <<params, grants, current_voted_proposal>>
              /\ delete_expired_proposal(Without(proposals, {id}),
                                         Without(votes, {id}),
                                         Refunded(refunds, {id}))

KeepOpen(id, b) ==
  /\ UNCHANGED <<params, grants, current_voted_proposal>>
  /\ delete_expired_proposal([proposals EXCEPT ![id].voting_status = "in_progress"],
                             With(votes, id, b), refunds)

Conclude(id, status, b) == \/ status = "success" /\ Adopt(id)
                           \/ status = "failure" /\ Reject(id)
                           \/ status = "in_progress" /\ KeepOpen(id, b)

tccVote(src, id, option) ==
  /\ voter_in_committee(src)
  /\ id \in DOMAIN proposals
  /\ \/ /\ proposal_expired(proposals[id])
        /\ Conclude(id, StatusExpired(BallotsOf(id)), BallotsOf(id))
     \/ /\ ~proposal_expired(proposals[id])
        /\ src \notin Voted(BallotsOf(id))
        /\ LET b == Cast(BallotsOf(id), src, option)
           IN  Conclude(id, StatusInTime(b), b)
  /\ UNCHANGED <<last_id, committee, time>>

(***************************************************************************)
(* External: the configuration centre loads an adopted tcc_member into the *)
(* running configuration some time after the contract has stored it, and   *)
(* the logic clock advances.                                               *)
(***************************************************************************)
LoadConfig ==
  /\ TccMember \in DOMAIN params
  /\ committee' = params[TccMember]
  /\ UNCHANGED <<params, last_id, proposals, votes, refunds, grants,
                 current_voted_proposal, time>>

Tick ==
  /\ time < MaxTime
  /\ time' = time + 1
  /\ UNCHANGED <<params, last_id, proposals, votes, refunds, grants,
                 current_voted_proposal, committee>>

Init ==
  /\ params = GenesisParams
  /\ last_id = 0
  /\ proposals = [id \in {} |-> NoBallots]
  /\ votes = [id \in {} |-> NoBallots]
  /\ refunds = [id \in {} |-> 0]
  /\ grants = [id \in {} |-> 0]
  /\ current_voted_proposal = NoProposal
  /\ committee = GenesisParams[TccMember]
  /\ time = 0

Submit == \E src \in Proposer, r \in Requests, d \in Deposits, e \in Durations :
            submitProposal(src, r, d, e)
Withdraw == \E src \in Proposer, id \in 1 .. last_id : withdrawProposal(src, id)
Vote == \E src \in Address, id \in 1 .. last_id, option \in BOOLEAN :
          tccVote(src, id, option)

Next == Submit \/ Withdraw \/ Vote \/ LoadConfig \/ Tick

Spec == Init /\ [][Next]_vars

-----------------------------------------------------------------------------
(***************************************************************************)
(* Properties.                                                             *)
(***************************************************************************)
TypeOK ==
  /\ params \in [DOMAIN params -> Value]
  /\ DOMAIN params \subseteq Param
  /\ last_id \in Nat
  /\ proposals \in [DOMAIN proposals -> ProposalInfo]
  /\ DOMAIN proposals \subseteq 1 .. last_id
  /\ votes \in [DOMAIN votes -> Ballots]
  /\ refunds \in [1 .. last_id -> Nat]
  /\ grants \in [1 .. last_id -> Nat]
  /\ current_voted_proposal \in ProposalInfo \cup {NoProposal}
  /\ committee \in Value
  /\ time \in Nat

(***************************************************************************)
(* The two maps agree: a ballot list belongs to a live proposal, which is  *)
(* in progress exactly when it has one, and no member is on both sides.    *)
(* Every path that removes a proposal (decision, withdrawal, sweep) must   *)
(* remove its ballots too.  A live proposal is never a decided one, so     *)
(* tccVote's early return on a decided proposal is never taken.            *)
(***************************************************************************)
BallotsMatchProposals ==
  /\ \A id \in DOMAIN votes :
       /\ id \in DOMAIN proposals
       /\ Voted(votes[id]) # {}
       /\ votes[id].yes \cap votes[id].no = {}
  /\ \A id \in DOMAIN proposals :
       proposals[id].voting_status = IF id \in DOMAIN votes THEN "in_progress"
                                                            ELSE "none"

(***************************************************************************)
(* The deposit of every proposal ever submitted is either still held by a  *)
(* live proposal or was transferred back exactly once, whichever of the    *)
(* five transfer sites of the contract ended it, also when the call that   *)
(* decides an expired proposal goes on to sweep the expired ones.          *)
(***************************************************************************)
DepositRefundedOnce ==
  \A id \in 1 .. last_id :
    refunds[id] = IF id \in DOMAIN proposals THEN 0 ELSE 1

(***************************************************************************)
(* Tokens are granted only by a proposal that has left the contract, so a  *)
(* live proposal can never be paid for a second time.                      *)
(***************************************************************************)
GrantOnlyWhenSettled ==
  \A id \in 1 .. last_id : grants[id] > 0 => id \notin DOMAIN proposals

(***************************************************************************)
(* CURRENT_VOTED_PROPOSAL, from which the nodes load the change, always    *)
(* describes what ONCHAIN_PARAMS now holds for its target: no later        *)
(* adoption can change that parameter without replacing it.                *)
(***************************************************************************)
CurrentVotedIsInForce ==
  LET p == current_voted_proposal
  IN  /\ p.type = "delete" => p.target \notin DOMAIN params
      /\ p.type \notin {"none", "delete"} => p.target \in DOMAIN params
      /\ p.type \in {"update", "add"} => params[p.target] = p.value
      /\ p.type = "incremental_add" => p.value \subseteq params[p.target]
      /\ p.type = "incremental_delete" => p.value \cap params[p.target] = {}

\* Once a proposal is adopted, what was asked for has been done, once, and what
\* the nodes load says so, whatever proposals are adopted or end afterwards.
AdoptedIsSettled == GrantOnlyWhenSettled /\ CurrentVotedIsInForce

(***************************************************************************)
(* No call leaves an expired proposal behind: whatever a handler did, the  *)
(* proposals it leaves are those whose time has not run out.               *)
(***************************************************************************)
SweptAfterEveryCall ==
  [][ <<proposals, votes>>' # <<proposals, votes>>
        => \A id \in DOMAIN proposals' : proposals'[id].end_time >= time' ]_vars

(***************************************************************************)
(* A ballot is final: while the proposal lives, what a member voted stays. *)
(***************************************************************************)
BallotsAreFinal ==
  [][ \A id \in DOMAIN votes \cap DOMAIN proposals' :
        /\ id \in DOMAIN votes'
        /\ votes[id].yes \subseteq votes'[id].yes
        /\ votes[id].no \subseteq votes'[id].no ]_vars

(***************************************************************************)
(* A change of a parameter or a grant settles exactly one proposal that    *)
(* asked for it, and at least two thirds of the present committee members  *)
(* stand behind it by ballots of their own, at most one of them cast in    *)
(* this very call, and none once the proposal has expired.  This is so if  *)
(* those who voted on it are members still: the code counts the ballots of *)
(* members who have left, against the size of the new committee.           *)
(***************************************************************************)
Mandate(id) ==
  \E v \in committee :
    LET cast == IF proposal_expired(proposals[id]) THEN {} ELSE {v}
    IN  3 * Cardinality((BallotsOf(id).yes \cup cast) \cap committee) >= 2 * Size

MandateOfMembers ==
  [][ <<params, grants>>' # <<params, grants>> =>
        \/ last_id' = last_id + 1 /\ UNCHANGED params
        \/ \E id \in DOMAIN proposals \ DOMAIN proposals' :
             /\ Voted(BallotsOf(id)) \subseteq committee => Mandate(id)
             /\ Without(params', {proposals[id].target})
                  = Without(params, {proposals[id].target})
             /\ \A i \in 1 .. last_id :
                  grants'[i] # grants[i] => i = id /\ grants'[i] = proposals[i].amount ]_vars

(***************************************************************************)
(* The two thresholds and the not_yet_voters test leave no gap: as long as *)
(* the committee is not replaced, a proposal that still waits for votes in *)
(* time has no veto against it and at least one member left to vote.       *)
(***************************************************************************)
NothingDecidedStaysOpen ==
  \A id \in DOMAIN proposals :
    /\ ~Vetoed(BallotsOf(id))
    /\ Cardinality(Voted(BallotsOf(id))) < Size

=============================================================================
