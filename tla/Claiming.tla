------------------------------ MODULE Claiming ------------------------------
(***************************************************************************)
(* From computed rewards to paid ones.  The reward contract of ZEC hands   *)
(* its tasks out over several timer rounds (module RewardDispatch).  What  *)
(* it sends, transfers of tokens and calls that record rewards, travels to *)
(* the tables on its own and arrives in any order.  The claiming contract  *)
(* of a table (xtable_reward_claiming_contract.cpp) records the rewards of *)
(* its nodes, divides a node's dividend among the voters of the table, and *)
(* pays an account that claims.                                            *)
(*                                                                         *)
(* How the rewards of a round come about is not looked at here: a round    *)
(* gives any of the rewards in GivenRewards.                               *)
(***************************************************************************)
EXTENDS RewardDispatch

CONSTANTS
  Table,
  Node,             \* accounts of nodes, numbers
  Voter,            \* accounts of voters
  TableOf,          \* the table of a node's or voter's account
  VotesHeld,        \* [voter -> maps of node to votes he may hold]
  GivenRewards,     \* records [nodes, dividends, community] of a round
  OldNodeRecords,   \* what setup() may find of an earlier chain
  OldVoterRecords,
  DecimalsWidth,    \* bits of setup()'s sum of fractions
  min_node_reward,  \* in tokens
  min_voter_dividend, \* compared with fractions
  MaxRounds         \* bound: rounds of rewards

Accounts(S, t) == {a \in S : TableOf[a] = t}

\* A map from some of S.
IsMap(m, S) == DOMAIN m \subseteq S /\ m = [x \in DOMAIN m |-> m[x]]

IsRewards(m, S) == IsMap(m, S) /\ \A x \in DOMAIN m : m[x] \in Nat

ASSUME ClaimingAssumption ==
  /\ IsFiniteSet(Table) /\ Community \notin Table
  /\ Node \subseteq Nat /\ IsFiniteSet(Node)
  /\ IsFiniteSet(Voter)
  /\ TableOf \in [Node \cup Voter -> Table]
  /\ \A v \in Voter : \A m \in VotesHeld[v] :
       IsMap(m, Node) /\ \A n \in DOMAIN m : m[n] \in Nat \ {0}
  /\ \A given \in GivenRewards :
       /\ DOMAIN given.nodes \cup DOMAIN given.dividends \subseteq Table
       /\ \A t \in DOMAIN given.nodes : IsRewards(given.nodes[t], Accounts(Node, t))
       /\ \A t \in DOMAIN given.dividends : IsRewards(given.dividends[t], Node)
       /\ given.community \in Nat
  /\ {DecimalsWidth, min_node_reward, min_voter_dividend} \subseteq Nat
  /\ MaxRounds \in Nat

VARIABLES
  rounds,      \* rounds computed so far
  granted,     \* history: what rounds have given each node so far
  tasks,       \* the reward contract's TASK_KEY, in the order of the keys
  transfers,   \* transfers on their way
  calls,       \* calls on their way
  votes,       \* VOTES_KEY of the table vote contracts: [voter -> votes]
  balance,     \* tokens sent to every claiming contract less those it has paid
  node_rec,    \* NODE_REWARD_KEY; an account without an entry has zeros
  voter_rec,   \* VOTER_DIVIDEND_REWARD_KEY, likewise
  node_paid,   \* history: tokens TRANSFERred to a node's account
  voter_paid   \* history: tokens TRANSFERred to a voter's account

zecVars == <<rounds, granted, tasks>>
books == <<balance, node_rec, voter_rec, node_paid, voter_paid>>
vars == <<zecVars, transfers, calls, votes, books>>

-----------------------------------------------------------------------------
(***************************************************************************)
(* The timer of the reward contract: tasks are carried out, or, when there *)
(* are none left, a new round is computed.                                 *)
(***************************************************************************)
GivenTo(rewards, n) == SumOver(DOMAIN rewards, LAMBDA t : AmountOf(rewards[t], n))

reward(given) ==
  /\ tasks = <<>>
  /\ rounds < MaxRounds
  /\ rounds' = rounds + 1
  /\ granted' = [n \in Node |-> granted[n] + GivenTo(given.nodes, n)]
  /\ tasks' = dispatch_all_reward(rounds', given.nodes, given.dividends, given.community)
  /\ UNCHANGED <<transfers, calls, votes, books>>

IsTransfer(task) == task.action = "transfer"

execute_task ==
  /\ tasks # <<>>
  /\ transfers' = transfers \cup {x \in Executed(tasks) : IsTransfer(x)}
  /\ calls' = calls \cup {x \in Executed(tasks) : ~ IsTransfer(x)}
  /\ tasks' = Remaining(tasks)
  /\ UNCHANGED <<rounds, granted, votes, books>>

-----------------------------------------------------------------------------
(***************************************************************************)
(* The claiming contract of a table.                                       *)
(***************************************************************************)
\* A transfer of 0 tokens is not sent (xcontract_base::TRANSFER).
ReceiveTransfer(x) ==
  /\ x \in transfers
  /\ transfers' = transfers \ {x}
  /\ balance' = IF x.to \in Table THEN [balance EXCEPT ![x.to] = @ + x.amount] ELSE balance
  /\ UNCHANGED <<zecVars, calls, votes, node_rec, voter_rec, node_paid, voter_paid>>

\* slip: a reward is not counted among those accumulated
AddedUnclaimed(rec, x) == [rec EXCEPT !.unclaimed = @ + x]

Added(rec, x) ==
  [accumulated |-> rec.accumulated + x, unclaimed |-> rec.unclaimed + x]

recv_node_reward(c) ==
  /\ c.action = "recv_node_reward"
  /\ node_rec' = [n \in Node |-> IF n \in DOMAIN c.rewards THEN Added(node_rec[n], c.rewards[n])
                                                           ELSE node_rec[n]]
  /\ UNCHANGED <<balance, voter_rec, node_paid, voter_paid>>

\* POLLABLE_KEY of the table's vote contract: the sum of its voters' votes
\* (PollableIsSumOfVotes of module VoteReport).
Pollable(t, n) == SumOver(Accounts(Voter, t), LAMBDA v : AmountOf(votes[v], n))

VoterShare(c, v, n) == (c.rewards[n] * votes[v][n]) \div Pollable(c.to, n)

\* add_voter_reward; the record of a voter has a part for every node.
Zero == [accumulated |-> 0, unclaimed |-> 0]

\* slip: a second reward of a node replaces the first
PartReplaced(rec, n, x) == Added(Zero, x)

PartWith(rec, n, x) ==
  IF n \in DOMAIN rec.parts THEN Added(rec.parts[n], x) ELSE Added(Zero, x)

add_voter_reward(rec, c, v) ==
  LET earning == DOMAIN votes[v] \cap DOMAIN c.rewards
      sum == SumOver(earning, LAMBDA n : VoterShare(c, v, n))
  IN  [accumulated |-> rec.accumulated + sum,
       unclaimed |-> rec.unclaimed + sum,
       parts |-> [n \in DOMAIN rec.parts \cup earning |->
                    IF n \in earning THEN PartWith(rec, n, VoterShare(c, v, n))
                                     ELSE rec.parts[n]]]

recv_voter_dividend_reward(c) ==
  /\ c.action = "recv_voter_dividend_reward"
  /\ voter_rec' = [v \in Voter |-> IF TableOf[v] = c.to THEN add_voter_reward(voter_rec[v], c, v)
                                                        ELSE voter_rec[v]]
  /\ UNCHANGED <<balance, node_rec, node_paid, voter_paid>>

ReceiveCall(c) ==
  /\ c \in calls
  /\ calls' = calls \ {c}
  /\ recv_node_reward(c) \/ recv_voter_dividend_reward(c)
  /\ UNCHANGED <<zecVars, transfers, votes>>

\* TRANSFER to the claimant.  xcontract_helper drops what the account layer
\* says to it, so the claim goes on without the tokens: the balance is below 0
\* for tokens that were asked for before they arrived.
PayOut(t, tokens) == balance' = [balance EXCEPT ![t] = @ - tokens]

claimNodeReward(n) ==
  LET tokens == Whole(node_rec[n].unclaimed)
  IN  /\ tokens > min_node_reward
      /\ PayOut(TableOf[n], tokens)
      /\ node_rec' = [node_rec EXCEPT ![n].unclaimed = @ - tokens * Precision]
      /\ node_paid' = [node_paid EXCEPT ![n] = @ + tokens]
      /\ UNCHANGED <<zecVars, transfers, calls, votes, voter_rec, voter_paid>>

\* slip: the record is cleared, the fraction below a token with it
ClaimedAll(rec) ==
  [rec EXCEPT !.unclaimed = 0,
              !.parts = [n \in DOMAIN @ |-> [@[n] EXCEPT !.unclaimed = 0]]]

Claimed(rec) ==
  [rec EXCEPT !.unclaimed = @ % Precision,
              !.parts = [n \in DOMAIN @ |-> [@[n] EXCEPT !.unclaimed = 0]]]

\* The threshold is compared with the fractions.
claimVoterDividend(v) ==
  LET tokens == Whole(voter_rec[v].unclaimed)
  IN  /\ voter_rec[v].unclaimed > min_voter_dividend
      /\ PayOut(TableOf[v], tokens)
      /\ voter_rec' = [voter_rec EXCEPT ![v] = Claimed(@)]
      /\ voter_paid' = [voter_paid EXCEPT ![v] = @ + tokens]
      /\ UNCHANGED <<zecVars, transfers, calls, votes, node_rec, node_paid>>

\* External: voteNode and unvoteNode of the table vote contract.
Revote(v, m) ==
  /\ m # votes[v]
  /\ votes' = [votes EXCEPT ![v] = m]
  /\ UNCHANGED <<zecVars, transfers, calls, books>>

-----------------------------------------------------------------------------
(***************************************************************************)
(* setup() takes over the records of an earlier chain and credits itself   *)
(* with their tokens: the whole ones of every record, and the fractions    *)
(* together, rounded up.                                                   *)
(***************************************************************************)
SetupTokens(nodes, voters) ==
  LET decimals == (SumOver(DOMAIN nodes, LAMBDA n : nodes[n].unclaimed % Precision)
                    + SumOver(DOMAIN voters, LAMBDA v : voters[v].unclaimed % Precision))
                  % 2^DecimalsWidth
  IN  SumOver(DOMAIN nodes, LAMBDA n : Whole(nodes[n].unclaimed))
        + SumOver(DOMAIN voters, LAMBDA v : Whole(voters[v].unclaimed))
        + WholeUp(decimals)

RewardRecord == {r \in [accumulated : Nat, unclaimed : Nat] : r.unclaimed <= r.accumulated}

IsVoterRecord(r) ==
  /\ r = [accumulated |-> r.accumulated, unclaimed |-> r.unclaimed, parts |-> r.parts]
  /\ [accumulated |-> r.accumulated, unclaimed |-> r.unclaimed] \in RewardRecord
  /\ IsMap(r.parts, Node) /\ \A n \in DOMAIN r.parts : r.parts[n] \in RewardRecord

\* What is no longer unclaimed has been paid, in whole tokens.
InTokens(r) == (r.accumulated - r.unclaimed) % Precision = 0

\* The parts of a voter's record add up to it: everything he was given, and, but
\* for the fraction a claim leaves, everything he has not claimed.
AddsUp(r) ==
  /\ r.accumulated = SumOver(DOMAIN r.parts, LAMBDA n : r.parts[n].accumulated)
  /\ r.unclaimed - SumOver(DOMAIN r.parts, LAMBDA n : r.parts[n].unclaimed)
       \in 0 .. Precision - 1

\* The earlier chain ran the same contract.
ASSUME OldRecordsAssumption ==
  /\ OldNodeRecords \subseteq [Node -> {r \in RewardRecord : InTokens(r)}]
  /\ \A rec \in OldVoterRecords :
       /\ IsMap(rec, Voter) /\ DOMAIN rec = Voter
       /\ \A v \in Voter : IsVoterRecord(rec[v]) /\ InTokens(rec[v]) /\ AddsUp(rec[v])

PaidBefore(r) == Whole(r.accumulated - r.unclaimed)

RecordsAt(rec, S, t) == [a \in Accounts(S, t) |-> rec[a]]

Init ==
  /\ votes \in {f \in [Voter -> UNION {VotesHeld[v] : v \in Voter}] :
                  \A v \in Voter : f[v] \in VotesHeld[v]}
  /\ node_rec \in OldNodeRecords
  /\ voter_rec \in OldVoterRecords
  /\ rounds = 0
  /\ granted = [n \in Node |-> node_rec[n].accumulated]
  /\ tasks = <<>>
  /\ transfers = {}
  /\ calls = {}
  /\ balance = [t \in Table |-> SetupTokens(RecordsAt(node_rec, Node, t),
                                            RecordsAt(voter_rec, Voter, t))]
  /\ node_paid = [n \in Node |-> PaidBefore(node_rec[n])]
  /\ voter_paid = [v \in Voter |-> PaidBefore(voter_rec[v])]

Reward == \E given \in GivenRewards : reward(given)
Receive == (\E x \in transfers : ReceiveTransfer(x)) \/ (\E c \in calls : ReceiveCall(c))
Claim == (\E n \in Node : claimNodeReward(n)) \/ (\E v \in Voter : claimVoterDividend(v))
ChangeVotes == \E v \in Voter : \E m \in VotesHeld[v] : Revote(v, m)

Next == Reward \/ execute_task \/ Receive \/ Claim \/ ChangeVotes

Spec == Init /\ [][Next]_vars

\* The timer goes off again and again; what is sent is carried until executed.
FairSpec == Spec /\ WF_vars(execute_task) /\ WF_vars(Receive)

-----------------------------------------------------------------------------
(***************************************************************************)
(* Properties.                                                             *)
(***************************************************************************)
TransferTask ==
  [action : {"transfer"}, round : 1 .. rounds, to : Table \cup {Community}, amount : Nat]

IsCall(c) ==
  /\ c = Call(c.action, c.round, c.to, c.rewards)
  /\ c.action \in {"recv_node_reward", "recv_voter_dividend_reward"}
  /\ c.round \in 1 .. rounds /\ c.to \in Table
  /\ IsRewards(c.rewards, Node)

TypeOK ==
  /\ rounds \in 0 .. MaxRounds
  /\ granted \in [Node -> Nat]
  /\ \A i \in DOMAIN tasks : /\ tasks[i] \in TransferTask \/ IsCall(tasks[i])
                             /\ tasks[i].round = rounds
  /\ transfers \subseteq TransferTask
  /\ \A c \in calls : IsCall(c)
  /\ IsMap(votes, Voter) /\ DOMAIN votes = Voter
  /\ \A v \in Voter : votes[v] \in VotesHeld[v]
  /\ balance \in [Table -> Int]
  /\ node_rec \in [Node -> RewardRecord]
  /\ IsMap(voter_rec, Voter) /\ DOMAIN voter_rec = Voter
  /\ \A v \in Voter : IsVoterRecord(voter_rec[v])
  /\ node_paid \in [Node -> Nat]
  /\ voter_paid \in [Voter -> Nat]

(***************************************************************************)
(* The claiming contract of a table never owes more than it has or is sure *)
(* to get: what its accounts have not claimed and what calls still on      *)
(* their way will add is covered by its tokens and the transfers still on  *)
(* their way.  Totals are rounded up once per table and round, parts       *)
(* rounded down many times, votes change between computing a dividend and  *)
(* dividing it, and setup() rounds once for all old records.               *)
(***************************************************************************)
TasksPending == {tasks[i] : i \in DOMAIN tasks}

Coming(t) == {x \in transfers \cup TasksPending : IsTransfer(x) /\ x.to = t}

Unrecorded(t) == {c \in calls \cup TasksPending : ~ IsTransfer(c) /\ c.to = t}

\* What calls carry, altogether and to a node, and what transfers do.
Carried(C) == SumOver(C, LAMBDA c : Total(c.rewards))
CarriedTo(C, n) == SumOver(C, LAMBDA c : AmountOf(c.rewards, n))
TokensOf(X) == SumOver(X, LAMBDA x : x.amount)

Unclaimed(rec, A) == SumOver(A, LAMBDA a : rec[a].unclaimed)

Owed(t) ==
  Unclaimed(node_rec, Accounts(Node, t)) + Unclaimed(voter_rec, Accounts(Voter, t))
    + Carried(Unrecorded(t))

Solvent == \A t \in Table : Owed(t) <= Precision * (balance[t] + TokensOf(Coming(t)))

(***************************************************************************)
(* The parts of every voter's record go on adding up to it.                *)
(***************************************************************************)
PartsAddUp ==
  \A v \in Voter : AddsUp(voter_rec[v])

(***************************************************************************)
(* Whatever is computed for a node is recorded exactly once: a list that   *)
(* is cut into several rounds, and calls that overtake each other, lose no *)
(* reward and record none twice.                                           *)
(***************************************************************************)
ToNodes == {c \in calls \cup TasksPending : c.action = "recv_node_reward"}

RecordedOnce == \A n \in Node : granted[n] = node_rec[n].accumulated + CarriedTo(ToNodes, n)

\* The records of nodes and of voters hold what the rounds gave, once, through
\* every mixture of new rewards, changed votes and claims.
RecordsAddUp == PartsAddUp /\ RecordedOnce

(***************************************************************************)
(* Every round is carried out: in the end none of its tasks is left and    *)
(* nothing of it is on its way.                                            *)
(***************************************************************************)
Open(r) == \E x \in transfers \cup calls \cup TasksPending : x.round = r

RoundsAreCarriedOut == \A r \in 1 .. MaxRounds : Open(r) ~> ~ Open(r)

(***************************************************************************)
(* Nodes and voters are paid as module Payments promises: all that is      *)
(* whole when they claim, and nothing twice.                               *)
(***************************************************************************)
NodePayments == INSTANCE Payments WITH
  Account <- Node, paid <- node_paid,
  entitled <- [n \in Node |-> node_rec[n].accumulated]

VoterPayments == INSTANCE Payments WITH
  Account <- Voter, paid <- voter_paid,
  entitled <- [v \in Voter |-> voter_rec[v].accumulated]

PaidOnce == NodePayments!Spec /\ VoterPayments!Spec
=============================================================================
