--------------------------- MODULE RewardDispatch ---------------------------
(***************************************************************************)
(* How the reward contract of ZEC (xzec_reward_contract.cpp) turns the     *)
(* rewards it has computed into tasks.  A task is a TRANSFER of whole      *)
(* tokens, or a CALL that tells a table's claiming contract which account  *)
(* has earned how much, in fractions of a token.  Tasks are kept in the    *)
(* order of their numbers.                                                 *)
(*                                                                         *)
(* Rewards per account, per table and so on are maps to fractions.         *)
(***************************************************************************)
EXTENDS Integers, FiniteSets, SequencesExt

CONSTANTS
  Precision,     \* REWARD_PRECISION: fractions to a token
  TaskLimit,     \* task_limit: accounts in one call
  TasksPerRound  \* task_num_per_round

ASSUME DispatchAssumption ==
  /\ Precision \in Nat \ {0}
  /\ TaskLimit \in Nat \ {0}
  /\ TasksPerRound \in Nat \ {0}

SumOver(S, f(_)) == SumFunctionOnSet([x \in S |-> f(x)], S)

Total(m) == SumOver(DOMAIN m, LAMBDA x : m[x])

AmountOf(m, x) == IF x \in DOMAIN m THEN m[x] ELSE 0

Whole(x) == x \div Precision

\* A table's total is rounded up.
WholeUp(x) == IF x % Precision # 0 THEN Whole(x) + 1 ELSE Whole(x)

\* The address of the TCC contract, which gets the community's share.
Community == "tcc"

Transfer(round, to, amount) ==
  [action |-> "transfer", round |-> round, to |-> to, amount |-> amount]

Call(action, round, to, rewards) ==
  [action |-> action, round |-> round, to |-> to, rewards |-> rewards]

\* The entries of a map in key order, TaskLimit to a call; keys are numbers.
RankIn(n, S) == Cardinality({k \in S : k < n})

ChunkOf(n, S) == {k \in S : RankIn(k, S) \div TaskLimit = RankIn(n, S) \div TaskLimit}

Chunks(m) == {[k \in ChunkOf(n, DOMAIN m) |-> m[k]] : n \in DOMAIN m}

CallsOf(action, round, rewards) ==
  SetToSeq(UNION {{Call(action, round, t, c) : c \in Chunks(rewards[t])} : t \in DOMAIN rewards})

\* calc_table_rewards: what the calls will give at table t.
TableTotal(node_rewards, dividends, t) ==
  (IF t \in DOMAIN node_rewards THEN Total(node_rewards[t]) ELSE 0)
    + (IF t \in DOMAIN dividends THEN Total(dividends[t]) ELSE 0)

\* slip: a table's total is rounded down, as the community's share is
TransfersDown(round, node_rewards, dividends) ==
  SetToSeq({Transfer(round, t, Whole(TableTotal(node_rewards, dividends, t))) :
              t \in DOMAIN node_rewards \cup DOMAIN dividends})

Transfers(round, node_rewards, dividends) ==
  SetToSeq({Transfer(round, t, WholeUp(TableTotal(node_rewards, dividends, t))) :
              t \in DOMAIN node_rewards \cup DOMAIN dividends})

\* dispatch_all_reward_v3: both maps go from a table to rewards by account.
dispatch_all_reward(round, node_rewards, dividends, community) ==
  Transfers(round, node_rewards, dividends)
    \o (IF Whole(community) > 0 THEN <<Transfer(round, Community, Whole(community))>> ELSE <<>>)
    \o CallsOf("recv_node_reward", round, node_rewards)
    \o CallsOf("recv_voter_dividend_reward", round, dividends)

\* execute_task: what one timer round takes from the front.
\* slip: a round is carried out only when it is full
FullRound(tasks) == IF Len(tasks) < TasksPerRound THEN 0 ELSE TasksPerRound

RoundLength(tasks) == IF Len(tasks) < TasksPerRound THEN Len(tasks) ELSE TasksPerRound

Executed(tasks) == {tasks[i] : i \in 1 .. RoundLength(tasks)}

Remaining(tasks) == SubSeq(tasks, RoundLength(tasks) + 1, Len(tasks))
=============================================================================
