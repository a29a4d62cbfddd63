# TLA+ verification of the xvm system contracts

`xvm` is the part of a sharded proof-of-stake chain that executes contracts. Most of its
code is about a dozen *system contracts* written in C++: they register nodes, count votes
for them, elect them, watch how they sign, punish and reward them, and let a committee
change the chain's parameters. This directory holds TLA+ models of those contracts, the
TLC runs that check the models, and proofs checked by TLAPS. Paths below are relative to
the repository; contract sources without a directory are in `xsystem_contracts/src/`.

Contents: [the system](#the-system), [how the models are built](#how-the-models-are-built),
[modules](#modules), [runs and bounds](#runs-and-bounds), [fairness](#fairness),
[proofs](#proofs), [disagreements found](#disagreements-between-code-and-text),
[not modelled](#not-modelled), [plan](#plan).

## The system

Every system contract is an account with properties (strings, maps, lists), a balance, and
methods called by transactions. One call runs alone on its account and either commits all
its changes or, if it fails an `XCONTRACT_ENSURE` or throws, none. What makes the system
hard is what lies between the calls: contracts live on different chains (one *table* per
group of accounts, one *ZEC* chain, one beacon chain, *REC*), and `CALL` only sends a
transaction that is executed on the other chain some time later, in any order relative to
others. `TRANSFER` pays tokens from the contract's account; its result is not looked at.
Contracts of other chains are read at the height last synchronised, so what is read may be
old. A timer calls some contracts; the *role context* makes those calls, from every node
that holds the role, so calls repeat, overlap or are lost.

| component | state it keeps | operations | talks to | hard because | correct if |
|---|---|---|---|---|---|
| TCC governance, `xrec_proposal_contract.cpp` | parameters, proposals, ballots, last id, the last adopted proposal | submitProposal, withdrawProposal, tccVote; each ends by sweeping expired proposals | reads the committee from the running configuration; TRANSFER of deposits and grants | two maps that must agree, five paths that end a proposal, votes after expiry, a committee that changes while votes are counted | deposit back exactly once; no change without a mandate; ballots final |
| Votes, `xtable_vote_contract.cpp`, `xzec_vote_contract.cpp`, part of `xrec_registration_contract.cpp` | per table: votes by voter, totals by node, time of last report; at ZEC and REC: a tally per table and its time; at REC: a vote amount per node | voteNode, unvoteNode; on_receive_shard_votes_v2, update_batch_stake_v2 | batches from a table to ZEC and REC; the table reads REC's registrations; ZEC reads REC's activation | batches in any order, several reports under way, ZEC drops batches before activation | a tally is one report's, whole in the end; amounts are the tallies' sums |
| Registration, `xrec_registration_contract.cpp` | node infos, refunds, slash infos, activation | register, unregister, redeem, five updates, slash_unqualified_node | called by accounts and by the slash contract; its state is read by most others | tokens and records move separately; clocks of refunds, locks and rates run across leaving and coming back | records backed by tokens; minimum deposit; locks served |
| Table statistics, `xtable_statistic_info_collection_contract.cpp` | signatures, workload and pledged TGAS since the last report; last full block height | on_collect_statistic_info, report_summarized_statistic_info | reports to the slash and workload contracts | the same block's call comes several times or not at all | no block counted twice, nothing lost on the way |
| Slash, `xzec_slash_info_contract.cpp` | summed signatures, number of table blocks, heights, time of the last round | summarize_slash_info, do_unqualified_node_slash | sends decisions to registration | late and reordered reports, removal of the old sum delayed to the next timer | a block is judged once; rounds apart; fair ranking |
| Workload, `xzec_workload_contract_v2.cpp` | workload and TGAS received | on_receive_workload, on_timer | sends workload to the reward contract | clear and upload between receipts | work conserved |
| Reward, `xzec_reward_contract.cpp` | workload, accumulated issuance, tasks | on_timer, on_receive_workload, execute_task | reads registration and the votes; TRANSFERs and CALLs to the claiming contracts | dispatch spread over many rounds, integer divisions, years | nothing issued twice or beyond the issuance |
| Claiming, `xtable_reward_claiming_contract.cpp` | rewards per node and per voter | recvNodeReward, recvVoterDividendReward, claimNodeReward, claimVoterDividend | reads its table's votes when a dividend arrives | dividends divided by votes that have changed since | claims never exceed what came in |
| Standby pools, `xrec_standby_pool_contract.cpp`, `xzec_standby_pool_contract.cpp` | nodes listed with their roles, the activation; ZEC's read height | nodeJoinNetwork, nodeJoinNetwork2, on_timer | reads registration; elections read it | the pool lags behind registration, ZEC behind the pool; the activation is recorded only if nothing else changes | who has left is taken off the pool and the groups; the activation arrives, and before it only seeds are elected |
| Elections of ZEC, `xzec_elect_consensus_group_contract.cpp`, `xelect_consensus_group_contract.cpp`, `xelect_group_contract.cpp`, `xzec_group_association_contract.cpp` | the groups of auditors and validators | on_timer: genesis election, then the rotation of clusters | reads ZEC's read height and REC's pool at it | clusters elected one after the other in one call, any group of which may fail; unsigned arithmetic of sizes and times | the rules of xelection/README.md; rotation within limits; genesis whole or nothing |
| Elections of REC, `xrec_elect_*_contract.cpp`, `xelect_nonconsensus_group_contract.cpp` | the groups rec, zec, archive, exchange, edge, fullnode | on_timer | reads the pool | late calls are refused | no group larger than governance allows; leavers leave |
| Role context and vnodes, `manager/xrole_context.cpp`, `manager/xcontract_manager.cpp` | the latest timer round, a schedule of tables per role context | do_on_block, do_new_vnode, do_destory_vnode | calls the contracts above | equality tests on counters, counters lost with every new vnode, calls that exclude each other | every table gets its turn, one after the other |
| Deployment and reads in the contract manager, base classes, Lua engine, `manager/xcontract_manager.cpp`, `xcontract/`, `xlua_engine.cpp` | registry of contracts | deploy, dispatch, JSON reads | everything | little: sequential | - |

`PROJECT.json` lists all components with their files, and under `hazards` each place where
the code meets one of the difficulties above, with the properties that cover it.

## How the models are built

* A contract method is one action: all its changes happen in the step, a call that fails is
  no step (or, for an asynchronous call, a step that only uses up the call). Guards are the
  code's conditions and assertions.
* `CALL` puts a message into the variable `calls`; delivery picks any message. `TRANSFER`
  changes the balances the model keeps, or counts the payment.
* Accounts, nodes and tables are model values or small numbers; a list of addresses is a set.
* The logic clock is the variable `time`; `Tick` advances it up to `MaxTime`. Bounds on
  counters are constants named `Max...`; apart from them the numbers are unbounded, that is,
  the 32 and 64 bit counters of the code are assumed not to wrap.
* Variables marked *history* record the past for the properties and never influence a step.
* A definition marked *slip* is a plausible mistake in the definition that follows it. The
  mutants of `PROJECT.json` put it in that one's place and the property named there fails:
  this shows that each property depends on the code it is about.

## Modules

### Proposal (`xrec_proposal_contract.cpp`)

| code | module |
|---|---|
| `ONCHAIN_PARAMS`, `SYSTEM_GENERATED_ID`, `PROPOSAL_MAP_ID`, `VOTE_MAP_ID`, `CURRENT_VOTED_PROPOSAL` | `params`, `last_id`, `proposals`, `votes`, `current_voted_proposal` |
| the TRANSFERs of deposits and grants | `refunds`, `grants`, counted by proposal |
| `XGET_ONCHAIN_GOVERNANCE_PARAMETER(tcc_member)` | `committee`, which `LoadConfig` sets some time after an adoption |
| `submitProposal`, `withdrawProposal`, `tccVote` | actions of the same names; `Adopt`, `Reject`, `KeepOpen` are the three ends of `tccVote` |
| `delete_expired_proposal`, the last call of every handler | `delete_expired_proposal`, conjoined to every action |

All proposals have priority critical in the code (`submitProposal` sets it), so the other
branches of `tccVote` are dead and left out. The thresholds are floating-point comparisons;
the model has the exact rational ones, which agree for any committee of realistic size.

Properties: `BallotsMatchProposals`, `DepositRefundedOnce`, `AdoptedIsSettled` (its parts
`GrantOnlyWhenSettled` and `CurrentVotedIsInForce`), `BallotsAreFinal`, `MandateOfMembers` and
`NothingDecidedStaysOpen`; `SweptAfterEveryCall` is proved and not run. When the committee is replaced in the middle of a vote, ballots of
former members count against the size of the new committee: `MandateOfMembers` says nothing
about a proposal with such ballots, and `NothingDecidedStaysOpen` is checked in the run in
which the committee is not replaced (a proposal on which more have voted than the new
committee has members stays open until it expires). The comment at line 220, which says the
voter is checked against the *initial* committee, is not what the code does.

### VoteReport and Publication (`xtable_vote_contract.cpp`, `xzec_vote_contract.cpp`, `xrec_registration_contract.cpp`)

| code | module |
|---|---|
| `VOTES_KEY1..4`, `POLLABLE_KEY`, `TIME_KEY` of each table | `votes`, `pollable`, `report_time` |
| batches of `split_and_report` on their way | `calls`, a set: the batches of a report differ in content |
| `TICKETS_KEY` and `VOTE_REPORT_TIME_KEY` at both receivers | `tickets`, `tickets_time`, indexed by `"rec"` and `"zec"` |
| `m_vote_amount` of registered nodes, activation | `nodes`, `activation`; `zec_since` is ZEC's copy |

Properties: `ReportArrivesWhole`, `TotalsAreSums` (a table's totals are
the sums of its votes, `PollableIsSumOfVotes`, and a node's vote amount is the sum of the
tallies, `VoteAmountIsTally`), the liveness property `ReportsReachRec`, and
`TalliesFollowReports`: VoteReport implements the abstract module `Publication`. There a
publisher issues dated editions of a list and a reader holds part of one edition, which it
gives up only for more of the same or for part of a later one; batches, their order and their
loss do not exist in it. A table is a publisher, its tickets of a report are an edition, and
REC's and ZEC's tallies are what the readers hold. The invariant `TallyOfOneReport`, that a
tally is of the one report it is dated with, follows from it; it is proved and not run. A table reads REC's
registrations when somebody votes; the model reads the present ones, the code a synchronised
copy. What a table accepts votes for does not matter to these properties.

### Registration (`xrec_registration_contract.cpp`)

| code | module |
|---|---|
| `REG_KEY`, `REFUND_KEY`, `SLASH_INFO_KEY`, genesis stage | `reg`, `refund`, `slash`, `activation` |
| balance of the contract, balances of accounts | `balance`, `wallet` |
| `registerNode2`, `unregisterNode`, `redeemNodeDeposit`, `updateNodeInfo` (two actions, by update type), `setDividendRatio`, `updateNodeType`, `stakeDeposit`, `unstakeDeposit` | actions of these names |
| `slash_unqualified_node`, `slash_staking_time` | the same; a call names the nodes punished as auditors and those punished as validators, and a node in both lists is punished twice |

Properties: `DepositsBacked`, `DepositAboveMinimum`, `LockServed`, `RefundWaits`, `RateHeld`.
`DepositsBacked` has a term `stray`: tokens sent along with an `updateNodeInfo` that pays
part of the deposit back are taken and recorded nowhere (line 389). A node that leaves and
comes back starts its dividend interval afresh; `RateHeld` is about nodes that stay.

### Statistics (four contracts)

| code | module |
|---|---|
| table: `FULLTABLE_HEIGHT`, `FULLTABLE_NUM`, `UNQUALIFIED_NODE`, `CONTRACT_WORKLOAD`, `TGAS` | `fulltable_height`, `fulltable_num`, `unqualified`, `table_work`, `table_tgas` |
| slash: `UNQUALIFIED_NODE`, `TABLEBLOCK_NUM`, summarized heights, `SLASH_DELETE_PROPERTY`, `LAST_SLASH_TIME` | `info`, `tableblock_num`, `summarized`, `slash_delete`, `last_slash_time` |
| workload: `CONTRACT_WORKLOAD`, `TGAS`; reward: workload | `zec_work`, `zec_tgas`; `reward_work` |
| calls on their way | `calls`, a bag: two equal reports are two calls |

Counts of signatures and work are bags over (role, node). Full blocks and what is in them are
the environment (`Produce`); their collection may be called repeatedly, late or never.
Tables and nodes are finite sets, as sums over them are taken. Groups are abstracted to their role: the code keeps signatures and rankings per role too,
and workload per group, which only matters to the reward calculation.

Properties: `SignaturesCountOnce` (every sum of signatures, in a contract or on its way, is
that of certain blocks, and no block is in two of them), `SlashRounds` (rounds lie apart and
judge by different blocks, and nobody is judged more harshly than a node that signed less) and `WorkloadConserved` (work and pledged TGAS). A report that is overtaken by a later one of its table
is dropped although the later one's height counts its blocks (slash contract, lines 129 and
151); the history variables say which blocks' signatures are in the sum, so the properties
hold of what is there.

### Reward and RewardDispatch (`xzec_reward_contract.cpp`)

`RewardDispatch` holds, without variables, how computed rewards become tasks and how tasks
are taken from the front; `Reward` and `Claiming` both extend it.

| code | module Reward |
|---|---|
| `WORKLOAD_KEY`, `VALIDATOR_WORKLOAD_KEY`, `TASK_KEY`, `REWARD_DETAIL` | `work`, `tasks` (a sequence in the order of the keys), `detail` |
| `LAST_READ_REC_REG_CONTRACT_...`, `ACCUMULATED_ISSUANCE`, `..._YEARLY` | `read`, `issued`, `record` |
| registrations by height on REC, tallies of ZEC's vote contract, activation | `registry`, `tickets`, `activation`: external, they change at any time |
| `on_timer` with `execute_task`, `reward`, `update_reg_contract_read_status` | the same; one timer call does one of the three |
| `calc_issuance_internal`, `calc_nodes_rewards_v5` and what it calls, `calc_table_rewards` | operators: `calc_issuance`, `Earned` and its parts, `CommunityReward`, `NodeRewards`, `DividendRewards` |

Rewards are integers in fractions of a token and every division rounds down, as in the code.
What the other contracts hold is assumed to be of its types (`InputAssumption`): deposits,
votes and work are unsigned, and the registration contract accepts no dividend ratio above
100, so that no difference of the unsigned amounts falls below zero (`TypeOK`). The TCC
contract, which gets the community's share, is no table. The order in which the entries of one list become tasks is that of
`SetToSeq`, not of the addresses.

Properties: `IssuanceIsSpent`: a round gives out what it issues, up to the fractions lost at
divisions (`PotsAreSpent`; with no group of auditors or validators reported, nobody gets
their pot), and the accumulated issuance is what was transferred (`IssuanceIsTransferred`);
`IssuanceFollowsSchedule`: issuance depends on time alone, not on when rounds happen, across
ends of years.

### Claiming and Payments (`xtable_reward_claiming_contract.cpp`)

| code | module Claiming |
|---|---|
| the reward contract's tasks | `tasks`; how rewards are computed is left to module Reward, a round gives any of `GivenRewards` |
| what `execute_task` sends | `transfers`, `calls`, delivered in any order |
| `VOTES_KEY` of the table's vote contract | `votes`; `POLLABLE_KEY` is their sum, by `PollableIsSumOfVotes` of VoteReport |
| `NODE_REWARD_KEY`, `VOTER_DIVIDEND_REWARD_KEY` | `node_rec`, `voter_rec` with a part for every node voted for |
| tokens of the contract; TRANSFERs to claimants | `balance`, which may be below 0 for tokens asked for before they arrive; `node_paid`, `voter_paid` |
| `setup()` with the records of an earlier chain | `Init`; `DecimalsWidth` is the width of its sum of fractions, 32 bits in the code |

`min_node_reward` is compared with tokens, `min_voter_dividend` with fractions, as in the
code. A claim whose whole part is 0 sends nothing (`TRANSFER` ignores 0).

Properties: `Solvent` (what a table owes, in records and in calls to come, is covered by its
tokens and the transfers to come), `RecordsAddUp` (a voter's accumulated dividend is the sum
of its parts, and a node's record is all it was ever given, less what is still on its way),
the liveness property
`RoundsAreCarriedOut`, and `PaidOnce`: Claiming implements module `Payments`, once for nodes
and once for voters. `Payments` is the abstract ledger of the promise: entitlements only
grow, and a claim pays everything whole that is due, so nothing twice. `PaidOnce` counts the
TRANSFERs asked for. Between a call that overtakes its transfer and that transfer, a
claimant may ask for tokens the table has not got; `Solvent` says they are on their way, and
what the account layer does with the TRANSFER is outside of this repository.

### Rotation (`xelect_consensus_group_contract.cpp`)

Every committee (rec, zec, auditors, validators) is elected by `elect_group`. The module has
no variables: `elect_group(cluster, group, pool, range)` is the set of groups an election may
end in, empty if it fails.

| code | module |
|---|---|
| `calculate_rotation_count`, the numbers of `do_normal_election` | `calculate_rotation_count`, `RotationLimit`, `ElectInCount`, `ElectOutCount` |
| members not in the standby pool, who are asked to leave | `Dismissed` |
| `do_normal_election`, `do_shrink_election`, `elect_group` | the same |
| the draw by stake (`normalize_stake`, the Merkle-tree sampling) | an arbitrary choice: no weight is 0, so anybody may be drawn |

`CountsSound` says of the numbers what the code's assertions and its unsigned subtractions
need, `RotationSound` what an election may do to a group. A group below its minimum is an
exception that the code allows: it fills up what was missing, but dismisses members in the
same election, and may end below the minimum again.

### Elections and ClusterElections (`xzec_elect_consensus_group_contract.cpp`, `xzec_group_association_contract.cpp`, `xzec_standby_pool_contract.cpp`)

| code | module |
|---|---|
| blocks of REC's standby pool | `pools`, what it lists at each height: the environment, `PoolChanges` |
| ZEC's read height and time | `read`, `standby_on_timer` |
| sizes of groups, a governance parameter | `sizes`, `SetSizes` |
| `XPROPERTY_CONTRACT_ELECTION_EXECUTED_KEY`, the results of all clusters | `executed`, `groups` |
| the local variables of a call of `on_timer` | `pc`, `args`, `due`, `todo`, `rotated`, `success`, `mem`, `written` |
| `on_timer`, `elect_auditor`, `elect_validator`, the loop over clusters | `on_timer`, `elect_auditor`, `elect_validator`, `end_cluster`, `end_call` |
| `get_group_association`: which auditors go with which validators | `AuditorOf`, `Associated` |

A call is one transaction, and nobody sees its groups before its end; it is modelled as one
step per group because what each group may be elected from depends on those before. Times
carry the unsigned differences of the code: a call dated before a group's last election finds
it overdue.

Properties: `ElectionsSound`, `RotationBounded` and `CallsElectClusters`: Elections
implements the abstract module `ClusterElections`, in which an election takes a set of
clusters, all of them the first time and at most `MaxRotated` later, and in one step changes
every group of these and no other. In the code a call looks at clusters one by one, counts
versions up before it knows whether an election succeeds, and drops or writes a cluster's
store depending on what its groups did. Three invariants follow from this refinement, and are
proved and not run: `ClustersApart` (the rules of xelection/README.md), `GenesisWhole` (the
genesis election elects every group or none) and `ClusterMovesTogether` (validators name the
version of their auditors and have their date).

### RoleContext and StandbyPool (`manager/`, `xrec_standby_pool_contract.cpp`, `xrec_elect_*_contract.cpp`)

`RoleContext` has the part common to all contracts: when a node calls them. `StandbyPool`
extends it by what the calls do on REC.

| code | module |
|---|---|
| blocks of the timer, `m_latest_timer` | `round` (modulo `Cycle`), `seen`; `TimerBlock`, `do_on_block` |
| `table_statistic_report_schedule_interval` | `schedule`, `SetSchedule` |
| role contexts with their `m_table_contract_schedule` | `contexts`: the count of each live one, modulo `ScheduleRange` (16 bits in the code); `called` is the last `cur_table` |
| `do_new_vnode`, `do_destory_vnode`, `add_to_map` | the same; a new vnode's role context replaces the one of the same group |
| calls sent and not executed | `calls`: their ages; calls made from one view of the account carry the same number and exclude each other (`Execute`) |
| `runtime_stand_alone` of election contracts without a block | `StandAlone`, `started` |
| registrations, the activation record | `reg`, `active`, in short: external to the pool |
| `XPROPERTY_CONTRACT_STANDBYS_KEY` | `standbys`, `activated` |
| the seeds that `setup()` lists, with which roles | `SeedRoles`, `PoolInit` |
| `nodeJoinNetwork2`, `on_timer` with `update_standby_result_store` | `nodeJoinNetwork2`, `rec_standby_on_timer` |
| `on_timer` of the election contracts, their groups | `elect_on_timer`, `rec_groups`; `elect_nonconsensus`, `elect_committee` |

The history variable `steady` says that since the last turn there has been one role context,
which has had every round's block under one schedule.

Properties: `PoolTypeOK`, which includes that no group exceeds its maximum;
`SeedsUntilActive`: until the network is active the groups are made of seeds, whoever has
registered, joined and is listed (the pool's record of the activation, which lags behind the
activation itself, is what the elections go by); `TurnsInOrder`: from one turn of a role
context to its next the tables are called one after the other, while it is steady (the time of
a turn comes from the context's count, the table from the timer's height); and three
liveness properties: `TablesTakeTurns`, `LeaversLeave`, `ActivationArrives`. `LeaversLeave` has a
condition: the archive group must be offered at least its minimum of other nodes; without
them it keeps its last members, whoever they are.

## Runs and bounds

| run | distinct states | what is small, and why that is enough |
|---|---|---|
| `proposal_books` | 261,004 | committee of 3, an outsider, 2 proposals of 8 requests covering all types, one of them a new committee of 2 members, one new; 4 instants: two proposals are what one call can touch (its own and one that it sweeps) |
| `proposal_six` | 9,992 | 6 members, 1 proposal: the least size at which two thirds can stand against a no (1/6 < 1/5) |
| `vote_batches` | 84,354 | 1 table, 3 nodes, batches of 2, so full and incomplete ones; 2 reports under way at once, to both receivers |
| `vote_tables` | 1,118,300 | 2 tables, one with 2 voters, 1 node that comes and goes and activates the network, 4 instants |
| `registration` | 544,035 | 1 account (accounts share nothing but the contract's balance), 2 types, amounts 0 to 2 of 3 tokens, 7 instants with intervals of 2 and locks of 2 up to 3, so that a lock or refund can be caught by another before and after its end; punished in one role, the other, or both |
| `statistics` | 922,570 | 2 tables, 2 full blocks each, 2 nodes, one in both roles; a block with work and one that only changes the pledge; rounds after 3 of 4 table blocks, shares of one half, so ties and strict orders occur |
| `claims` | 201,844 | 1 table (tables share nothing), 2 nodes, 2 voters, one of whom votes for one node, then for both; 2 rounds of two kinds, 4 fractions to a token, 3 tasks in a timer round and one entry in a call, so that a round takes several; old records, claimed before or not |
| `reward` | 490,318 | 3 nodes with every role, 2 registries (all valid; nobody for edge and archive, a validator without deposit), 2 tallies, one report of 3 groups, one idle; years of 4 clocks and rounds at least 2 apart in 9 instants, so that rounds follow each other within a year and cross one or two of its ends; minimum issuance in the second year |
| `elections` | 1,055,864 | 2 clusters of an auditor and a validator group, 5 nodes; a pool that suffices for both and one that does not, 3 heights of it; 2 assignments of sizes, the change between which leaves auditor groups too large and validator groups too small; one rotated cluster per call; 3 instants, which with half an interval of patience and a wave of two suffice for a rotation in time and for one by a late call |
| `timers` | 143,632 | the pool with the archive and exchange groups (one with a minimum, one without) or with REC, of 1 to 2 of 2 nodes, one of them a seed; or the statistics contract of 2 tables with 2 vnodes, schedules of 1 and 2 and a count modulo 4, so that it wraps |

In all but `claims` and `timers` the clock stops at `MaxTime` and ids or blocks run out, so
these runs do not check for deadlock; in `claims` the voters can always change their votes,
and in `timers` rounds are counted modulo `Cycle`, a multiple of every interval, so that the
run has no end. Symmetry is not used: the instances name their values. Two runs more,
`vote_abolish` and `stat_late`, end in a counterexample
([below](#disagreements-between-code-and-text)).

## Fairness

`FairSpec` of VoteReport assumes `WF_vars(Receive)`, some call on its way is
executed as long as there is one. The chain relays a transaction between chains until the
receiver has confirmed it, and since `calls` is finite and the clock stops, executing some
call again and again executes all. Nothing is assumed of voters, of the clock or of ZEC's
synchronisation. `ReportsReachRec` says that REC's tally then comes to be dated with the
report or a later one.

`FairSpec` of Claiming assumes `WF_vars(Receive)`, for the same reason, and
`WF_vars(execute_task)`: the role context calls the reward contract's timer again and again,
and as long as there are tasks the timer does nothing else. Of claims, votes and new rounds
nothing is assumed. `RoundsAreCarriedOut` says that every task of a round is then sent and
what was sent arrives.

`FairSpec` of StandbyPool assumes `WF_allVars` of `TimerBlock` and of `do_on_block` (the chain's timer
goes on, and a node gets its blocks) and, for every contract, `SF_allVars(OnTime(c))`: a call
that is made again and again is executed again and again, and in time where the contract
refuses late ones. It has to be strong fairness, as a call may expire before it is executed;
the chain's consensus executes what it can in the order it comes, and a call that has missed
its time is made anew in a later round. What does not follow from the code, that a node is
elected, gets every round's block and finds the schedule unchanged from some time on, is no
assumption of the specification but the hypothesis `Regular` of the properties.

No other liveness property is stated: the remaining contracts act on calls the code does not
guarantee (a table reports its last votes only along with another vote).

## Proofs

Eight modules of proofs, all checked by `tlapm` from nothing: `ProposalProofs`,
`RegistrationProofs`, `VoteReportProofs`, `StatisticsProofs`, `RewardProofs`,
`ClaimingProofs`, `ElectionProofs`, and `SumProofs` with the arithmetic of sums, lists and
shares that the others use. Every theorem holds for all values of the constants: all sets of accounts,
nodes and tables (finite where the module assumes it), any amounts, intervals, widths and
bounds. They rest on the `ASSUME`s of the modules, which say what the constants are, and on
three hypotheses more, each written out in the theorem that needs it:

| hypothesis | theorem | why it is needed |
|---|---|---|
| `CommitteeStays` | `NothingDecidedEverStaysOpen` | a smaller committee makes old ballots decisive without anybody voting |
| `FractionsFit` | `AlwaysSolvent` | `setup` adds the fractions of old records up in 32 bits (`xtable_reward_claiming_contract.cpp:26`); if they overflow, tokens are missing from the start |
| `SharesApart` | `SlashRoundsAlways` | governance parameters can make the same node one of the worst and one of the best; their defaults are not in this repository |

**SumProofs.** A sum is the library's `SumFunctionOnSet`, a fold. What a fold does is
obtained by induction over the subsets of a finite set, with the property to be shown given
as the *set* of the subsets that have it, as no prover here can instantiate a theorem that
takes an operator. The facts used later: the empty and the one-element sum, adding and
removing an element, splitting by a subset, changing one value (`SumChange`), sums of equal
or smaller functions, sums of sums by rows and by columns (`SumSwap`). `CountingUp` is
induction over the naturals in the same form. `IsList` says that a sequence lists a set, each
element once, as `SetToSeq` does; lists can be put together and cut. `SharesOfWhole`: shares
of an amount in proportion to weights, each rounded down, make up at most the amount and at
least the amount less one per share.

**ProposalProofs** shows `TypeOK`, `BallotsMatchProposals`, `DepositRefundedOnce`,
`AdoptedIsSettled`, `SweptAfterEveryCall`, `BallotsAreFinal`, `MandateOfMembers` and
`NothingDecidedStaysOpen`; except for the last, the committee may be replaced at any time.
None of the invariants is inductive alone: that a refund is not paid twice depends on the
live proposals being among the ids given out and on every path that pays also removing; that
ballots match proposals depends on the maps being typed. The inductive invariant `IInv` is
`Books(last_id, proposals, votes, refunds) /\ Rest`. `Books` takes the four maps as
arguments because every action first changes them and then sweeps: the lemmas
`OpenKeepsBooks`, `KeepOpenKeepsBooks` and `SettleKeepsBooks` say that opening, voting on
and settling a proposal keep the books, one more lemma that the sweep does, and each action's
proof composes two of them. `Rest` says what grants, parameters and the last adopted proposal
have to do with each other. `ChangesHaveMandate` is about steps: only `tccVote` on its branch
that adopts changes a parameter or pays a grant (`MandateStep`), and the thresholds it
compares are those on the numbers of members, because the yes and no ballots are disjoint
subsets of the committee. `NothingDecidedEverStaysOpen` adds to `IInv` that all who have
voted are members (`Seated`), which is where a committee that stays is needed.

**RegistrationProofs** shows `TypeOK`, `DepositsBacked`, `DepositAboveMinimum`, `LockServed`,
`RefundWaits` and `RateHeld`. The last three are about steps, and each needs the contract's
records to agree with what happened before: a refund carries the time its owner last left
(`RefundDated`), a node info the last change of the rate since the node registered
(`RateDated`), and the lock on record (a length and the time it counts from) ends when the
lock that is due ends (`LockDated`). `IInv` is these three, `DepositAboveMinimum` and the
types of the records (`Typed`). Six handlers write a node info, each with a test of its own;
they all go through `PutKeepsIInv`, which says what such a write must satisfy. That a lock
computed anew from what is left of the old one ends in the right place is `RemainingIsUntil`
and `PunishedRecord`; that a second punishment in the same call finds all of the first one
left is `PunishedAgain`. The three action properties then follow from `IInv` and a lemma each
that says which handler alone removes a node, removes a refund, changes a rate.
`DepositsBacked` is a balance of sums (`Tokens`: the contract's balance is what is held, what
is due and what is stray); each handler writes one account's record, so each changes one
term of each sum, by what it adds to or takes from the balance. That the contract's balance
never falls below zero follows.

**VoteReportProofs** shows `TypeOK`, `TallyOfOneReport`, `ReportArrivesWhole`,
`TotalsAreSums` and `TalliesFollowReports`. `IInv` says of calls on their way that a batch carries entries of the very
report it is dated with, and some (`CallsAreOfReports`), and of the receivers that what one
has of the latest report together with what is on its way to it is all of that report
(`NoneLost`). With these a tally cannot mix reports: a batch of an older report finds the
receiver's time beyond its own, one of a newer report clears the tally. For the sums, a vote
changes one entry of a table's votes and of its totals; a batch of any number of nodes
changes the tally and every named node's vote amount by the same difference, the case of the
first batch of a report, which subtracts all of the old tally, included. `TalliesAlwaysFollow`
is the refinement of Publication: a report that is sent is an edition dated after all before
it, because tables report on a clock that has moved on; a batch that is taken makes the
receiver's tally grow within its report or exchanges it for part of a later one; every other
step, a batch that comes too late among them, is a stutter.

**StatisticsProofs** shows `TypeOK`, `SignaturesCountOnce`, `SlashRounds` and
`WorkloadConserved`. `Kept` types the state and says which heights a table has collected,
which it has yet to report and what calls may look like. `Signatures` extends
`SignaturesCountOnce` by the blocks that rounds have judged already (`BlocksApart`), without
which a block could be judged again after the sum it was in has been emptied; `RoundsBehind`
relates the last round to the heights ZEC knows, so that the next round's count of table
blocks is of new ones. A round is fair because of the order the sort leaves: those punished
are among the lowest ranks and below the threshold, those awarded among the highest and above
it (`OrderIsFair`), and for every two nodes the formula compares shares of signatures, ties
included. Work is conserved for each kind of work apart: the copies of it in collected blocks
are the copies at the tables, in calls, at ZEC and at the reward contract (`WorkBalance`).
As calls are a bag, two equal reports count twice; a call stands for as many pairs of it and
a number as the bag holds (`Flight`), and sending and receiving one adds and removes one such
pair.

**RewardProofs** shows `TypeOK`, `IssuanceIsSpent` and `IssuanceFollowsSchedule`, for any
nodes, tables, groups, ratios of the pots, precision, and timing of the rounds. `Inv` adds to
them what a round needs of the steps before it: that the queue lists tasks of past rounds
once each (`Queued`: `sent` sums over a set of tasks, `issued` over the places of a
sequence), that the workload is a map of maps (`IsWorkload`), and `OnSchedule`. The step that
computes a round (`RoundStep`) rests on three results about the operators.

* `RoundGives`: what nodes earn and the community gets is at most the issuance and, but for
  the pots nobody reported for, at least the issuance less `Divisions`. Each pot is a sum of
  rounded shares (`SharesOfWhole`): of edge and archive nodes by their number (`SharedPot`),
  of auditors by votes (`VotePot`), of groups evenly and within a group by the work of the
  leaders that are still valid (`WorkPot`; by node in the code, summed by group in the proof).
  `PotsMakeTheWhole` adds the pots up.
* `IssuanceOnSchedule`: what a round issues is within the stated fractions of what the clocks
  since the last round are worth. The loop over ended years is followed by `CountingUp`
  (`YearsOnSchedule`): after k years it has issued what the clocks up to the end of the k-th
  are worth, up to k fractions. `IsReserve` is the reserve of every year from the first one;
  that there is one, and that the property's `until` begins it, are `ReserveExists` and
  `UntilIsReserve`.
* `RoundTransfers`: the tasks of a round are all different and transfer what is given out,
  plus less than a token per table. Dividends are summed by table in the code and by node in
  the proof.

That a dividend is no more than its node has earned is `DividendType`; from it follows that
the amounts dispatched are natural numbers.

**ClaimingProofs** shows `TypeOK`, `PaidOnce`, `RecordsAddUp` and `Solvent`. `Mail` says what
is on its way: transfers and calls carry different tasks, and the tasks that are left differ
from each other and from both. `Books` says that a record's accumulated reward is what is
unclaimed plus what was paid. `PaidOnceOnly` is the refinement of Payments, for nodes and for
voters: the initial states map to initial states, a claim to a payment, an arriving reward or
dividend to a grant, every other step to a stutter. `Solvent` compares the sums of what is
unclaimed, in records and in calls to come, with the tokens and transfers to come; the
division of a dividend among the voters never gives out more than came in
(a sum of floors), whatever votes have changed since it was computed.

**ElectionProofs** is first about every election, for all ratios, groups, pools and ranges:
`CountsAreSound` (the numbers do not wrap) and `RotationsAreSound` (what an election ends in
satisfies `RotationSound`). The first is arithmetic on the five sizes; the second takes the
outcome apart into those gone, drawn out and drawn in (`ElectionOutcome`), counts them by the
library's theorems on finite sets (`Parts`), and applies the first.

It then shows, for any number of groups of auditors and validators (the latter a
multiple of the former), any pools, sizes and seeds, that Elections implies `TypeOK`,
`ClustersApart`, `GenesisWhole`, `ClusterMovesTogether`, `ElectionsSound`, `RotationBounded`
and `CallsElectClusters`. A property of `groups` depends on what a call has in hand when it ends, so
`IInv` describes a call under way: where it is (`Control`); that what it has written and what
it has in memory have the same members, except for the cluster it is at (`Kept`); that the
clusters and validators it has yet to come to are as they were (`Untouched`), without which a
group could be rotated twice by one call; that no group is empty once the genesis election is
done (`Whole`); that each group is within one rotation of what it was (`Bounded`); that the
groups elected so far carry the call's date (`DatedNow`). `Apart` holds of the groups and of
the memory, for each election draws from standbys filtered by the memory
(`AuditorsStayApart`, `ValidatorsStayApart`); `Together` of the groups and of what is
written, but not of the memory, where the association is filled in only with the store.

`CallsAreElections` is the refinement of ClusterElections. Its invariant `Progress` relates
what a call has written to the groups it began with: every cluster is as before or has moved
whole, with every version one further and the members of some group changed (`WrittenWhole`);
clusters and groups ahead are untouched down to their versions (`AsYet`); at the cluster at
hand, `success` means that some group elected so far differs from before (`AtHand`), which
takes that an election that succeeds changes the group (`ElectionChanges`: it shrinks it or
brings somebody in); and no more clusters have moved than were counted (`Counted`). The step
`end_call` is then an election of the clusters that have moved, or nothing; in the genesis
election all have moved, as groups that were empty are not any more.

The last part is about StandbyPool and RoleContext, for any nodes, contracts, intervals,
tables, vnodes and sizes: `PoolTypeOK`, `SeedsUntilActive` and `TurnsInOrder`. `IPool` is the
types (`ContextTyped`, `MembersTyped`), `SeedsUntilActive` and `InTurn`. That no group exceeds its maximum is `RotationsAreSound` for
the committees and a count of `First` for the other groups (`FirstOnes`: the places of its
members are different numbers below the maximum). `InTurn` says of a steady role context that
its count is the number of rounds since its last turn and that `called` is the table of the
round of that turn, also over the end of the cycle; the schedule's next round then names the
next table, which is arithmetic of quotients and remainders (`NextTurn`, from `Quotient`,
`Remainder` and `Successor`). `NextTurn` is where the assumption that `Cycle` is a multiple of
the schedule times the number of tables is needed: without a cycle there is no end to get over.

Every safety property, action property and refinement that a run checks is thus also proved. Only
model-checked are the liveness properties (`ReportsReachRec`, `RoundsAreCarriedOut`,
`TablesTakeTurns`, `LeaversLeave`, `ActivationArrives`), as fairness and `ENABLED` are beyond the
provers. No module declares a RECURSIVE operator.

## Disagreements between code and text

Two runs end in a counterexample, each showing that the code does not do what the
repository says of it:

* `vote_abolish`: the README of `xreward` says the table vote contract reports abolished
  votes; when the last vote of a table is withdrawn, the report is empty and no batch is
  sent, so both receivers keep the old tally until somebody votes there again.
* `stat_late`: an assertion says ZEC takes only a workload report that is newer than the
  last one read; the height it compares with is never written on this path, and an older
  report is taken after a newer one (its work is not counted twice: `WorkloadConserved`).

Three more were met while modelling; the properties are stated so that they hold of the code:

* `xelect_consensus_group_contract.cpp:228` says nothing is changed if an election fails. The
  version and the date of a group are set before, and they are written along with another
  group of the cluster whose election succeeds. `ClusterMovesTogether` shows the cluster
  stays in step all the same.
* `xelection/README.md` says the archive election elects out nodes that are not in the pool;
  when fewer than the minimum are in the pool it leaves the group as it is.
* A call of the ZEC election that is dated before a group's last election finds an unsigned
  difference beyond any interval and rotates the group at once
  (`xzec_elect_consensus_group_contract.cpp:425`).

## Not modelled

* Formats: parsing of parameters, addresses and lists, serialisation, JSON, logging, metrics.
* In the modelled contracts: cosigning and effective heights of proposals, nicknames, keys,
  network ids and credit scores of nodes, the import of old data in `setup`.
* Handlers without a caller: the first-version vote handlers, the accumulation of workload
  from blocks read by ZEC.
* The refusal of a TRANSFER by the account layer. `DepositsBacked` shows that the registration
  contract never gets there; the governance contract's grants may exceed its balance, and a
  claim may come before the tokens it asks for.
* In the reward contract: the old and the new test for archive nodes (one role in the model),
  the widths of workload counters, what `setup` takes over. In the claiming contract: the
  times in the records.
* In the elections: the draw by stake and its random seed, the ranks and versions of nodes,
  configured groups (`STATIC_CONSENSUS`), a second network. In the standby pool: stakes, keys
  and program versions, and the fork that gave archive nodes a role of their own.
* In the role context: monitors and broadcasts, which node of a group is the one to call, and
  that a node may be in several groups (they share nothing but the latest round).
* Raising a minimum deposit: it concerns nodes only when they register, change or join.
* The deployment of genesis contracts and the JSON reads of the contract manager, the base
  classes, the Lua engine, the deployment of user contracts, the early vote plugins, error
  tables: sequential code, or code nothing uses.

## Plan

Done: all contracts of the inventory that keep state, each in a module with its runs; proofs
of every safety property, action property and refinement that is checked. Left: the
registration contract's remaining fields (nicknames, keys, credit scores), and the composition
of Statistics and Registration, from signatures to locked deposits.
