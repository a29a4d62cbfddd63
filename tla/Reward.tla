------------------------------- MODULE Reward -------------------------------
(***************************************************************************)
(* The reward contract of the ZEC chain (xzec_reward_contract.cpp).        *)
(*                                                                         *)
(* On its timer it carries out the tasks of the last round; when none is   *)
(* left and the interval has passed it computes a new round: how much the  *)
(* time since the last round issues, which part of it every role gets, who *)
(* of the registered nodes has earned a part, how much of it goes to the   *)
(* node's voters; what nobody has earned goes to the community.  Otherwise *)
(* it moves on the height at which it reads the registrations.             *)
(*                                                                         *)
(* A call that fails an XCONTRACT_ENSURE is rolled back and is no step.    *)
(***************************************************************************)
EXTENDS RewardDispatch

CONSTANTS
  Table,
  Node,             \* accounts of nodes, numbers
  TableOf,          \* the table of a node's account
  Registries,       \* what the registration contract may hold: maps of node
                    \*   to [roles, deposit, ratio]
  TicketSets,       \* tallies ZEC's vote contract may hold: [table -> map]
  Workloads,        \* reports of ZEC's workload contract, of the form of work
  Ratio,            \* percent of every pot, a record
  ZeroWorkload,     \* [role -> auditor_ or validator_group_zero_workload]
  TotalReserve,     \* TOTAL_RESERVE in fractions
  MinimumIssuance,  \* TOTAL_ISSUANCE * min_mining_annual_ratio in fractions
  IssuanceRate,     \* mining_annual_ratio_from_reserve_pool
  ClocksPerYear,    \* TIMER_BLOCK_HEIGHT_PER_YEAR
  DistributeInterval, \* reward_distribute_interval
  HeightStep,       \* cross_reading_..._height_step_limitation
  ReadTimeout,      \* cross_reading_..._logic_timeout_limitation
  MaxHeight,        \* bound: blocks of the registration contract
  MaxReports,       \* bound: workload reports
  MaxTime           \* bound: the logic clock

GroupRole == {"auditor", "validator"}
IsWork(w) ==
  /\ IsFiniteSet(DOMAIN w)
  /\ \A g \in DOMAIN w : DOMAIN w[g] \subseteq Node /\ \A n \in DOMAIN w[g] : w[g][n] \in Nat

Pot == {"edge", "archive", "auditor", "validator", "vote", "governance"}

ASSUME RewardAssumption ==
  /\ IsFiniteSet(Node) /\ Node \subseteq Nat
  /\ IsFiniteSet(Table) /\ Community \notin Table
  /\ TableOf \in [Node -> Table]
  /\ Ratio \in [Pot -> 0 .. 100]
  /\ ZeroWorkload \in [GroupRole -> Nat]
  /\ {TotalReserve, MinimumIssuance, IssuanceRate, ReadTimeout} \subseteq Nat
  /\ {ClocksPerYear, DistributeInterval, HeightStep} \subseteq Nat \ {0}
  /\ {MaxHeight, MaxReports, MaxTime} \subseteq Nat

\* What the other contracts hold and send; registerNode2, updateNodeInfo and
\* setDividendRatio refuse a ratio above 100.
ASSUME InputAssumption ==
  /\ \A m \in Registries : /\ DOMAIN m \subseteq Node
                           /\ \A n \in DOMAIN m : m[n].deposit \in Nat /\ m[n].ratio \in 0 .. 100
  /\ \A tk \in TicketSets :
       /\ DOMAIN tk = Table
       /\ \A t \in Table : DOMAIN tk[t] \subseteq Node /\ \A n \in DOMAIN tk[t] : tk[t][n] \in Nat
  /\ \A info \in Workloads : DOMAIN info = GroupRole /\ \A role \in GroupRole : IsWork(info[role])

\* get_reward_param fails unless the shares make up the whole.
ASSUME RatioAssumption == Total(Ratio) = 100

VARIABLES
  registry,    \* external: the registrations at every height, from 0
  tickets,     \* external: TICKETS_KEY of ZEC's vote contract
  activation,  \* external: activation_time, 0 while not activated
  work,        \* WORKLOAD_KEY, VALIDATOR_WORKLOAD_KEY: [role -> map of group
               \*   to a map of leader to work]
  read,        \* LAST_READ_REC_REG_CONTRACT_...: [height, time]
  record,      \* ..._ISSUANCE_YEARLY: [last_issuance_time, issued_until_last_year_end]
  issued,      \* ACCUMULATED_ISSUANCE in tokens: [years, total]
  tasks,       \* TASK_KEY
  detail,      \* REWARD_DETAIL of the last round
  computed,    \* history: what rounds have issued, in fractions; their number
  sent,        \* history: tokens transferred by executed tasks
  reports,     \* bound: workload reports received
  time

inputs == <<registry, tickets, activation>>
vars == <<inputs, work, read, record, issued, tasks, detail, computed, sent, reports, time>>

MapWith(m, x, v) == [y \in DOMAIN m \cup {x} |-> IF y = x THEN v ELSE m[y]]

-----------------------------------------------------------------------------
(***************************************************************************)
(* Issuance.  A year's reserve is a share of what the former years have    *)
(* left, or the minimum.                                                   *)
(***************************************************************************)
get_reserve_reward(until) ==
  LET share == ((TotalReserve - until) * IssuanceRate) \div 100
  IN  IF TotalReserve > until /\ share > MinimumIssuance THEN share ELSE MinimumIssuance

YearOf(clock) == clock \div ClocksPerYear

\* The loop of calc_issuance_internal: what the years that ended since the
\* last issuance add, and the reserve issued until the end of the last one.
YearsEnded(rec, total_height) ==
  LET last == rec.last_issuance_time
      ended[k \in 0 .. YearOf(total_height) - YearOf(last)] ==
        IF k = 0
          THEN [until |-> rec.issued_until_last_year_end, issuance |-> 0]
          ELSE LET reserve == get_reserve_reward(ended[k - 1].until)
                   clocks == IF k = 1 THEN ClocksPerYear - (last % ClocksPerYear)
                                      ELSE ClocksPerYear
               IN  [until |-> ended[k - 1].until + reserve,
                    issuance |-> ended[k - 1].issuance + (reserve * clocks) \div ClocksPerYear]
  IN  ended[YearOf(total_height) - YearOf(last)]

\* slip: the clocks of this year are counted from its beginning, even when
\* some of them have been rewarded
RestOfYearStart(rec, total_height) == total_height % ClocksPerYear

RestOfYear(rec, total_height) ==
  IF YearOf(total_height) = YearOf(rec.last_issuance_time)
    THEN total_height - rec.last_issuance_time
    ELSE total_height % ClocksPerYear

calc_issuance(rec, total_height) ==
  LET years == YearsEnded(rec, total_height)
      rest == RestOfYear(rec, total_height)
  IN  [issuance |-> years.issuance
                      + (get_reserve_reward(years.until) * rest) \div ClocksPerYear,
       record |-> [last_issuance_time |-> total_height,
                   issued_until_last_year_end |-> years.until]]

-----------------------------------------------------------------------------
(***************************************************************************)
(* Who earns what.  nodes: the registrations read; tk: the tallies; w: the *)
(* workload; total: the issuance.                                          *)
(***************************************************************************)
PotOf(pot, total) == (total * Ratio[pot]) \div 100

VotesOf(tk, n) == SumOver(DOMAIN tk, LAMBDA t : AmountOf(tk[t], n))

\* External, xreg_node_info: an auditor has as many votes as it has deposit.
can_be_auditor(node, votes) == "auditor" \in node.roles /\ votes >= node.deposit

Valid(role, nodes, tk, n) ==
  /\ n \in DOMAIN nodes
  /\ nodes[n].deposit > 0
  /\ IF role = "auditor" THEN can_be_auditor(nodes[n], VotesOf(tk, n)) ELSE role \in nodes[n].roles

ValidNodes(role, nodes, tk) == {n \in DOMAIN nodes : Valid(role, nodes, tk, n)}

\* calc_invalid_workload_group_reward: leaders that are no longer valid are
\* taken out of their groups, with their work.
ValidWork(role, nodes, tk, w) ==
  [g \in DOMAIN w |-> [n \in {k \in DOMAIN w[g] : Valid(role, nodes, tk, k)} |-> w[g][n]]]

\* calc_zero_workload_reward; a group left empty has no work.
\* slip: a group's work is counted before its invalid leaders are taken out
IdleBefore(role, valid, w) == {g \in DOMAIN w : Total(w[g]) <= ZeroWorkload[role]}

Idle(role, valid, w) == {g \in DOMAIN w : Total(valid[g]) <= ZeroWorkload[role]}

\* auditor_group_workload_rewards, validator_group_workload_rewards
GroupPot(role, w, total) == IF w = << >> THEN 0 ELSE PotOf(role, total) \div Cardinality(DOMAIN w)

WorkReward(role, nodes, tk, w, total, n) ==
  LET valid == ValidWork(role, nodes, tk, w)
      led == {g \in DOMAIN w \ Idle(role, valid, w) : n \in DOMAIN valid[g]}
  IN  SumOver(led, LAMBDA g : (GroupPot(role, w, total) * valid[g][n]) \div Total(valid[g]))

SharedReward(role, nodes, tk, total, n) ==
  IF Valid(role, nodes, tk, n)
    THEN PotOf(role, total) \div Cardinality(ValidNodes(role, nodes, tk)) ELSE 0

VoteReward(nodes, tk, total, n) ==
  LET auditors == ValidNodes("auditor", nodes, tk)
      votes == SumOver(auditors, LAMBDA k : VotesOf(tk, k))
  IN  IF n \in auditors /\ votes > 0 THEN (PotOf("vote", total) * VotesOf(tk, n)) \div votes ELSE 0

Earned(nodes, tk, w, total, n) ==
  SharedReward("edge", nodes, tk, total, n) + SharedReward("archive", nodes, tk, total, n)
    + WorkReward("auditor", nodes, tk, w.auditor, total, n)
    + WorkReward("validator", nodes, tk, w.validator, total, n)
    + VoteReward(nodes, tk, total, n)

\* The voters' part of what a node has earned.
Dividend(nodes, tk, earned, n) ==
  IF nodes[n].ratio > 0 /\ VotesOf(tk, n) > 0 THEN (earned * nodes[n].ratio) \div 100 ELSE 0

UnclaimedPots(nodes, tk, total) ==
  LET unclaimed(role, pot) == IF ValidNodes(role, nodes, tk) = {} THEN PotOf(pot, total) ELSE 0
  IN  unclaimed("edge", "edge") + unclaimed("archive", "archive") + unclaimed("auditor", "vote")

CommunityReward(nodes, tk, w, total) ==
  PotOf("governance", total) + UnclaimedPots(nodes, tk, total)
    + SumOver(GroupRole, LAMBDA role :
        GroupPot(role, w[role], total)
          * Cardinality(Idle(role, ValidWork(role, nodes, tk, w[role]), w[role])))

-----------------------------------------------------------------------------
(***************************************************************************)
(* reward(): the whole round.                                              *)
(***************************************************************************)
\* calc_table_rewards: by table, the nodes' own rewards and the dividends of
\* the nodes that are voted for there.  Nothing is kept that is 0.
OfTable(S, f(_)) == [n \in {k \in S : f(k) > 0} |-> f(n)]
NonEmpty(m) == [t \in {s \in Table : DOMAIN m[s] # {}} |-> m[t]]

NodeRewards(self) ==
  NonEmpty([t \in Table |-> OfTable({n \in DOMAIN self : TableOf[n] = t}, LAMBDA n : self[n])])

DividendRewards(tk, dividend) ==
  NonEmpty([t \in Table |->
    OfTable({n \in DOMAIN dividend : dividend[n] > 0 /\ VotesOf(tk, n) > 0},
            LAMBDA n : (dividend[n] * AmountOf(tk[t], n)) \div VotesOf(tk, n))])

TransfersIn(list) ==
  SumOver({i \in DOMAIN list : list[i].action = "transfer"}, LAMBDA i : list[i].amount)

Age == time - activation

\* update_accumulated_issuance
Accumulated(tokens) ==
  LET year == YearOf(Age) + 1
  IN  [years |-> MapWith(issued.years, year, AmountOf(issued.years, year) + tokens),
       total |-> issued.total + tokens]

reward_is_expire ==
  LET last == activation + record.last_issuance_time
  IN  activation # 0 /\ time > last /\ time - last >= DistributeInterval

reward ==
  LET nodes == registry[read.height + 1]
      calc == calc_issuance(record, Age)
      total == calc.issuance
      earned == [n \in DOMAIN nodes |-> Earned(nodes, tickets, work, total, n)]
      dividend == [n \in DOMAIN nodes |-> Dividend(nodes, tickets, earned[n], n)]
      self == [n \in DOMAIN nodes |-> earned[n] - dividend[n]]
      community == CommunityReward(nodes, tickets, work, total)
      list == dispatch_all_reward(time, NodeRewards(self), DividendRewards(tickets, dividend), community)
  IN  /\ nodes # << >>
      /\ total > 0
      /\ work' = [role \in GroupRole |-> << >>]
      /\ tasks' = list
      /\ issued' = Accumulated(TransfersIn(list))
      /\ record' = calc.record
      /\ detail' = [issuance |-> total, community |-> community, earned |-> earned,
                    dividend |-> dividend, work |-> work]
      /\ computed' = [amount |-> computed.amount + total, rounds |-> computed.rounds + 1]
      /\ UNCHANGED <<read, sent>>

execute_task ==
  /\ tasks' = Remaining(tasks)
  /\ sent' = sent + SumOver({x \in Executed(tasks) : x.action = "transfer"}, LAMBDA x : x.amount)
  /\ UNCHANGED <<work, read, record, issued, detail, computed>>

latest_height == Len(registry) - 1

\* slip: nothing is looked at but the step
ReadNextStep ==
  /\ read' = [height |-> read.height + HeightStep, time |-> time]
  /\ UNCHANGED <<work, record, issued, tasks, detail, computed, sent>>

update_reg_contract_read_status ==
  /\ \/ /\ latest_height - read.height >= HeightStep
        /\ read' = [height |-> read.height + HeightStep, time |-> time]
     \/ /\ latest_height - read.height < HeightStep
        /\ latest_height = read.height \/ time - read.time > ReadTimeout
        /\ read' = [height |-> latest_height, time |-> time]
  /\ UNCHANGED <<work, record, issued, tasks, detail, computed, sent>>

on_timer ==
  /\ IF tasks # << >> THEN execute_task
     ELSE IF reward_is_expire THEN reward ELSE update_reg_contract_read_status
  /\ UNCHANGED <<inputs, reports, time>>

\* add_cluster_workload, for all groups of a report
Merged(old, new) ==
  LET part(m, g) == IF g \in DOMAIN m THEN m[g] ELSE << >>
  IN  [g \in DOMAIN old \cup DOMAIN new |->
         [n \in DOMAIN part(old, g) \cup DOMAIN part(new, g) |->
            AmountOf(part(old, g), n) + AmountOf(part(new, g), n)]]

calculate_reward(info) ==
  /\ reports < MaxReports
  /\ reports' = reports + 1
  /\ work' = [role \in GroupRole |-> Merged(work[role], info[role])]
  /\ UNCHANGED <<inputs, read, record, issued, tasks, detail, computed, sent, time>>

-----------------------------------------------------------------------------
\* External: the registration contract's next block, the tallies of ZEC's vote
\* contract, the activation as ZEC sees it, the logic clock.
NewRegistry(m) ==
  /\ latest_height < MaxHeight
  /\ registry' = Append(registry, m)
  /\ UNCHANGED <<tickets, activation, work, read, record, issued, tasks, detail, computed, sent,
                 reports, time>>

NewTickets(tk) ==
  /\ tickets' = tk
  /\ UNCHANGED <<registry, activation, work, read, record, issued, tasks, detail, computed, sent,
                 reports, time>>

Activate ==
  /\ activation = 0
  /\ activation' = time
  /\ UNCHANGED <<registry, tickets, work, read, record, issued, tasks, detail, computed, sent,
                 reports, time>>

Tick ==
  /\ time < MaxTime
  /\ time' = time + 1
  /\ UNCHANGED <<inputs, work, read, record, issued, tasks, detail, computed, sent, reports>>

NoDetail ==
  [issuance |-> 0, community |-> 0, earned |-> << >>, dividend |-> << >>,
   work |-> [role \in GroupRole |-> << >>]]

Init ==
  /\ \E m \in Registries : registry = <<m>>
  /\ tickets \in TicketSets
  /\ activation = 0
  /\ work = [role \in GroupRole |-> << >>]
  /\ read = [height |-> 0, time |-> 0]
  /\ record = [last_issuance_time |-> 0, issued_until_last_year_end |-> 0]
  /\ issued = [years |-> << >>, total |-> 0]
  /\ tasks = << >>
  /\ detail = NoDetail
  /\ computed = [amount |-> 0, rounds |-> 0]
  /\ sent = 0
  /\ reports = 0
  /\ time = 1

Report == \E info \in Workloads : calculate_reward(info)
Inputs == (\E m \in Registries : NewRegistry(m)) \/ (\E tk \in TicketSets : NewTickets(tk))

Next == on_timer \/ Report \/ Inputs \/ Activate \/ Tick

Spec == Init /\ [][Next]_vars

-----------------------------------------------------------------------------
(***************************************************************************)
(* Properties.                                                             *)
(***************************************************************************)
TypeOK ==
  /\ \A i \in DOMAIN registry : registry[i] \in Registries
  /\ tickets \in TicketSets
  /\ activation \in 0 .. time
  /\ DOMAIN work = GroupRole /\ \A role \in GroupRole : IsWork(work[role])
  /\ read.height \in 0 .. latest_height /\ read.time \in 0 .. time
  /\ record.last_issuance_time \in 0 .. time /\ record.issued_until_last_year_end \in Nat
  /\ issued.total \in Nat /\ \A y \in DOMAIN issued.years : issued.years[y] \in Nat
  /\ \A i \in DOMAIN tasks : tasks[i].round <= time
  /\ \A n \in DOMAIN detail.earned : detail.dividend[n] \in 0 .. detail.earned[n]
  /\ computed.amount \in Nat /\ computed.rounds \in Nat
  /\ sent \in Nat /\ reports \in 0 .. MaxReports /\ time \in Nat

(***************************************************************************)
(* A round gives out what it issues: never more, however the registered    *)
(* nodes, the groups that worked and the votes fit together; and, but for  *)
(* a fraction lost at each division, all of it, except the pot of auditors *)
(* or validators when no group of them has reported.                       *)
(***************************************************************************)
PotsAreSpent ==
  LET spent == Total(detail.earned) + detail.community
      leaders(role) == SumOver(DOMAIN detail.work[role],
                               LAMBDA g : Cardinality(DOMAIN detail.work[role][g]))
      unled == SumOver({role \in GroupRole : detail.work[role] = << >>},
                       LAMBDA role : PotOf(role, detail.issuance))
      divisions == Cardinality(Pot) + 3 * Cardinality(DOMAIN detail.earned)
                     + SumOver(GroupRole, LAMBDA role :
                         Cardinality(DOMAIN detail.work[role]) + leaders(role))
  IN  /\ spent <= detail.issuance
      /\ detail.issuance - spent - unled <= divisions

(***************************************************************************)
(* What rounds issue follows from the time that has passed, not from when  *)
(* the rounds were computed: over any sequence of early, late and missed   *)
(* rounds, across years, it stays within a fraction per round and year of  *)
(* every clock's share of its year's reserve.                              *)
(***************************************************************************)
IssuanceFollowsSchedule ==
  LET last == record.last_issuance_time
      until[y \in 0 .. YearOf(last)] ==
        IF y = 0 THEN 0 ELSE until[y - 1] + get_reserve_reward(until[y - 1])
      scheduled == SumOver(0 .. last - 1, LAMBDA c : get_reserve_reward(until[YearOf(c)]))
  IN  /\ ClocksPerYear * computed.amount <= scheduled
      /\ scheduled <= ClocksPerYear * (computed.amount + computed.rounds + YearOf(last))

(***************************************************************************)
(* The accumulated issuance, by year and in total, is what has been        *)
(* transferred or is about to be, and it exceeds what the rounds issued    *)
(* only by the rounding up of each table's total.                          *)
(***************************************************************************)
IssuanceIsTransferred ==
  /\ issued.total = sent + TransfersIn(tasks)
  /\ Total(issued.years) = issued.total
  /\ Precision * issued.total
       <= computed.amount + Precision * Cardinality(Table) * computed.rounds

\* What a round issues is what it gives out, and what it gives out is what is
\* transferred, up to fractions that are bounded.
IssuanceIsSpent == PotsAreSpent /\ IssuanceIsTransferred
=============================================================================
