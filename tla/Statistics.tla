----------------------------- MODULE Statistics -----------------------------
(***************************************************************************)
(* What becomes of the statistics of a full table block.  The contract of  *)
(* every table (xtable_statistic_info_collection_contract.cpp) collects    *)
(* them and reports, on its timer, the signatures of each node to the      *)
(* slash contract of the ZEC chain (xzec_slash_info_contract.cpp) and the  *)
(* workload of each leader to ZEC's workload contract                      *)
(* (xzec_workload_contract_v2.cpp), which passes it on to the reward       *)
(* contract.  The slash contract punishes and rewards nodes in rounds and  *)
(* starts every round from nothing.                                        *)
(*                                                                         *)
(* Calls between contracts are asynchronous and arrive in any order.  A    *)
(* handler that fails an XCONTRACT_ENSURE is rolled back as a whole.       *)
(* Groups are abstracted to their role; the 64 bit heights and the 32 bit  *)
(* counts do not wrap.                                                     *)
(***************************************************************************)
EXTENDS Integers, FiniteSets, Bags, SequencesExt

CONSTANTS
  Table,
  Node,
  Contents,        \* the statistics a full table block may carry
  FullInterval,    \* table blocks from one full table block to the next
  TableInterval,   \* slash_interval_table_block
  TimeInterval,    \* slash_interval_time_block
  SlashPercent,    \* sign_block_ranking_slash_threshold_value
  SlashThreshold,  \* sign_block_slash_threshold_value
  AwardPercent,    \* sign_block_ranking_awardcredit_threshold_value
  AwardThreshold,  \* sign_block_awardcredit_threshold_value
  MaxBlocks,       \* bound: full table blocks of a table
  MaxTime          \* bound: the logic clock

Role == {"auditor", "validator"}

\* xunqualified_node_info_t: for each node of each role, how many blocks it
\* signed (block_count) of those it was asked to sign (subset_count).
NoInfo == [block_count |-> EmptyBag, subset_count |-> EmptyBag]

IsInfo(i) ==
  /\ DOMAIN i = {"block_count", "subset_count"}
  /\ IsABag(i.block_count) /\ BagToSet(i.block_count) \subseteq Role \X Node
  /\ IsABag(i.subset_count) /\ BagToSet(i.subset_count) \subseteq Role \X Node

ASSUME ContentAssumption ==
  \A c \in Contents : /\ IsInfo(c.info)
                      /\ BagToSet(c.info.block_count) \subseteq BagToSet(c.info.subset_count)
                      /\ IsABag(c.work) /\ BagToSet(c.work) \subseteq Role \X Node
                      /\ c.tgas \in Int
ASSUME NumberAssumption ==
  /\ IsFiniteSet(Table) /\ IsFiniteSet(Node)
  /\ FullInterval \in Nat \ {0}
  /\ {TableInterval, TimeInterval, MaxBlocks, MaxTime} \subseteq Nat
  /\ {SlashPercent, SlashThreshold, AwardPercent, AwardThreshold} \subseteq 0 .. 100

VARIABLES
  block,            \* the full table blocks: [table -> map of height to content]
  fulltable_height, \* FULLTABLE_HEIGHT of every table
  fulltable_num,    \* FULLTABLE_NUM
  unqualified,      \* the table's UNQUALIFIED_NODE
  table_work,       \* the table's CONTRACT_WORKLOAD
  table_tgas,       \* the table's TGAS
  calls,            \* bag of calls on their way
  info,             \* ZEC's UNQUALIFIED_NODE
  tableblock_num,   \* ZEC's TABLEBLOCK_NUM
  summarized,       \* ZEC's summarized height of every table
  slash_delete,     \* SLASH_DELETE_PROPERTY
  last_slash_time,  \* LAST_SLASH_TIME
  zec_work,         \* ZEC's CONTRACT_WORKLOAD
  zec_tgas,         \* ZEC's TGAS
  reward_work,      \* what the reward contract has been given
  activated,        \* REC's activation record, as ZEC sees it
  time,             \* the timer's round
  pending,          \* history: [table -> heights collected since the last report]
  counted,          \* history: the blocks whose signatures are in info
  rounds,           \* history: the rounds' calls of slash_unqualified_node and what
                    \*   they were decided on
  collected,        \* history: [table -> heights collected]
  early_work,       \* history: work that reached ZEC before the activation
  work_taken        \* history: [table -> height of the last workload call ZEC took]

tableVars == <<fulltable_height, fulltable_num, unqualified, table_work, table_tgas,
               pending, collected>>
slashVars == <<info, tableblock_num, summarized, slash_delete, last_slash_time,
               counted, rounds>>
workVars == <<zec_work, zec_tgas, early_work, work_taken>>
vars == <<block, tableVars, calls, slashVars, workVars, reward_work, activated, time>>

Sending(msgs) == calls (+) SetToBag(msgs)
Without(m) == calls (-) SetToBag({m})

\* accumulate_node_info, the same in both contracts.
accumulate_node_info(i, j) ==
  [block_count |-> i.block_count (+) j.block_count,
   subset_count |-> i.subset_count (+) j.subset_count]

-----------------------------------------------------------------------------
(***************************************************************************)
(* The table's statistic contract.                                         *)
(***************************************************************************)
\* slip: a block at the last height is not taken for a duplicate
NotOlder(t, h) == h >= fulltable_height[t]

Unprocessed(t, h) == h > fulltable_height[t]

process_workload_statistic_data(t, c) ==
  /\ table_work' = [table_work EXCEPT ![t] = @ (+) c.work]
  /\ table_tgas' = [table_tgas EXCEPT ![t] = @ + c.tgas]

\* The call carries a committed full table block; every node that sees the
\* block asks for it, so it may come again, late, or not at all.
on_collect_statistic_info(t, h) ==
  /\ h \in DOMAIN block[t]
  /\ Unprocessed(t, h)
  /\ unqualified' = [unqualified EXCEPT ![t] = accumulate_node_info(@, block[t][h].info)]
  /\ fulltable_height' = [fulltable_height EXCEPT ![t] = h]
  /\ fulltable_num' = [fulltable_num EXCEPT ![t] = @ + 1]
  /\ process_workload_statistic_data(t, block[t][h])
  /\ pending' = [pending EXCEPT ![t] = @ \cup {h}]
  /\ collected' = [collected EXCEPT ![t] = @ \cup {h}]
  /\ UNCHANGED <<block, calls, slashVars, workVars, reward_work, activated, time>>

SlashReport(t) ==
  [type |-> "slash", table |-> t, height |-> fulltable_height[t],
   info |-> unqualified[t], blocks |-> {t} \X pending[t]]

WorkReport(t) ==
  [type |-> "workload", table |-> t, height |-> fulltable_height[t],
   work |-> table_work[t], tgas |-> table_tgas[t]]

upload_workload(t) ==
  IF table_work[t] # EmptyBag
    THEN /\ calls' = Sending({SlashReport(t), WorkReport(t)})
         /\ table_work' = [table_work EXCEPT ![t] = EmptyBag]
         /\ table_tgas' = [table_tgas EXCEPT ![t] = 0]
    ELSE /\ calls' = Sending({SlashReport(t)})
         /\ UNCHANGED <<table_work, table_tgas>>

report_summarized_statistic_info(t) ==
  /\ fulltable_num[t] # 0
  /\ upload_workload(t)
  /\ unqualified' = [unqualified EXCEPT ![t] = NoInfo]
  /\ fulltable_num' = [fulltable_num EXCEPT ![t] = 0]
  /\ pending' = [pending EXCEPT ![t] = {}]
  /\ UNCHANGED <<block, fulltable_height, collected, slashVars, workVars, reward_work,
                 activated, time>>

-----------------------------------------------------------------------------
(***************************************************************************)
(* The slash contract of ZEC.                                              *)
(***************************************************************************)
\* slip: the operands are swapped
CountBackwards(m) == tableblock_num + (summarized[m.table] - m.height)

Count(m) == tableblock_num + (m.height - summarized[m.table])

\* A report no higher than the last one of its table is passed over.
summarize_slash_info(m) ==
  /\ m.type = "slash"
  /\ IF m.height > summarized[m.table]
       THEN /\ info' = accumulate_node_info(info, m.info)
            /\ tableblock_num' = Count(m)
            /\ summarized' = [summarized EXCEPT ![m.table] = m.height]
            /\ counted' = counted \cup m.blocks
       ELSE UNCHANGED <<info, tableblock_num, summarized, counted>>
  /\ UNCHANGED <<slash_delete, last_slash_time, rounds, workVars, reward_work>>

Copies(x, B) == IF BagIn(x, B) THEN B[x] ELSE 0

Percent(i, x) == (Copies(x, i.block_count) * 100) \div Copies(x, i.subset_count)

\* std::sort by percentage leaves the order of equals open.
Orders(i, role) ==
  {o \in SetToSeqs({x \in BagToSet(i.subset_count) : x[1] = role}) :
     \A a, b \in DOMAIN o : a < b => Percent(i, o[a]) <= Percent(i, o[b])}

Lowest(o) == 1 .. (Len(o) * SlashPercent) \div 100

\* slip: the awards reach one place too far down
HighestAndNext(o) == (Len(o) - (Len(o) * AwardPercent) \div 100) .. Len(o)

Highest(o) == (Len(o) - (Len(o) * AwardPercent) \div 100 + 1) .. Len(o)

\* One role's part of filter_helper.
ActionsOf(i, o) ==
  {[who |-> o[k], punish |-> TRUE] :
     k \in {k \in Lowest(o) : Percent(i, o[k]) < SlashThreshold \/ Percent(i, o[k]) = 0}}
  \cup
  {[who |-> o[k], punish |-> FALSE] :
     k \in {k \in Highest(o) : k >= 1 /\ Percent(i, o[k]) > AwardThreshold}}

filter_nodes(i) == {ActionsOf(i, a) \cup ActionsOf(i, v) :
                      a \in Orders(i, "auditor"), v \in Orders(i, "validator")}

Heights == SumFunctionOnSet(summarized, Table)

Enough(num) == num >= TableInterval

\* pre_condition_process: what the last round left behind is removed first.
Present ==
  IF slash_delete THEN [info |-> NoInfo, num |-> 0, blocks |-> {}]
                  ELSE [info |-> info, num |-> tableblock_num, blocks |-> counted]

\* A round: the decision goes to REC (module Registration, punish_staking).
Judge(actions) ==
  /\ slash_delete' = TRUE
  /\ last_slash_time' = time
  /\ rounds' = rounds \cup {[time |-> time, heights |-> Heights, info |-> Present.info,
                             blocks |-> Present.blocks, actions |-> actions]}

Wait ==
  /\ slash_delete' = FALSE
  /\ UNCHANGED <<last_slash_time, rounds>>

do_unqualified_node_slash ==
  /\ Enough(Present.num) => time > last_slash_time
  /\ info' = Present.info
  /\ tableblock_num' = Present.num
  /\ counted' = Present.blocks
  /\ IF Enough(Present.num) /\ time - last_slash_time >= TimeInterval
       THEN \E actions \in filter_nodes(Present.info) :
              IF actions # {} THEN Judge(actions) ELSE Wait
       ELSE Wait
  /\ UNCHANGED <<block, tableVars, calls, summarized, workVars, reward_work, activated, time>>

-----------------------------------------------------------------------------
(***************************************************************************)
(* The workload contract and what it sends to the reward contract.         *)
(***************************************************************************)
\* The last height read of a table, which the call's height is compared to,
\* is never written on this path: only the uncalled get_fullblock would.
last_read_height == 0

update_workload(w) == zec_work' = zec_work (+) w

on_receive_workload(m) ==
  /\ m.type = "workload"
  /\ IF last_read_height < m.height
       THEN /\ zec_tgas' = zec_tgas + m.tgas
            /\ work_taken' = [work_taken EXCEPT ![m.table] = m.height]
            /\ IF activated
                 THEN update_workload(m.work) /\ UNCHANGED early_work
                 ELSE early_work' = early_work (+) m.work /\ UNCHANGED zec_work
       ELSE UNCHANGED workVars
  /\ UNCHANGED <<slashVars, reward_work>>

\* slip: cleared first, so that nothing is left to upload
TimerClearingFirst ==
  /\ zec_work' = EmptyBag
  /\ UNCHANGED <<block, tableVars, calls, slashVars, zec_tgas, early_work, work_taken,
                 reward_work, activated, time>>

workload_on_timer ==
  /\ zec_work' = EmptyBag
  /\ calls' = IF zec_work # EmptyBag
                THEN Sending({[type |-> "reward", work |-> zec_work]}) ELSE calls
  /\ UNCHANGED <<block, tableVars, slashVars, zec_tgas, early_work, work_taken, reward_work,
                 activated, time>>

\* The reward contract adds the work to its clusters'.
calculate_reward(m) ==
  /\ m.type = "reward"
  /\ reward_work' = reward_work (+) m.work
  /\ UNCHANGED <<slashVars, workVars>>

Deliver(m) ==
  /\ calls' = Without(m)
  /\ summarize_slash_info(m) \/ on_receive_workload(m) \/ calculate_reward(m)
  /\ UNCHANGED <<block, tableVars, activated, time>>

-----------------------------------------------------------------------------
\* External: a table commits its next full block; the network is activated;
\* the timer's clock advances.
Produce(t, c) ==
  LET h == (Cardinality(DOMAIN block[t]) + 1) * FullInterval
  IN  /\ Cardinality(DOMAIN block[t]) < MaxBlocks
      /\ block' = [block EXCEPT ![t] = [k \in DOMAIN @ \cup {h} |->
                                          IF k = h THEN c ELSE @[k]]]
      /\ UNCHANGED <<tableVars, calls, slashVars, workVars, reward_work, activated, time>>

Activate ==
  /\ ~ activated
  /\ activated' = TRUE
  /\ UNCHANGED <<block, tableVars, calls, slashVars, workVars, reward_work, time>>

Tick ==
  /\ time < MaxTime
  /\ time' = time + 1
  /\ UNCHANGED <<block, tableVars, calls, slashVars, workVars, reward_work, activated>>

Init ==
  /\ block = [t \in Table |-> [h \in {} |-> NoInfo]]
  /\ fulltable_height = [t \in Table |-> 0]
  /\ fulltable_num = [t \in Table |-> 0]
  /\ unqualified = [t \in Table |-> NoInfo]
  /\ table_work = [t \in Table |-> EmptyBag]
  /\ table_tgas = [t \in Table |-> 0]
  /\ calls = EmptyBag
  /\ info = NoInfo /\ tableblock_num = 0
  /\ summarized = [t \in Table |-> 0]
  /\ slash_delete = FALSE /\ last_slash_time = 0
  /\ zec_work = EmptyBag /\ zec_tgas = 0 /\ reward_work = EmptyBag
  /\ activated \in BOOLEAN
  /\ time = 1
  /\ pending = [t \in Table |-> {}]
  /\ counted = {} /\ rounds = {}
  /\ collected = [t \in Table |-> {}]
  /\ early_work = EmptyBag
  /\ work_taken = [t \in Table |-> 0]

Collect == \E t \in Table : \E h \in DOMAIN block[t] : on_collect_statistic_info(t, h)
Report == \E t \in Table : report_summarized_statistic_info(t)
Receive == \E m \in BagToSet(calls) : Deliver(m)
Grow == \E t \in Table, c \in Contents : Produce(t, c)

Next == Collect \/ Report \/ Receive \/ do_unqualified_node_slash \/ workload_on_timer
        \/ Grow \/ Activate \/ Tick

Spec == Init /\ [][Next]_vars

-----------------------------------------------------------------------------
(***************************************************************************)
(* Properties.                                                             *)
(***************************************************************************)
TypeOK ==
  /\ fulltable_height \in [Table -> Nat] /\ fulltable_num \in [Table -> Nat]
  /\ \A t \in Table : /\ IsInfo(unqualified[t]) /\ IsABag(table_work[t])
                      /\ pending[t] \subseteq collected[t]
                      /\ collected[t] \subseteq DOMAIN block[t]
                      /\ \A h \in DOMAIN block[t] : h \in Nat /\ block[t][h] \in Contents
  /\ table_tgas \in [Table -> Int]
  /\ IsABag(calls)
  /\ IsInfo(info) /\ tableblock_num \in Nat /\ summarized \in [Table -> Nat]
  /\ slash_delete \in BOOLEAN /\ last_slash_time \in Nat
  /\ IsABag(zec_work) /\ zec_tgas \in Int /\ IsABag(reward_work) /\ IsABag(early_work)
  /\ activated \in BOOLEAN /\ time \in Nat
  /\ \A b \in counted \cup UNION {r.blocks : r \in rounds} : b[1] \in Table /\ b[2] \in collected[b[1]]
  /\ work_taken \in [Table -> Nat]

\* The sum of the bags f[x], taken over the x of a finite set.
SumOfBags(f, S) ==
  [e \in UNION {BagToSet(f[x]) : x \in S} |->
     SumFunctionOnSet([x \in S |-> Copies(e, f[x])], S)]

\* The signatures of a set of blocks, each block taken once.
InfoOf(blocks) ==
  LET i == [b \in blocks |-> block[b[1]][b[2]].info]
  IN  [block_count |-> SumOfBags([b \in blocks |-> i[b].block_count], blocks),
       subset_count |-> SumOfBags([b \in blocks |-> i[b].subset_count], blocks)]

SlashCalls == {m \in BagToSet(calls) : m.type = "slash"}

(***************************************************************************)
(* No block's signatures count twice.  What a table has gathered, what is  *)
(* on its way and what ZEC has summed up are each the sum over a set of    *)
(* blocks, and no block is in two of them: not when the call for a block   *)
(* comes again, not when reports arrive out of order, and not when a round *)
(* removes the sum while reports are on their way.                         *)
(***************************************************************************)
SignaturesCountOnce ==
  /\ info = InfoOf(counted)
  /\ \A t \in Table : unqualified[t] = InfoOf({t} \X pending[t])
  /\ \A m \in SlashCalls : calls[m] = 1 /\ m.info = InfoOf(m.blocks)
  /\ LET pools == {counted} \cup {{t} \X pending[t] : t \in Table}
                  \cup {m.blocks : m \in SlashCalls}
     IN  \A p, q \in pools : p # q => p \cap q = {}

(***************************************************************************)
(* Two rounds are slash_interval_time_block rounds of the timer and        *)
(* slash_interval_table_block table blocks apart, counted by what the      *)
(* tables had reported at the time of each: the blocks before the old sum  *)
(* was removed do not help to make up the second round's number.  And they *)
(* judge by different blocks, though the old sum is removed only at the    *)
(* timer's next call and reports are added to it until then.               *)
(***************************************************************************)
RoundsApart ==
  \A r, s \in rounds : r # s =>
    /\ \/ r.time + TimeInterval <= s.time /\ r.heights + TableInterval <= s.heights
       \/ s.time + TimeInterval <= r.time /\ s.heights + TableInterval <= r.heights
    /\ r.blocks \cap s.blocks = {}

(***************************************************************************)
(* A round is fair within each role: no spared node signed a smaller part  *)
(* than a punished one, none without an award a larger part than one with  *)
(* it, nobody gets both, and neither group exceeds its share.              *)
(***************************************************************************)
RoundsAreFair ==
  \A r \in rounds, role \in Role :
    LET nodes == {x \in BagToSet(r.info.subset_count) : x[1] = role}
        punished == {x \in nodes : [who |-> x, punish |-> TRUE] \in r.actions}
        awarded == {x \in nodes : [who |-> x, punish |-> FALSE] \in r.actions}
    IN  /\ \A x \in punished, y \in nodes \ punished : Percent(r.info, x) <= Percent(r.info, y)
        /\ \A x \in awarded, y \in nodes \ awarded : Percent(r.info, x) >= Percent(r.info, y)
        /\ punished \cap awarded = {}
        /\ 100 * Cardinality(punished) <= Cardinality(nodes) * SlashPercent
        /\ 100 * Cardinality(awarded) <= Cardinality(nodes) * AwardPercent

\* A node is judged in rounds that lie apart, by evidence of that round alone,
\* and no more harshly than one that signed less.
SlashRounds == RoundsApart /\ RoundsAreFair

\* The blocks the tables have collected, and the calls on their way, of which two
\* equal ones are told apart by a number.
Collected == UNION {{t} \X collected[t] : t \in Table}

InFlight(type) == {c \in UNION {{m} \X (1 .. calls[m]) : m \in BagToSet(calls)} :
                     c[1].type = type}

\* The work of the blocks the tables have collected; the work on its way.
WorkCollected == SumOfBags([b \in Collected |-> block[b[1]][b[2]].work], Collected)

WorkSent(type) == SumOfBags([c \in InFlight(type) |-> c[1].work], InFlight(type))

(***************************************************************************)
(* No work is lost or paid twice on its way through three contracts: what  *)
(* the tables have collected is at a table, on its way, at ZEC's workload  *)
(* contract, or with the reward contract, but for what reached ZEC before  *)
(* the network was activated.                                              *)
(***************************************************************************)
WorkIsConserved ==
  WorkCollected = SumOfBags(table_work, Table) (+) WorkSent("workload") (+) zec_work
                    (+) WorkSent("reward") (+) reward_work (+) early_work

(***************************************************************************)
(* The same for the change of pledged TGAS, before the activation too: a   *)
(* table sends it only along with work and keeps it until then.            *)
(***************************************************************************)
TgasIsConserved ==
  SumFunctionOnSet([b \in Collected |-> block[b[1]][b[2]].tgas], Collected)
  = SumFunctionOnSet(table_tgas, Table) + zec_tgas
    + SumFunctionOnSet([c \in InFlight("workload") |-> c[1].tgas], InFlight("workload"))

\* Nothing of what a block brings to the workload contract is lost or doubled,
\* although tables, ZEC and the reward contract send, add and clear in steps of
\* their own.
WorkloadConserved == WorkIsConserved /\ TgasIsConserved

(***************************************************************************)
(* What the assertion of xzec_workload_contract_v2.cpp:120 says: ZEC takes *)
(* a table's workload only if its height is above the last one read.       *)
(***************************************************************************)
WorkloadReportsAscend ==
  [][\A t \in Table : work_taken'[t] # work_taken[t] => work_taken'[t] > work_taken[t]]_vars
=============================================================================
