---------------------------- MODULE RoleContext ----------------------------
(***************************************************************************)
(* When contracts are called (manager/xcontract_manager.cpp and            *)
(* manager/xrole_context.cpp).  A node that is elected into a group gets a *)
(* vnode for it, and with the vnode a role context for every contract the  *)
(* group runs; with the next election the vnode is replaced.  The blocks   *)
(* of the chain's timer reach all role contexts of a node, and each calls  *)
(* its contract in certain rounds.                                         *)
(*                                                                         *)
(* The module follows the contracts of one group, here: contracts of the   *)
(* beacon chain, which are called every so many rounds, or the statistics  *)
(* contract, of which every table has one, and the tables take turns.      *)
(* Rounds are counted modulo Cycle.                                        *)
(***************************************************************************)
EXTENDS Integers, FiniteSets

CONSTANTS
  Vnode,             \* [Deployments -> successive vnodes of a node in the group]
  Contract,          \* contracts with a timer of their own
  Interval,          \* [Contract -> rounds between two calls]
  StandAlone,        \* those called more often until they have a block
  StandAloneInterval,\* in every third round
  Patience,          \* [contracts that refuse late calls -> rounds a call may be late]
  TableNum,          \* number of tables of the group
  ScheduleIntervals, \* values of table_statistic_report_schedule_interval
  ScheduleRange,     \* cur_interval counts modulo this number (2^16 in the code)
  Deployments,       \* the sets of contracts a group may run
  Cycle              \* bound: rounds are counted modulo this number

Statistic == "statistic"

ASSUME RoleContextAssumption ==
  /\ Interval \in [Contract -> Nat \ {0}]
  /\ DOMAIN Patience \subseteq Contract /\ Patience \in [DOMAIN Patience -> Nat]
  /\ StandAlone \subseteq Contract
  /\ {StandAloneInterval, TableNum, ScheduleRange, Cycle} \subseteq Nat \ {0}
  /\ ScheduleIntervals \subseteq 1 .. ScheduleRange - 1
  /\ DOMAIN Vnode = Deployments
  /\ \A d \in Deployments : d \subseteq Contract \cup {Statistic}
  /\ Cycle % StandAloneInterval = 0 /\ \A c \in Contract : Cycle % Interval[c] = 0
  /\ \A i \in ScheduleIntervals : Cycle % (i * TableNum) = 0

VARIABLES
  here,        \* the contracts of the group; never changes
  round,       \* height of the timer's latest block
  seen,        \* m_latest_timer: whether the contract manager has had this block
  schedule,    \* table_statistic_report_schedule_interval
  contexts,    \* [vnode with role contexts -> cur_interval of its schedule]
  called,      \* cur_table: the table called last
  calls,       \* [Contract -> ages of the calls made and not executed]
  started,     \* contracts of StandAlone that have a block
  steady       \* history: since the last turn there was one role context, had every
               \*   round's block, and the schedule stayed

contextVars == <<round, seen, schedule, contexts, called, calls, started, steady>>

NoSchedule == -1
Live == DOMAIN contexts

-----------------------------------------------------------------------------
(***************************************************************************)
(* Vnodes come and go: do_new_vnode, do_destory_vnode.  The role context   *)
(* of a new vnode takes the place of the one of the group's vnode before   *)
(* (add_to_map), whose end makes no difference any more when it comes.     *)
(* What a role context knows is lost with it.                              *)
(***************************************************************************)
do_new_vnode(v) ==
  /\ v \notin Live
  /\ contexts' = [w \in {v} |-> NoSchedule]
  /\ steady' = FALSE
  /\ UNCHANGED <<here, round, seen, schedule, called, calls, started>>

do_destory_vnode(v) ==
  /\ v \in Live
  /\ contexts' = [w \in Live \ {v} |-> contexts[w]]
  /\ steady' = FALSE
  /\ UNCHANGED <<here, round, seen, schedule, called, calls, started>>

SetSchedule ==
  /\ Statistic \in here
  /\ schedule' \in ScheduleIntervals \ {schedule}
  /\ steady' = FALSE
  /\ UNCHANGED <<here, round, seen, contexts, called, calls, started>>

-----------------------------------------------------------------------------
(***************************************************************************)
(* The timer.                                                              *)
(***************************************************************************)
\* Calls beyond the patience of their contract are all alike; if its patience
\* has no end, all calls are.
Aged(c, ages) ==
  IF c \in DOMAIN Patience THEN {IF age > Patience[c] THEN age ELSE age + 1 : age \in ages}
                           ELSE ages

InTime(c, age) == c \in DOMAIN Patience => age <= Patience[c]

Ages(c) == IF c \in DOMAIN Patience THEN 0 .. Patience[c] + 1 ELSE {0}

TimerBlock ==
  /\ round' = (round + 1) % Cycle
  /\ seen' = FALSE
  /\ steady' = (steady /\ seen)
  /\ calls' = [c \in Contract |-> Aged(c, calls[c])]
  /\ UNCHANGED <<here, schedule, contexts, called, started>>

\* on_block_timer of a contract with a timer: in multiples of its interval, or
\* of 3 as long as an election contract has not got a block of its own
\* (runtime_stand_alone).
Due(c) == round % (IF c \in StandAlone \ started THEN StandAloneInterval ELSE Interval[c]) = 0

\* cur_interval after one more round.
Advanced(cur) == (cur + 1) % ScheduleRange

\* on_block_timer of the statistics contract: the first block a role context
\* sees brings a call, and then every schedule-th.
TurnDue(cur) == cur = NoSchedule \/ Advanced(cur) = schedule

\* slip: the count goes on after a call
CurrentRunning(cur) == IF cur = NoSchedule THEN 0 ELSE Advanced(cur)

CurrentInterval(cur) == IF TurnDue(cur) THEN 0 ELSE Advanced(cur)

\* do_on_block with a timer block: every role context there is gets it, in one
\* go, and blocks that are not newer than the last one are ignored (valid_call
\* ignores them once more).
do_on_block ==
  /\ ~ seen
  /\ seen' = TRUE
  /\ calls' = [c \in Contract |->
                 IF c \in here /\ Live # {} /\ Due(c) THEN calls[c] \cup {0} ELSE calls[c]]
  /\ IF Statistic \in here
       THEN /\ contexts' = [v \in Live |-> CurrentInterval(contexts[v])]
            /\ called' = IF \E v \in Live : TurnDue(contexts[v])
                           THEN (round \div schedule) % TableNum
                           ELSE called
            /\ steady' = (steady \/ \E v \in Live : TurnDue(contexts[v]))
       ELSE UNCHANGED <<contexts, called, steady>>
  /\ UNCHANGED <<here, round, schedule, started>>

\* A call of contract c is executed.  It carries the next number of the
\* sender's transactions, and so do the others that were made before it was
\* executed: they exclude each other.
Execute(c, age) ==
  /\ age \in calls[c]
  /\ calls' = [calls EXCEPT ![c] = {}]
  /\ UNCHANGED <<here, round, seen, schedule, contexts, called, steady>>

-----------------------------------------------------------------------------
ContextInit ==
  /\ here \in Deployments
  /\ round = 0 /\ seen = FALSE
  /\ schedule \in ScheduleIntervals
  /\ contexts = [v \in {} |-> NoSchedule]
  /\ called = 0
  /\ calls = [c \in Contract |-> {}]
  /\ started = {}
  /\ steady = FALSE

ContextNext ==
  \/ \E v \in Vnode[here] : do_new_vnode(v) \/ do_destory_vnode(v)
  \/ SetSchedule
  \/ TimerBlock
  \/ do_on_block

ContextTypeOK ==
  /\ here \in Deployments
  /\ round \in 0 .. Cycle - 1 /\ seen \in BOOLEAN
  /\ schedule \in ScheduleIntervals
  /\ Live \subseteq Vnode[here] /\ Cardinality(Live) <= 1
  /\ \A v \in Live : contexts[v] \in {NoSchedule} \cup 0 .. ScheduleRange - 1
  /\ called \in 0 .. TableNum - 1
  /\ \A c \in Contract : calls[c] \subseteq Ages(c)
  /\ started \subseteq StandAlone
  /\ steady \in BOOLEAN
=============================================================================
