----------------------------- MODULE VoteReport -----------------------------
(***************************************************************************)
(* How votes reach the two contracts that use them.  Every table has a     *)
(* vote contract (xtable_vote_contract.cpp) that keeps what each of its    *)
(* voters gave to each node and the total a node got.  A vote or unvote    *)
(* transaction that comes more than votes_report_interval after the last   *)
(* report sends the totals, split into batches, to the registration        *)
(* contract of the beacon chain (REC, xrec_registration_contract.cpp) and  *)
(* to the vote contract of the ZEC chain (xzec_vote_contract.cpp).  Each   *)
(* batch is an asynchronous call of its own; calls arrive in any order.    *)
(*                                                                         *)
(* A handler that fails an XCONTRACT_ENSURE is rolled back as a whole: a   *)
(* failed vote is no step, a failed delivery only uses up the call.        *)
(*                                                                         *)
(* Accounts of nodes are numbers, which gives the key order of a map.      *)
(***************************************************************************)
EXTENDS Integers, FiniteSets, FiniteSetsExt, Functions

CONSTANTS
  Table,         \* tables, each with its vote contract
  Voter,
  TableOf,       \* the table a voter's account belongs to
  Node,          \* accounts of nodes, numbers
  Auditor,       \* the nodes whose miner type could be an auditor
  GenesisNodes,  \* seed nodes setup() registers
  Joining,       \* bound: the nodes that come and go in this model
  Receiver,      \* the receivers looked at: "rec", "zec" or both
  ActiveSets,    \* sets of registered nodes that make the network active
  Amounts,       \* votes given or taken in one call, per node
  ReportInterval,\* votes_report_interval
  BatchLimit,    \* XVOTE_TRX_LIMIT
  MinVotes,      \* min_votes_pernode_num
  MaxNodes,      \* max_vote_nodes_num
  MaxHeld,       \* bound: votes a voter gives to a node
  MaxTime        \* bound: the logic clock

ASSUME TableAssumption ==
  /\ IsFiniteSet(Table) /\ IsFiniteSet(Voter)
  /\ TableOf \in [Voter -> Table]
ASSUME NodeAssumption ==
  /\ Node \subseteq Nat
  /\ IsFiniteSet(Node)
  /\ Auditor \subseteq Node
  /\ GenesisNodes \subseteq Node
  /\ Joining \subseteq Node
  /\ Receiver \subseteq {"rec", "zec"}
  /\ ActiveSets \subseteq SUBSET Node
ASSUME VoteNumberAssumption ==
  /\ Amounts \subseteq Nat
  /\ ReportInterval \in Nat
  /\ BatchLimit \in Nat \ {0}
  /\ MinVotes \in Nat \ {0}
  /\ MaxNodes \in Nat
  /\ MaxHeld \in Nat
  /\ MaxTime \in Nat

VARIABLES
  votes,        \* VOTES_KEY of every table: [voter -> map of node to votes]
  pollable,     \* POLLABLE_KEY: [table -> map of node to total]
  report_time,  \* TIME_KEY: [table -> time of the last report]
  calls,        \* batches on their way
  reported,     \* history: [table -> map of report time to the totals sent]
  nodes,        \* REC's REG_KEY: map of registered node to m_vote_amount
  activation,   \* REC's activation_time, 0 while not activated
  tickets,      \* TICKETS_KEY: [receiver -> [table -> map of node to total]]
  tickets_time, \* VOTE_REPORT_TIME_KEY: [receiver -> [table -> time]]
  zec_since,    \* when ZEC first saw REC's activation, 0 before
  time          \* TIME()

tableVars == <<votes, pollable, report_time, reported>>
recVars == <<nodes, activation>>
vars == <<tableVars, calls, recVars, tickets, tickets_time, zec_since, time>>

\* A map of nodes to votes.
IsVotes(m) == DOMAIN m \subseteq Node /\ m \in [DOMAIN m -> Nat]
NoVotes == [n \in {} |-> 0]
VotesFor(m, n) == IF n \in DOMAIN m THEN m[n] ELSE 0

-----------------------------------------------------------------------------
(***************************************************************************)
(* The vote contract of a table.  calc_advance_tickets and                 *)
(* add_advance_tickets, for all entries of one call together: entries are  *)
(* distinct nodes, so their order does not matter.                         *)
(***************************************************************************)
Added(m, info) == [n \in DOMAIN m \cup DOMAIN info |-> VotesFor(m, n) + VotesFor(info, n)]

Taken(m, info) == [n \in {k \in DOMAIN m : m[k] # VotesFor(info, k)} |->
                     m[n] - VotesFor(info, n)]

-----------------------------------------------------------------------------
(***************************************************************************)
(* trx_split_helper: the entries in key order, BatchLimit to a batch.      *)
(***************************************************************************)
Rank(n, S) == Cardinality({k \in S : k < n})

Slice(n, S) == {k \in S : Rank(k, S) \div BatchLimit = Rank(n, S) \div BatchLimit}

\* slip: the last, incomplete batch is not pushed
FullBatches(m) == {[k \in Slice(n, DOMAIN m) |-> m[k]] :
                     n \in {k \in DOMAIN m : Cardinality(Slice(k, DOMAIN m)) = BatchLimit}}

Batches(m) == {[k \in Slice(n, DOMAIN m) |-> m[k]] : n \in DOMAIN m}

\* is_expire; a clock behind the last report fails the call.
ClockOK(t) == time >= report_time[t]
is_expire(t) == time - report_time[t] > ReportInterval

commit(t, total) ==
  calls \cup [to : Receiver, table : {t}, time : {time}, content : Batches(total)]

\* The tail of set_vote_info, the totals being updated.
Report(t, total) ==
  /\ ClockOK(t)
  /\ IF is_expire(t)
       THEN /\ report_time' = [report_time EXCEPT ![t] = time]
            /\ calls' = commit(t, total)
            /\ reported' = [reported EXCEPT ![t] =
                              [s \in DOMAIN @ \cup {time} |->
                                 IF s = time THEN total ELSE @[s]]]
       ELSE UNCHANGED <<report_time, calls, reported>>

voteNode(v, info) ==
  LET t == TableOf[v]
      held == Added(votes[v], info)
      total == Added(pollable[t], info)
  IN  /\ DOMAIN info \subseteq DOMAIN nodes \cap Auditor
      /\ \A n \in DOMAIN info : info[n] >= MinVotes
      /\ Cardinality(DOMAIN held) <= MaxNodes
      /\ \A n \in DOMAIN held : held[n] <= MaxHeld
      /\ votes' = [votes EXCEPT ![v] = held]
      /\ pollable' = [pollable EXCEPT ![t] = total]
      /\ Report(t, total)
      /\ UNCHANGED <<recVars, tickets, tickets_time, zec_since, time>>

\* slip: the votes held are not compared with those taken back
HoldsAny(v, info) == DOMAIN info \subseteq DOMAIN votes[v]

Holds(v, info) == \A n \in DOMAIN info : n \in DOMAIN votes[v] /\ info[n] <= votes[v][n]

unvoteNode(v, info) ==
  LET t == TableOf[v]
      total == Taken(pollable[t], info)
  IN  /\ Holds(v, info)
      /\ votes' = [votes EXCEPT ![v] = Taken(@, info)]
      /\ pollable' = [pollable EXCEPT ![t] = total]
      /\ Report(t, total)
      /\ UNCHANGED <<recVars, tickets, tickets_time, zec_since, time>>

-----------------------------------------------------------------------------
(***************************************************************************)
(* The receivers.  handle_receive_shard_votes is the same code in both: a  *)
(* late batch of an older report fails, a batch of the report at hand is   *)
(* merged without overwriting, a newer report replaces the tally.          *)
(***************************************************************************)
Merged(old, new) == [n \in DOMAIN old \cup DOMAIN new |->
                       IF n \in DOMAIN old THEN old[n] ELSE new[n]]

\* slip: every batch replaces the tally, as the first version did
ReceiveReplacing(r, m) ==
  /\ m.time >= tickets_time[r][m.table]
  /\ tickets_time' = [tickets_time EXCEPT ![r][m.table] = m.time]
  /\ tickets' = [tickets EXCEPT ![r][m.table] = m.content]

\* slip: a batch of an older report is taken as well
ReceiveLate(r, m) ==
  /\ tickets_time' = [tickets_time EXCEPT ![r][m.table] = m.time]
  /\ tickets' = [tickets EXCEPT ![r][m.table] =
                   IF m.time = tickets_time[r][m.table] THEN Merged(@, m.content)
                                                        ELSE m.content]

handle_receive_shard_votes(r, m) ==
  /\ m.time >= tickets_time[r][m.table]
  /\ tickets_time' = [tickets_time EXCEPT ![r][m.table] = m.time]
  /\ tickets' = [tickets EXCEPT ![r][m.table] =
                   IF m.time = tickets_time[r][m.table] THEN Merged(@, m.content)
                                                        ELSE m.content]

Refused(r, m) == /\ m.time < tickets_time[r][m.table]
                 /\ UNCHANGED <<tickets, tickets_time>>

\* The sum over the tables' tallies at REC.
Tally(tk, n) == SumFunction([t \in Table |-> VotesFor(tk[t], n)])

\* check_and_set_genesis_stage: once activated, for good.
check_and_set_genesis_stage(registered) ==
  activation' = IF activation = 0 /\ registered \in ActiveSets THEN time ELSE activation

\* slip: m_vote_amount is computed before the new batch is stored
RecountStale(r) == nodes' = [n \in DOMAIN nodes |-> Tally(tickets[r], n)]

Recount(r) == nodes' = [n \in DOMAIN nodes |-> Tally(tickets'[r], n)]

update_batch_stake_v2(m) ==
  /\ m.to = "rec"
  /\ \/ /\ handle_receive_shard_votes("rec", m)
        /\ Recount("rec")
        /\ check_and_set_genesis_stage(DOMAIN nodes)
     \/ /\ Refused("rec", m)
        /\ UNCHANGED recVars

\* is_mainnet_activated reads ZEC's copy of REC's state.
on_receive_shard_votes_v2(m) ==
  /\ m.to = "zec"
  /\ \/ /\ zec_since = 0
        /\ UNCHANGED <<tickets, tickets_time>>
     \/ /\ zec_since # 0
        /\ handle_receive_shard_votes("zec", m) \/ Refused("zec", m)
  /\ UNCHANGED recVars

Deliver(m) ==
  /\ m \in calls
  /\ calls' = calls \ {m}
  /\ update_batch_stake_v2(m) \/ on_receive_shard_votes_v2(m)
  /\ UNCHANGED <<tableVars, zec_since, time>>

-----------------------------------------------------------------------------
(***************************************************************************)
(* What the pipeline sees of registerNode2 and unregisterNode: a record    *)
(* with m_vote_amount 0 appears, a record disappears.  (Deposits and locks *)
(* are in module Registration.)                                            *)
(***************************************************************************)
registerNode(n) ==
  /\ n \notin DOMAIN nodes
  /\ nodes' = [k \in DOMAIN nodes \cup {n} |-> IF k = n THEN 0 ELSE nodes[k]]
  /\ check_and_set_genesis_stage(DOMAIN nodes \cup {n})
  /\ UNCHANGED <<tableVars, calls, tickets, tickets_time, zec_since, time>>

unregisterNode(n) ==
  /\ n \in DOMAIN nodes
  /\ nodes' = [k \in DOMAIN nodes \ {n} |-> nodes[k]]
  /\ UNCHANGED <<tableVars, calls, activation, tickets, tickets_time, zec_since, time>>

\* External: ZEC synchronises the REC block that activated the network; the
\* logic clock advances.
ZecSync ==
  /\ activation # 0 /\ zec_since = 0
  /\ zec_since' = time
  /\ UNCHANGED <<tableVars, calls, recVars, tickets, tickets_time, time>>

Tick ==
  /\ time < MaxTime
  /\ time' = time + 1
  /\ UNCHANGED <<tableVars, calls, recVars, tickets, tickets_time, zec_since>>

\* The network starts without votes.  (setup() of all three contracts imports
\* the same old votes; the first report replaces the tallies.)
Init ==
  /\ votes = [v \in Voter |-> NoVotes]
  /\ pollable = [t \in Table |-> NoVotes]
  /\ report_time = [t \in Table |-> 0]
  /\ calls = {}
  /\ reported = [t \in Table |-> [s \in {} |-> NoVotes]]
  /\ nodes = [n \in GenesisNodes |-> 0]
  /\ activation = 0
  /\ tickets = [r \in Receiver |-> [t \in Table |-> NoVotes]]
  /\ tickets_time = [r \in Receiver |-> [t \in Table |-> 0]]
  /\ zec_since = 0
  /\ time = 1

VoteInfo == UNION {[S -> Amounts] : S \in (SUBSET Node) \ {{}}}

Vote == \E v \in Voter, info \in VoteInfo : voteNode(v, info)
Unvote == \E v \in Voter, info \in VoteInfo : unvoteNode(v, info)
Receive == \E m \in calls : Deliver(m)
Register == \E n \in Joining : registerNode(n)
Unregister == \E n \in Joining : unregisterNode(n)

Next == Vote \/ Unvote \/ Receive \/ Register \/ Unregister \/ ZecSync \/ Tick

Spec == Init /\ [][Next]_vars

\* A call sent across chains is carried until it is executed.
FairSpec == Spec /\ WF_vars(Receive)

-----------------------------------------------------------------------------
(***************************************************************************)
(* Properties.                                                             *)
(***************************************************************************)
TypeOK ==
  /\ DOMAIN votes = Voter /\ \A v \in Voter : IsVotes(votes[v])
  /\ DOMAIN pollable = Table /\ \A t \in Table : IsVotes(pollable[t])
  /\ report_time \in [Table -> Nat]
  /\ \A m \in calls : /\ m.to \in Receiver /\ m.table \in Table
                     /\ m.time \in Nat /\ IsVotes(m.content)
  /\ DOMAIN reported = Table
  /\ \A t \in Table : /\ DOMAIN reported[t] \subseteq Nat
                      /\ \A s \in DOMAIN reported[t] : IsVotes(reported[t][s])
  /\ IsVotes(nodes)
  /\ activation \in Nat
  /\ tickets \in [Receiver -> [Table -> {tickets[r][t] : r \in Receiver, t \in Table}]]
  /\ \A r \in Receiver, t \in Table : IsVotes(tickets[r][t])
  /\ tickets_time \in [Receiver -> [Table -> Nat]]
  /\ zec_since \in Nat
  /\ time \in Nat

(***************************************************************************)
(* A table's total for a node is the sum of what its voters hold for it,   *)
(* after any sequence of votes and withdrawals, and a node nobody votes    *)
(* for has no entry: the two properties are updated separately.            *)
(***************************************************************************)
PollableIsSumOfVotes ==
  \A t \in Table, n \in Node :
    LET sum == SumFunction([v \in {w \in Voter : TableOf[w] = t} |-> VotesFor(votes[v], n)])
    IN  /\ VotesFor(pollable[t], n) = sum
        /\ n \in DOMAIN pollable[t] <=> sum # 0

(***************************************************************************)
(* A tally never mixes reports: whatever order the batches come in, every  *)
(* entry of it is the one of the report it is dated with.                  *)
(***************************************************************************)
TallyOfOneReport ==
  \A r \in Receiver, t \in Table : tickets[r][t] # NoVotes =>
    LET s == tickets_time[r][t]
    IN  /\ s \in DOMAIN reported[t]
        /\ \A n \in DOMAIN tickets[r][t] :
             n \in DOMAIN reported[t][s] /\ tickets[r][t][n] = reported[t][s][n]

(***************************************************************************)
(* No batch is lost on the way: once every call of a table has arrived,    *)
(* REC holds its latest report that had an entry (an empty one sends no    *)
(* batch) whole.  ZEC does, if the report was sent after ZEC saw the       *)
(* activation: of an older one it may hold any part.                       *)
(***************************************************************************)
Sent(t) == {s \in DOMAIN reported[t] : reported[t][s] # NoVotes}

Arrived(r, t) == ~ \E m \in calls : m.to = r /\ m.table = t

ReportArrivesWhole ==
  \A r \in Receiver, t \in Table :
    Arrived(r, t) /\ Sent(t) # {} =>
      LET s == Max(Sent(t))
      IN  r = "rec" \/ (zec_since # 0 /\ s > zec_since)
            => tickets[r][t] = reported[t][s] /\ tickets_time[r][t] = s

(***************************************************************************)
(* The vote amount of a registered node is the sum of the tallies, or 0    *)
(* when it has registered since the last batch: nothing else changes it,   *)
(* and a node that left and came back does not keep its old votes.         *)
(***************************************************************************)
VoteAmountIsTally ==
  \A n \in DOMAIN nodes : nodes[n] \in {0, Tally(tickets["rec"], n)}

\* What is stored as a total, at the table and at REC, is the total of what it
\* is made of, though the parts and the total are written by different calls.
TotalsAreSums == PollableIsSumOfVotes /\ VoteAmountIsTally

(***************************************************************************)
(* Every report that has an entry reaches REC: its tally comes to be dated *)
(* with that report or a later one.                                        *)
(***************************************************************************)
ReportsReachRec ==
  \A t \in Table, s \in 1 .. MaxTime :
    (s \in Sent(t)) ~> (tickets_time["rec"][t] >= s)

(***************************************************************************)
(* What xreward/README.md:7 says of the table vote contract: it reports    *)
(* the votes, after abolishing votes too.  Once its calls have arrived,    *)
(* what ZEC holds for a table is the latest report, be it empty.           *)
(***************************************************************************)
AbolishedVotesReported ==
  \A t \in Table :
    Arrived("zec", t) /\ Sent(t) # {} /\ zec_since # 0 /\ Max(Sent(t)) > zec_since
      => tickets["zec"][t] = reported[t][Max(DOMAIN reported[t])]

(***************************************************************************)
(* Tables publish and receivers read as module Publication promises: a     *)
(* tally only grows within a report and is only exchanged for a later one, *)
(* whatever order the batches of several reports come in.                  *)
(***************************************************************************)
Publishing == INSTANCE Publication WITH
  Publisher <- Table, Reader <- Receiver,
  editions <- reported, held <- tickets, dated <- tickets_time

TalliesFollowReports == Publishing!Spec
=============================================================================
