-------------------------- MODULE VoteReportProofs --------------------------
(***************************************************************************)
(* Proofs about module VoteReport, for any number of tables, voters and    *)
(* nodes, any votes, any limits of a batch, and calls that arrive in any   *)
(* order.                                                                  *)
(***************************************************************************)
EXTENDS VoteReport, SumProofs

IsCall(m) == /\ m.to \in Receiver /\ m.table \in Table
             /\ m.time \in Nat /\ IsVotes(m.content)

Typed ==
  /\ DOMAIN votes = Voter /\ \A v \in Voter : IsVotes(votes[v])
  /\ DOMAIN pollable = Table /\ \A t \in Table : IsVotes(pollable[t])
  /\ report_time \in [Table -> Nat]
  /\ \A m \in calls : IsCall(m)
  /\ DOMAIN reported = Table
  /\ \A t \in Table : /\ DOMAIN reported[t] \subseteq 1 .. report_time[t]
                      /\ \A s \in DOMAIN reported[t] : IsVotes(reported[t][s])
  /\ \A t \in Table : report_time[t] <= time
  /\ IsVotes(nodes)
  /\ activation \in Nat
  /\ tickets = [r \in Receiver |-> tickets[r]]
  /\ \A r \in Receiver : /\ tickets[r] = [t \in Table |-> tickets[r][t]]
                         /\ \A t \in Table : IsVotes(tickets[r][t])
  /\ tickets_time \in [Receiver -> [Table -> Nat]]
  /\ \A r \in Receiver, t \in Table : tickets_time[r][t] <= report_time[t]
  /\ zec_since \in Nat
  /\ time \in Nat \ {0}

\* A call carries entries of the report it is dated with.
PartOf(content, t, s) ==
  /\ s \in DOMAIN reported[t]
  /\ \A n \in DOMAIN content :
       n \in DOMAIN reported[t][s] /\ content[n] = reported[t][s][n]

CallsAreOfReports == \A m \in calls : PartOf(m.content, m.table, m.time) /\ DOMAIN m.content # {}

\* What a receiver that takes reports has of the latest one, together with what
\* is on its way, is all of it; and it has nothing later.
Takes(r, s) == r = "rec" \/ (zec_since # 0 /\ s > zec_since)

InHand(r, t, s, n) ==
  \/ tickets_time[r][t] = s /\ n \in DOMAIN tickets[r][t]
  \/ \E m \in calls : m.to = r /\ m.table = t /\ m.time = s /\ n \in DOMAIN m.content

NoneLost ==
  \A r \in Receiver, t \in Table : \A s \in Sent(t) :
    (\A u \in Sent(t) : u <= s) =>
      /\ tickets_time[r][t] <= s
      /\ Takes(r, s) => \A n \in DOMAIN reported[t][s] : InHand(r, t, s, n)

\* Without REC among the receivers looked at no batch arrives there.
NoTallyNoVotes == "rec" \notin Receiver => \A n \in DOMAIN nodes : nodes[n] = 0

IInv ==
  /\ Typed /\ CallsAreOfReports /\ TallyOfOneReport /\ NoneLost
  /\ PollableIsSumOfVotes /\ VoteAmountIsTally /\ NoTallyNoVotes

-----------------------------------------------------------------------------
(***************************************************************************)
(* Maps of nodes to votes.                                                 *)
(***************************************************************************)
LEMMA VotesForType ==
  ASSUME NEW m, IsVotes(m), NEW n
  PROVE  VotesFor(m, n) \in Nat
BY DEF IsVotes, VotesFor

LEMMA InfoIsVotes ==
  ASSUME NEW info \in VoteInfo
  PROVE  IsVotes(info) /\ DOMAIN info # {}
<1>1. PICK S \in (SUBSET Node) \ {{}} : info \in [S -> Amounts]
  BY DEF VoteInfo
<1> QED BY <1>1, VoteNumberAssumption DEF IsVotes

LEMMA AddedVotes ==
  ASSUME NEW m, NEW info, IsVotes(m), IsVotes(info)
  PROVE  /\ IsVotes(Added(m, info))
         /\ DOMAIN Added(m, info) = DOMAIN m \cup DOMAIN info
         /\ \A n : VotesFor(Added(m, info), n) = VotesFor(m, n) + VotesFor(info, n)
<1>1. \A n : VotesFor(m, n) \in Nat /\ VotesFor(info, n) \in Nat
  BY VotesForType
<1>2. IsVotes(Added(m, info)) /\ DOMAIN Added(m, info) = DOMAIN m \cup DOMAIN info
  BY <1>1 DEF Added, IsVotes
<1>3. ASSUME NEW n PROVE VotesFor(Added(m, info), n) = VotesFor(m, n) + VotesFor(info, n)
  <2>1. CASE n \in DOMAIN m \cup DOMAIN info
    BY <2>1 DEF Added, VotesFor
  <2>2. CASE n \notin DOMAIN m \cup DOMAIN info
    BY <2>2, <1>2 DEF VotesFor
  <2> QED BY <2>1, <2>2
<1> QED BY <1>2, <1>3

LEMMA TakenVotes ==
  ASSUME NEW m, NEW info, IsVotes(m), IsVotes(info),
         \A n : VotesFor(info, n) <= VotesFor(m, n)
  PROVE  /\ IsVotes(Taken(m, info))
         /\ DOMAIN Taken(m, info) \subseteq DOMAIN m
         /\ \A n : VotesFor(Taken(m, info), n) = VotesFor(m, n) - VotesFor(info, n)
         /\ \A n \in DOMAIN Taken(m, info) : VotesFor(Taken(m, info), n) # 0
<1>1. \A n : VotesFor(m, n) \in Nat /\ VotesFor(info, n) \in Nat
  BY VotesForType
<1> DEFINE D == {k \in DOMAIN m : m[k] # VotesFor(info, k)}
<1>2. /\ DOMAIN Taken(m, info) = D /\ D \subseteq DOMAIN m
      /\ \A n \in D : Taken(m, info)[n] = m[n] - VotesFor(info, n)
  BY DEF Taken
<1>3. \A n \in D : /\ m[n] = VotesFor(m, n)
                   /\ m[n] - VotesFor(info, n) \in Nat /\ m[n] - VotesFor(info, n) # 0
  BY <1>1 DEF VotesFor
<1>4. IsVotes(Taken(m, info))
  <2>1. Taken(m, info) = [n \in D |-> m[n] - VotesFor(info, n)]
    BY DEF Taken
  <2>2. D \subseteq Node
    BY DEF IsVotes
  <2> HIDE DEF D
  <2> QED BY <1>2, <1>3, <2>1, <2>2 DEF IsVotes
<1>5. ASSUME NEW n PROVE VotesFor(Taken(m, info), n) = VotesFor(m, n) - VotesFor(info, n)
  <2>1. CASE n \in D
    BY <1>2, <1>3, <2>1 DEF VotesFor
  <2>2. CASE n \notin D
    <3>1. VotesFor(Taken(m, info), n) = 0
      BY <1>2, <2>2 DEF VotesFor
    <3>2. VotesFor(m, n) = VotesFor(info, n)
      <4>1. CASE n \in DOMAIN m
        BY <2>2, <4>1 DEF VotesFor
      <4>2. CASE n \notin DOMAIN m
        <5>1. VotesFor(m, n) = 0
          BY <4>2 DEF VotesFor
        <5> QED BY <1>1, <5>1
      <4> QED BY <4>1, <4>2
    <3> QED BY <1>1, <3>1, <3>2
  <2> QED BY <2>1, <2>2
<1>6. \A n \in D : VotesFor(Taken(m, info), n) # 0
  BY <1>2, <1>3 DEF VotesFor
<1> QED BY <1>2, <1>4, <1>5, <1>6

-----------------------------------------------------------------------------
(***************************************************************************)
(* The totals of a table.                                                  *)
(***************************************************************************)
VotersOf(t) == {w \in Voter : TableOf[w] = t}

VotesAt(t, n) == [v \in VotersOf(t) |-> VotesFor(votes[v], n)]

LEMMA VotesAtType ==
  ASSUME \A v \in Voter : IsVotes(votes[v]), NEW t \in Table, NEW n
  PROVE  /\ IsFiniteSet(VotersOf(t))
         /\ \A v \in VotersOf(t) : VotesAt(t, n)[v] \in Nat
         /\ SumFunction(VotesAt(t, n)) = SumFunctionOnSet(VotesAt(t, n), VotersOf(t))
         /\ SumFunction(VotesAt(t, n)) \in Nat
         /\ \A v \in VotersOf(t) : VotesFor(votes[v], n) <= SumFunction(VotesAt(t, n))
<1>1. IsFiniteSet(VotersOf(t))
  BY TableAssumption, FS_Subset DEF VotersOf
<1>2. \A v \in VotersOf(t) : VotesAt(t, n)[v] \in Nat /\ VotesAt(t, n)[v] = VotesFor(votes[v], n)
  BY VotesForType DEF VotersOf, VotesAt
<1>3. SumFunction(VotesAt(t, n)) = SumFunctionOnSet(VotesAt(t, n), VotersOf(t))
  BY DEF SumFunction, VotesAt
<1>4. /\ SumFunctionOnSet(VotesAt(t, n), VotersOf(t)) \in Nat
      /\ \A v \in VotersOf(t) :
           VotesAt(t, n)[v] <= SumFunctionOnSet(VotesAt(t, n), VotersOf(t))
  BY <1>1, <1>2, SumOfNats
<1> QED BY <1>1, <1>2, <1>3, <1>4

\* A voter's change is the change of his table's sum, and of no other.
LEMMA OneVoterChanges ==
  ASSUME \A v \in Voter : IsVotes(votes[v]), DOMAIN votes = Voter,
         NEW v \in Voter, NEW held, IsVotes(held),
         votes' = [votes EXCEPT ![v] = held], NEW n
  PROVE  /\ \A t \in Table \ {TableOf[v]} : VotesAt(t, n)' = VotesAt(t, n)
         /\ SumFunction(VotesAt(TableOf[v], n)')
              = SumFunction(VotesAt(TableOf[v], n)) + (VotesFor(held, n) - VotesFor(votes[v], n))
<1> DEFINE t == TableOf[v]
           f == VotesAt(t, n)
           g == VotesAt(t, n)'
           S == VotersOf(t)
<1>1. \A w \in Voter : /\ IsVotes(votes'[w])
                       /\ votes'[w] = IF w = v THEN held ELSE votes[w]
  OBVIOUS
<1>2. \A u \in Table \ {t} : VotesAt(u, n)' = VotesAt(u, n)
  <2> SUFFICES ASSUME NEW u \in Table \ {t} PROVE VotesAt(u, n)' = VotesAt(u, n)
    OBVIOUS
  <2>1. \A w \in VotersOf(u) : votes'[w] = votes[w]
    BY <1>1 DEF VotersOf
  <2> QED BY <2>1 DEF VotesAt, VotersOf
<1>3. t \in Table /\ v \in S
  BY TableAssumption DEF VotersOf
<1>4. /\ IsFiniteSet(S) /\ \A w \in S : f[w] \in Nat
      /\ SumFunction(f) = SumFunctionOnSet(f, S)
  BY <1>3, VotesAtType
<1>5. \A w \in S : g[w] \in Nat /\ g[w] = IF w = v THEN VotesFor(held, n) ELSE f[w]
  BY <1>1, VotesForType DEF VotesAt, VotersOf
<1>6. SumFunction(g) = SumFunctionOnSet(g, S)
  BY DEF SumFunction, VotesAt, VotersOf
<1>7. f[v] = VotesFor(votes[v], n)
  BY <1>3 DEF VotesAt
<1> HIDE DEF f, g, S
<1>8. SumFunctionOnSet(g, S) = SumFunctionOnSet(f, S) + (g[v] - f[v])
  <2>1. /\ \A w \in S : f[w] \in Int /\ g[w] \in Int
        /\ \A w \in S \ {v} : g[w] = f[w]
    BY <1>4, <1>5
  <2> QED BY <1>3, <1>4, <2>1, SumChange
<1>9. SumFunction(g) = SumFunction(f) + (VotesFor(held, n) - VotesFor(votes[v], n))
  BY <1>3, <1>4, <1>5, <1>6, <1>7, <1>8
<1> QED BY <1>2, <1>9 DEF f, g

\* The properties of a table's totals.
TotalIs(t, n) ==
  /\ VotesFor(pollable[t], n) = SumFunction(VotesAt(t, n))
  /\ n \in DOMAIN pollable[t] <=> SumFunction(VotesAt(t, n)) # 0

LEMMA PollableByTotals ==
  /\ PollableIsSumOfVotes <=> \A t \in Table, n \in Node : TotalIs(t, n)
  /\ PollableIsSumOfVotes' <=> \A t \in Table, n \in Node : TotalIs(t, n)'
BY DEF PollableIsSumOfVotes, TotalIs, VotesAt, VotersOf

LEMMA VoteKeepsTotals ==
  ASSUME Typed, PollableIsSumOfVotes, NEW v \in Voter, NEW info \in VoteInfo,
         voteNode(v, info)
  PROVE  PollableIsSumOfVotes'
<1> DEFINE t == TableOf[v]
           held == Added(votes[v], info)
           total == Added(pollable[t], info)
<1>1. /\ votes' = [votes EXCEPT ![v] = held] /\ pollable' = [pollable EXCEPT ![t] = total]
      /\ \A n \in DOMAIN info : info[n] >= MinVotes
  BY DEF voteNode
<1>2. IsVotes(info) /\ t \in Table /\ IsVotes(votes[v]) /\ IsVotes(pollable[t])
  BY InfoIsVotes, TableAssumption DEF Typed
<1>3. /\ IsVotes(held) /\ DOMAIN total = DOMAIN pollable[t] \cup DOMAIN info
      /\ \A n : /\ VotesFor(held, n) = VotesFor(votes[v], n) + VotesFor(info, n)
                /\ VotesFor(total, n) = VotesFor(pollable[t], n) + VotesFor(info, n)
  BY <1>2, AddedVotes
<1>4. \A n : /\ VotesFor(info, n) \in Nat /\ (n \in DOMAIN info <=> VotesFor(info, n) # 0)
            /\ VotesFor(votes[v], n) \in Nat
  BY <1>1, <1>2, VotesForType, VoteNumberAssumption DEF VotesFor, IsVotes
<1> HIDE DEF held, total
<1>5. ASSUME NEW u \in Table, NEW n \in Node, TotalIs(u, n)
      PROVE  TotalIs(u, n)'
  <2>1. /\ \A w \in Table \ {t} : VotesAt(w, n)' = VotesAt(w, n)
        /\ SumFunction(VotesAt(t, n)')
              = SumFunction(VotesAt(t, n)) + (VotesFor(held, n) - VotesFor(votes[v], n))
    BY <1>1, <1>3, OneVoterChanges DEF Typed
  <2>2. SumFunction(VotesAt(t, n)) \in Nat
    BY <1>2, VotesAtType DEF Typed
  <2>3. CASE u # t
    <3>1. pollable'[u] = pollable[u]
      BY <1>1, <2>3 DEF Typed
    <3> QED BY <1>5, <2>1, <2>3, <3>1 DEF TotalIs
  <2>4. CASE u = t
    <3>1. pollable'[t] = total
      BY <1>1, <1>2 DEF Typed
    <3>2. SumFunction(VotesAt(t, n)') = SumFunction(VotesAt(t, n)) + VotesFor(info, n)
      BY <1>3, <1>4, <2>1, <2>2
    <3>3. VotesFor(total, n) = SumFunction(VotesAt(t, n)')
      BY <1>3, <1>5, <2>4, <3>2 DEF TotalIs
    <3>4. n \in DOMAIN total <=> SumFunction(VotesAt(t, n)') # 0
      BY <1>3, <1>4, <1>5, <2>2, <2>4, <3>2 DEF TotalIs
    <3> QED BY <2>4, <3>1, <3>3, <3>4 DEF TotalIs
  <2> QED BY <2>3, <2>4
<1> QED BY <1>5, PollableByTotals

LEMMA UnvoteKeepsTotals ==
  ASSUME Typed, PollableIsSumOfVotes, NEW v \in Voter, NEW info \in VoteInfo,
         unvoteNode(v, info)
  PROVE  /\ PollableIsSumOfVotes'
         /\ \A n : /\ VotesFor(info, n) <= VotesFor(votes[v], n)
                   /\ VotesFor(info, n) <= VotesFor(pollable[TableOf[v]], n)
<1> DEFINE t == TableOf[v]
           held == Taken(votes[v], info)
           total == Taken(pollable[t], info)
<1>1. /\ votes' = [votes EXCEPT ![v] = held] /\ pollable' = [pollable EXCEPT ![t] = total]
      /\ \A n \in DOMAIN info : n \in DOMAIN votes[v] /\ info[n] <= votes[v][n]
  BY DEF unvoteNode, Holds
<1>2. IsVotes(info) /\ t \in Table /\ IsVotes(votes[v]) /\ IsVotes(pollable[t])
  BY InfoIsVotes, TableAssumption DEF Typed
<1>3. \A n : /\ VotesFor(info, n) \in Nat /\ VotesFor(votes[v], n) \in Nat
            /\ VotesFor(pollable[t], n) \in Nat
  BY <1>2, VotesForType
<1>4. \A n : VotesFor(info, n) <= VotesFor(votes[v], n)
  <2> SUFFICES ASSUME NEW n PROVE VotesFor(info, n) <= VotesFor(votes[v], n)
    OBVIOUS
  <2>1. CASE n \in DOMAIN info
    BY <1>1, <2>1 DEF VotesFor
  <2>2. CASE n \notin DOMAIN info
    <3>1. VotesFor(info, n) = 0
      BY <2>2 DEF VotesFor
    <3> QED BY <1>3, <3>1
  <2> QED BY <2>1, <2>2
<1>5. \A n \in Node : VotesFor(pollable[t], n) = SumFunction(VotesAt(t, n))
  BY <1>2, PollableByTotals DEF TotalIs
<1>6. \A n : VotesFor(info, n) <= VotesFor(pollable[t], n)
  <2> SUFFICES ASSUME NEW n PROVE VotesFor(info, n) <= VotesFor(pollable[t], n)
    OBVIOUS
  <2>1. CASE n \in Node
    <3>1. v \in VotersOf(t)
      BY DEF VotersOf
    <3>2. VotesFor(votes[v], n) <= SumFunction(VotesAt(t, n))
      BY <1>2, <3>1, VotesAtType DEF Typed
    <3> QED BY <1>3, <1>4, <1>5, <2>1, <3>2
  <2>2. CASE n \notin Node
    <3>1. VotesFor(info, n) = 0
      BY <1>2, <2>2 DEF VotesFor, IsVotes
    <3> QED BY <1>3, <3>1
  <2> QED BY <2>1, <2>2
<1>7. /\ IsVotes(held)
      /\ \A n : VotesFor(held, n) = VotesFor(votes[v], n) - VotesFor(info, n)
  BY <1>2, <1>4, TakenVotes
<1>8. /\ \A n : VotesFor(total, n) = VotesFor(pollable[t], n) - VotesFor(info, n)
      /\ \A n \in DOMAIN total : VotesFor(total, n) # 0
  BY <1>2, <1>6, TakenVotes
<1> HIDE DEF held, total
<1>9. ASSUME NEW u \in Table, NEW n \in Node, TotalIs(u, n)
      PROVE  TotalIs(u, n)'
  <2>1. /\ \A w \in Table \ {t} : VotesAt(w, n)' = VotesAt(w, n)
        /\ SumFunction(VotesAt(t, n)')
              = SumFunction(VotesAt(t, n)) + (VotesFor(held, n) - VotesFor(votes[v], n))
    BY <1>1, <1>7, OneVoterChanges DEF Typed
  <2>2. SumFunction(VotesAt(t, n)) \in Nat
    BY <1>2, VotesAtType DEF Typed
  <2>3. CASE u # t
    <3>1. pollable'[u] = pollable[u]
      BY <1>1, <2>3 DEF Typed
    <3> QED BY <1>9, <2>1, <2>3, <3>1 DEF TotalIs
  <2>4. CASE u = t
    <3>1. pollable'[t] = total
      BY <1>1, <1>2 DEF Typed
    <3>2. SumFunction(VotesAt(t, n)') = SumFunction(VotesAt(t, n)) - VotesFor(info, n)
      BY <1>3, <1>7, <2>1, <2>2
    <3>3. VotesFor(total, n) = SumFunction(VotesAt(t, n)')
      BY <1>5, <1>8, <3>2
    <3>4. n \in DOMAIN total <=> SumFunction(VotesAt(t, n)') # 0
      BY <1>8, <3>3 DEF VotesFor
    <3> QED BY <2>4, <3>1, <3>3, <3>4 DEF TotalIs
  <2> QED BY <2>3, <2>4
<1>10. PollableIsSumOfVotes'
  BY <1>9, PollableByTotals
<1> QED BY <1>4, <1>6, <1>10

-----------------------------------------------------------------------------
(***************************************************************************)
(* A report.  Its batches are parts of the totals, and together all of     *)
(* them.                                                                   *)
(***************************************************************************)
LEMMA BatchesAreParts ==
  ASSUME NEW total, IsVotes(total)
  PROVE  /\ \A c \in Batches(total) :
              /\ IsVotes(c) /\ DOMAIN c # {} /\ DOMAIN c \subseteq DOMAIN total
              /\ \A n \in DOMAIN c : c[n] = total[n]
         /\ \A n \in DOMAIN total : \E c \in Batches(total) : n \in DOMAIN c
<1>1. \A n \in DOMAIN total : /\ n \in Slice(n, DOMAIN total)
                              /\ Slice(n, DOMAIN total) \subseteq DOMAIN total
  BY DEF Slice
<1>2. \A n \in DOMAIN total : [k \in Slice(n, DOMAIN total) |-> total[k]] \in Batches(total)
  BY DEF Batches
<1>3. ASSUME NEW c \in Batches(total)
      PROVE  /\ IsVotes(c) /\ DOMAIN c # {} /\ DOMAIN c \subseteq DOMAIN total
             /\ \A n \in DOMAIN c : c[n] = total[n]
  <2>1. PICK n \in DOMAIN total : c = [k \in Slice(n, DOMAIN total) |-> total[k]]
    BY <1>3 DEF Batches
  <2>2. DOMAIN c = Slice(n, DOMAIN total) /\ \A k \in DOMAIN c : c[k] = total[k]
    BY <2>1
  <2>3. IsVotes(c)
    BY <1>1, <2>1, <2>2 DEF IsVotes
  <2> QED BY <1>1, <2>2, <2>3
<1>4. ASSUME NEW n \in DOMAIN total
      PROVE  \E c \in Batches(total) : n \in DOMAIN c
  <2>1. n \in DOMAIN [k \in Slice(n, DOMAIN total) |-> total[k]]
    BY <1>1
  <2> QED BY <1>2, <2>1
<1> QED BY <1>3, <1>4

\* What a step leaves of the receivers when it only adds calls and reports.
OnlyReports == UNCHANGED <<recVars, tickets, tickets_time, zec_since, time>>

\* The state a report is written to.
ReportTyped ==
  /\ report_time \in [Table -> Nat]
  /\ \A m \in calls : IsCall(m)
  /\ DOMAIN reported = Table
  /\ \A t \in Table : /\ DOMAIN reported[t] \subseteq 1 .. report_time[t]
                      /\ \A s \in DOMAIN reported[t] : IsVotes(reported[t][s])
  /\ \A t \in Table : report_time[t] <= time
  /\ \A r \in Receiver, t \in Table : tickets_time[r][t] <= report_time[t]

\* A report that goes out is newer than all before it and changes none of them.
LEMMA ReportWritten ==
  ASSUME Typed, NEW t \in Table, NEW total, IsVotes(total), Report(t, total),
         UNCHANGED <<tickets, tickets_time, zec_since, time>>, is_expire(t)
  PROVE  /\ ReportTyped'
         /\ \A u \in Table \ {t} : reported'[u] = reported[u]
         /\ DOMAIN reported'[t] = DOMAIN reported[t] \cup {time}
         /\ time > report_time[t] /\ time \notin DOMAIN reported[t]
         /\ reported'[t][time] = total
         /\ \A s \in DOMAIN reported[t] : reported'[t][s] = reported[t][s] /\ s < time
         /\ calls' = calls \cup [to : Receiver, table : {t}, time : {time},
                                content : Batches(total)]
<1>1. /\ report_time' = [report_time EXCEPT ![t] = time]
      /\ calls' = commit(t, total)
      /\ reported' = [reported EXCEPT ![t] =
                        [s \in DOMAIN @ \cup {time} |-> IF s = time THEN total ELSE @[s]]]
  BY DEF Report
<1>2. /\ time \in Nat /\ time # 0 /\ report_time[t] \in Nat /\ ReportInterval \in Nat
      /\ time > report_time[t]
  <2>1. time \in Nat \ {0} /\ report_time[t] \in Nat /\ ReportInterval \in Nat
    BY VoteNumberAssumption DEF Typed
  <2>2. time - report_time[t] > ReportInterval
    BY DEF is_expire
  <2> QED BY <2>1, <2>2
<1>3. /\ DOMAIN reported = Table /\ DOMAIN reported' = Table
      /\ \A u \in Table \ {t} : reported'[u] = reported[u]
      /\ reported'[t] = [s \in DOMAIN reported[t] \cup {time} |->
                            IF s = time THEN total ELSE reported[t][s]]
  BY <1>1 DEF Typed
<1>4. DOMAIN reported[t] \subseteq 1 .. report_time[t]
  BY DEF Typed
<1>5. \A s \in DOMAIN reported[t] : s < time /\ s # time
  BY <1>2, <1>4
<1>6. /\ DOMAIN reported'[t] = DOMAIN reported[t] \cup {time}
      /\ reported'[t][time] = total
      /\ \A s \in DOMAIN reported[t] : reported'[t][s] = reported[t][s]
  BY <1>3, <1>5
<1>7. calls' = calls \cup [to : Receiver, table : {t}, time : {time}, content : Batches(total)]
  BY <1>1 DEF commit
<1>8. ReportTyped'
  <2>1. report_time' \in [Table -> Nat] /\ \A u \in Table : report_time[u] <= report_time'[u]
    BY <1>1, <1>2 DEF Typed
  <2>2. \A m \in calls' : IsCall(m)
    <3>1. ASSUME NEW m \in [to : Receiver, table : {t}, time : {time}, content : Batches(total)]
          PROVE  IsCall(m)
      BY <1>2, BatchesAreParts DEF IsCall
    <3> QED BY <1>7, <3>1 DEF Typed
  <2>3. \A u \in Table : report_time'[u] <= time
    BY <1>1, <1>2 DEF Typed
  <2>4. ASSUME NEW u \in Table
        PROVE  /\ DOMAIN reported'[u] \subseteq 1 .. report_time'[u]
               /\ \A s \in DOMAIN reported'[u] : IsVotes(reported'[u][s])
    <3>1. CASE u = t
      <4>1. report_time'[t] = time
        BY <1>1 DEF Typed
      <4>2. DOMAIN reported'[t] \subseteq 1 .. time
        BY <1>2, <1>4, <1>6
      <4>3. \A s \in DOMAIN reported'[t] : IsVotes(reported'[t][s])
        BY <1>6 DEF Typed
      <4> QED BY <3>1, <4>1, <4>2, <4>3
    <3>2. CASE u # t
      <4>1. report_time'[u] = report_time[u]
        BY <1>1, <3>2 DEF Typed
      <4> QED BY <1>3, <3>2, <4>1 DEF Typed
    <3> QED BY <3>1, <3>2
  <2>5. \A r \in Receiver, u \in Table : tickets_time'[r][u] <= report_time'[u]
    <3> SUFFICES ASSUME NEW r \in Receiver, NEW u \in Table
                 PROVE  tickets_time[r][u] <= report_time'[u]
      OBVIOUS
    <3>1. /\ tickets_time[r][u] \in Nat /\ report_time[u] \in Nat /\ report_time'[u] \in Nat
          /\ tickets_time[r][u] <= report_time[u]
      BY <2>1 DEF Typed
    <3> QED BY <2>1, <3>1
  <2> QED BY <1>3, <2>1, <2>2, <2>3, <2>4, <2>5 DEF ReportTyped
<1> QED BY <1>2, <1>3, <1>5, <1>6, <1>7, <1>8

\* What is said of reports goes on, the new one being on its way as a whole.
Carried == CallsAreOfReports /\ TallyOfOneReport /\ NoneLost

LEMMA PartsStay ==
  ASSUME NEW t \in Table, NEW s \in DOMAIN reported[t], NEW content,
         PartOf(content, t, s),
         s \in DOMAIN reported'[t], reported'[t][s] = reported[t][s]
  PROVE  PartOf(content, t, s)'
BY DEF PartOf

LEMMA NewReportCarried ==
  ASSUME Typed, Carried, NEW t \in Table, NEW total, IsVotes(total), Report(t, total),
         UNCHANGED <<tickets, tickets_time, zec_since, time>>, is_expire(t)
  PROVE  Carried'
<1> DEFINE new == [to : Receiver, table : {t}, time : {time}, content : Batches(total)]
<1>1. /\ \A u \in Table \ {t} : reported'[u] = reported[u]
      /\ DOMAIN reported'[t] = DOMAIN reported[t] \cup {time}
      /\ time \notin DOMAIN reported[t]
      /\ reported'[t][time] = total
      /\ \A s \in DOMAIN reported[t] : reported'[t][s] = reported[t][s] /\ s < time
      /\ calls' = calls \cup new
  BY ReportWritten
<1>2. \A u \in Table : \A s \in DOMAIN reported[u] :
        s \in DOMAIN reported'[u] /\ reported'[u][s] = reported[u][s]
  BY <1>1
<1>3. /\ \A c \in Batches(total) : /\ DOMAIN c # {} /\ DOMAIN c \subseteq DOMAIN total
                                   /\ \A n \in DOMAIN c : c[n] = total[n]
      /\ \A n \in DOMAIN total : \E c \in Batches(total) : n \in DOMAIN c
  BY BatchesAreParts
<1>4. \A m \in new : /\ m.to \in Receiver /\ m.table = t /\ m.time = time
                     /\ m.content \in Batches(total)
  OBVIOUS
<1>5. \A r \in Receiver, c \in Batches(total) :
        \E m \in new : m.to = r /\ m.table = t /\ m.time = time /\ m.content = c
  <2> SUFFICES ASSUME NEW r \in Receiver, NEW c \in Batches(total)
               PROVE  \E m \in new : m.to = r /\ m.table = t /\ m.time = time /\ m.content = c
    OBVIOUS
  <2>1. [to |-> r, table |-> t, time |-> time, content |-> c] \in new
    OBVIOUS
  <2> QED BY <2>1
<1> HIDE DEF new
<1>6. CallsAreOfReports'
  <2> SUFFICES ASSUME NEW m \in calls'
               PROVE  PartOf(m.content, m.table, m.time)' /\ DOMAIN m.content # {}
    BY DEF CallsAreOfReports
  <2>1. CASE m \in calls
    <3>1. PartOf(m.content, m.table, m.time) /\ DOMAIN m.content # {} /\ m.table \in Table
      BY <2>1 DEF Carried, CallsAreOfReports, Typed, IsCall
    <3> QED BY <1>2, <3>1 DEF PartOf
  <2>2. CASE m \in new
    BY <1>1, <1>3, <1>4, <2>2 DEF PartOf
  <2> QED BY <1>1, <2>1, <2>2
<1>7. TallyOfOneReport'
  <2> SUFFICES ASSUME NEW r \in Receiver, NEW u \in Table, tickets[r][u] # NoVotes
               PROVE  PartOf(tickets[r][u], u, tickets_time[r][u])'
    BY DEF TallyOfOneReport, PartOf, NoVotes
  <2>1. PartOf(tickets[r][u], u, tickets_time[r][u])
    BY DEF Carried, TallyOfOneReport, PartOf
  <2> QED BY <1>2, <2>1 DEF PartOf
<1>8. NoneLost'
  <2> SUFFICES ASSUME NEW r \in Receiver, NEW u \in Table, NEW s \in Sent(u)',
                      \A w \in Sent(u)' : w <= s
               PROVE  /\ tickets_time[r][u] <= s
                      /\ Takes(r, s) => \A n \in DOMAIN reported'[u][s] : InHand(r, u, s, n)'
    BY DEF NoneLost, Takes
  <2>1. CASE u = t /\ s = time
    <3>1. tickets_time[r][u] <= s
      BY <2>1 DEF Typed
    <3>2. ASSUME NEW n \in DOMAIN total PROVE InHand(r, t, time, n)'
      <4>1. PICK c \in Batches(total) : n \in DOMAIN c
        BY <1>3
      <4>2. PICK m \in new : m.to = r /\ m.table = t /\ m.time = time /\ m.content = c
        BY <1>5
      <4> QED BY <1>1, <4>1, <4>2 DEF InHand
    <3> QED BY <1>1, <2>1, <3>1, <3>2 DEF InHand
  <2>2. CASE ~ (u = t /\ s = time)
    <3>1. s \in Sent(u) /\ reported'[u][s] = reported[u][s]
      BY <1>1, <2>2 DEF Sent
    <3>2. \A w \in Sent(u) : w <= s
      BY <1>2 DEF Sent
    <3>3. /\ tickets_time[r][u] <= s
          /\ Takes(r, s) => \A n \in DOMAIN reported[u][s] : InHand(r, u, s, n)
      BY <3>1, <3>2 DEF Carried, NoneLost
    <3>4. \A n : InHand(r, u, s, n) => InHand(r, u, s, n)'
      BY <1>1 DEF InHand
    <3> QED BY <3>1, <3>3, <3>4
  <2> QED BY <2>1, <2>2
<1> QED BY <1>6, <1>7, <1>8 DEF Carried

\* Nothing changes for reports when none of this does.
LEMMA CarriedOn ==
  ASSUME Carried, UNCHANGED <<reported, calls, tickets, tickets_time, zec_since>>
  PROVE  Carried'
<1>1. CallsAreOfReports' /\ TallyOfOneReport'
  BY DEF Carried, CallsAreOfReports, TallyOfOneReport, PartOf
<1>2. NoneLost'
  BY DEF Carried, NoneLost, Sent, Takes, InHand
<1> QED BY <1>1, <1>2 DEF Carried

LEMMA ReportKeeps ==
  ASSUME Typed, Carried, NEW t \in Table, NEW total, IsVotes(total), Report(t, total),
         UNCHANGED <<tickets, tickets_time, zec_since, time>>
  PROVE  ReportTyped' /\ Carried'
<1>1. CASE is_expire(t)
  BY <1>1, ReportWritten, NewReportCarried
<1>2. CASE ~ is_expire(t)
  <2>1. UNCHANGED <<report_time, calls, reported>>
    BY <1>2 DEF Report
  <2>2. ReportTyped'
    BY <2>1 DEF ReportTyped, Typed, IsCall
  <2> QED BY <2>1, <2>2, CarriedOn
<1> QED BY <1>1, <1>2

-----------------------------------------------------------------------------
(***************************************************************************)
(* A batch arrives.                                                        *)
(***************************************************************************)
TicketsTyped ==
  /\ tickets = [r \in Receiver |-> tickets[r]]
  /\ \A r \in Receiver : /\ tickets[r] = [t \in Table |-> tickets[r][t]]
                         /\ \A t \in Table : IsVotes(tickets[r][t])
  /\ tickets_time \in [Receiver -> [Table -> Nat]]
  /\ \A r \in Receiver, t \in Table : tickets_time[r][t] <= report_time[t]

\* Only one tally is written, and what is in it is of the report of the batch.
LEMMA ReceiveWrites ==
  ASSUME Typed, Carried, NEW m \in calls, handle_receive_shard_votes(m.to, m)
  PROVE  /\ \A r \in Receiver, t \in Table : ~ (r = m.to /\ t = m.table) =>
              tickets'[r][t] = tickets[r][t] /\ tickets_time'[r][t] = tickets_time[r][t]
         /\ tickets_time'[m.to][m.table] = m.time /\ m.time >= tickets_time[m.to][m.table]
         /\ IsVotes(tickets'[m.to][m.table])
         /\ PartOf(tickets'[m.to][m.table], m.table, m.time)
         /\ DOMAIN m.content \subseteq DOMAIN tickets'[m.to][m.table]
         /\ m.time = tickets_time[m.to][m.table] =>
              DOMAIN tickets[m.to][m.table] \subseteq DOMAIN tickets'[m.to][m.table]
         /\ m.time \in 1 .. report_time[m.table]
         /\ tickets' = [r \in Receiver |-> tickets'[r]]
         /\ \A r \in Receiver : tickets'[r] = [t \in Table |-> tickets'[r][t]]
         /\ tickets_time' \in [Receiver -> [Table -> Nat]]
<1> DEFINE r == m.to
           t == m.table
           old == tickets[r][t]
           tally == IF m.time = tickets_time[r][t] THEN Merged(old, m.content) ELSE m.content
<1>1. /\ r \in Receiver /\ t \in Table /\ m.time \in Nat /\ IsVotes(m.content)
      /\ PartOf(m.content, t, m.time)
  BY DEF Typed, IsCall, Carried, CallsAreOfReports
<1>2. /\ m.time >= tickets_time[r][t]
      /\ tickets_time' = [tickets_time EXCEPT ![r][t] = m.time]
      /\ tickets' = [tickets EXCEPT ![r][t] = tally]
  BY DEF handle_receive_shard_votes
<1>3. /\ DOMAIN tickets = Receiver /\ \A q \in Receiver : DOMAIN tickets[q] = Table
      /\ tickets_time \in [Receiver -> [Table -> Nat]]
  BY DEF Typed
<1>4. IsVotes(old) /\ (old # NoVotes => PartOf(old, t, tickets_time[r][t]))
  BY <1>1 DEF Typed, Carried, TallyOfOneReport, PartOf
<1>5. /\ DOMAIN Merged(old, m.content) = DOMAIN old \cup DOMAIN m.content
      /\ \A n \in DOMAIN old : Merged(old, m.content)[n] = old[n]
      /\ \A n \in DOMAIN m.content \ DOMAIN old : Merged(old, m.content)[n] = m.content[n]
  BY DEF Merged
<1>6. IsVotes(Merged(old, m.content))
  <2>1. Merged(old, m.content) = [n \in DOMAIN old \cup DOMAIN m.content |->
                                    IF n \in DOMAIN old THEN old[n] ELSE m.content[n]]
    BY DEF Merged
  <2> QED BY <1>1, <1>4, <1>5, <2>1 DEF IsVotes
<1>7. IsVotes(tally)
  BY <1>1, <1>6
<1>8. PartOf(tally, t, m.time)
  <2>1. CASE m.time # tickets_time[r][t]
    BY <1>1, <2>1
  <2>2. CASE m.time = tickets_time[r][t]
    <3>1. CASE old = NoVotes
      <4>1. DOMAIN old = {}
        BY <3>1 DEF NoVotes
      <4> QED BY <1>1, <1>5, <2>2, <4>1 DEF PartOf
    <3>2. CASE old # NoVotes
      BY <1>1, <1>4, <1>5, <2>2, <3>2 DEF PartOf
    <3> QED BY <3>1, <3>2
  <2> QED BY <2>1, <2>2
<1>9. /\ DOMAIN m.content \subseteq DOMAIN tally
      /\ m.time = tickets_time[r][t] => DOMAIN old \subseteq DOMAIN tally
  BY <1>5
<1>10. m.time \in 1 .. report_time[t]
  BY <1>1 DEF PartOf, Typed
<1> HIDE DEF tally
<1>11. /\ tickets'[r][t] = tally
       /\ tickets' = [q \in Receiver |-> tickets'[q]]
       /\ \A q \in Receiver, u \in Table : ~ (q = r /\ u = t) => tickets'[q][u] = tickets[q][u]
  BY <1>1, <1>2, <1>3
<1>12. \A q \in Receiver : tickets'[q] = [u \in Table |-> tickets'[q][u]]
  <2>1. \A q \in Receiver : tickets[q] = [u \in Table |-> tickets[q][u]]
    BY DEF Typed
  <2>2. tickets'[r] = [tickets[r] EXCEPT ![t] = tally]
    BY <1>1, <1>2, <1>3
  <2>3. \A q \in Receiver \ {r} : tickets'[q] = tickets[q]
    BY <1>1, <1>2, <1>3
  <2> QED BY <1>1, <2>1, <2>2, <2>3
<1>13. /\ tickets_time'[r][t] = m.time
       /\ \A q \in Receiver, u \in Table : ~ (q = r /\ u = t) =>
            tickets_time'[q][u] = tickets_time[q][u]
       /\ tickets_time' \in [Receiver -> [Table -> Nat]]
  BY <1>1, <1>2, <1>3
<1> QED BY <1>2, <1>7, <1>8, <1>9, <1>10, <1>11, <1>12, <1>13

LEMMA ReceiveKeeps ==
  ASSUME Typed, Carried, NEW m \in calls, handle_receive_shard_votes(m.to, m),
         calls' = calls \ {m}, UNCHANGED <<reported, report_time, zec_since>>
  PROVE  TicketsTyped' /\ Carried'
<1> DEFINE r == m.to
           t == m.table
<1>1. /\ \A q \in Receiver, u \in Table : ~ (q = r /\ u = t) =>
           tickets'[q][u] = tickets[q][u] /\ tickets_time'[q][u] = tickets_time[q][u]
      /\ tickets_time'[r][t] = m.time /\ m.time >= tickets_time[r][t]
      /\ IsVotes(tickets'[r][t]) /\ PartOf(tickets'[r][t], t, m.time)
      /\ DOMAIN m.content \subseteq DOMAIN tickets'[r][t]
      /\ m.time = tickets_time[r][t] => DOMAIN tickets[r][t] \subseteq DOMAIN tickets'[r][t]
      /\ m.time \in 1 .. report_time[t]
      /\ tickets' = [q \in Receiver |-> tickets'[q]]
      /\ \A q \in Receiver : tickets'[q] = [u \in Table |-> tickets'[q][u]]
      /\ tickets_time' \in [Receiver -> [Table -> Nat]]
  BY ReceiveWrites
<1>2. r \in Receiver /\ t \in Table /\ PartOf(m.content, t, m.time) /\ DOMAIN m.content # {}
  BY DEF Typed, IsCall, Carried, CallsAreOfReports
<1>3. TicketsTyped'
  <2>1. ASSUME NEW q \in Receiver, NEW u \in Table
        PROVE  IsVotes(tickets'[q][u]) /\ tickets_time'[q][u] <= report_time[u]
    <3>1. CASE q = r /\ u = t
      BY <1>1, <3>1
    <3>2. CASE ~ (q = r /\ u = t)
      BY <1>1, <3>2 DEF Typed
    <3> QED BY <3>1, <3>2
  <2> QED BY <1>1, <2>1 DEF TicketsTyped
<1>4. \A c, u, s : PartOf(c, u, s) <=> PartOf(c, u, s)'
  BY DEF PartOf
<1>5. CallsAreOfReports'
  BY <1>4 DEF Carried, CallsAreOfReports
<1>6. TallyOfOneReport'
  <2> SUFFICES ASSUME NEW q \in Receiver, NEW u \in Table, tickets'[q][u] # NoVotes
               PROVE  PartOf(tickets'[q][u], u, tickets_time'[q][u])
    BY DEF TallyOfOneReport, PartOf, NoVotes
  <2>1. CASE q = r /\ u = t
    BY <1>1, <2>1
  <2>2. CASE ~ (q = r /\ u = t)
    <3>1. tickets'[q][u] = tickets[q][u] /\ tickets_time'[q][u] = tickets_time[q][u]
      BY <1>1, <2>2
    <3> QED BY <3>1 DEF Carried, TallyOfOneReport, PartOf
  <2> QED BY <2>1, <2>2
<1>7. NoneLost'
  <2> SUFFICES ASSUME NEW q \in Receiver, NEW u \in Table, NEW s \in Sent(u),
                      \A w \in Sent(u) : w <= s
               PROVE  /\ tickets_time'[q][u] <= s
                      /\ Takes(q, s) => \A n \in DOMAIN reported[u][s] : InHand(q, u, s, n)'
    BY DEF NoneLost, Takes, Sent
  <2>1. /\ tickets_time[q][u] <= s
        /\ Takes(q, s) => \A n \in DOMAIN reported[u][s] : InHand(q, u, s, n)
    BY DEF Carried, NoneLost
  <2>2. CASE q = r /\ u = t
    <3>1. m.time \in Sent(t)
      BY <1>2 DEF Sent, PartOf, NoVotes
    <3>2. m.time <= s
      BY <2>2, <3>1
    <3>3. ASSUME NEW n, InHand(r, t, s, n) PROVE InHand(r, t, s, n)'
      <4>1. CASE tickets_time[r][t] = s /\ n \in DOMAIN tickets[r][t]
        <5>1. m.time = s
          <6>1. m.time \in Nat /\ tickets_time[r][t] \in Nat
            BY <1>2 DEF Typed, IsCall
          <6>2. m.time >= tickets_time[r][t]
            BY <1>1
          <6>3. m.time >= s /\ s \in Nat
            BY <4>1, <6>1, <6>2
          <6> HIDE DEF r, t
          <6> QED BY <3>2, <6>1, <6>3
        <5> QED BY <1>1, <4>1, <5>1 DEF InHand
      <4>2. ASSUME NEW c \in calls, c.to = r, c.table = t, c.time = s, n \in DOMAIN c.content
            PROVE  InHand(r, t, s, n)'
        <5>1. CASE c = m
          BY <1>1, <4>2, <5>1 DEF InHand
        <5>2. CASE c # m
          <6>1. c \in calls'
            BY <5>2
          <6> QED BY <4>2, <6>1 DEF InHand
        <5> QED BY <5>1, <5>2
      <4> QED BY <3>3, <4>1, <4>2 DEF InHand
    <3> QED BY <1>1, <2>1, <2>2, <3>2, <3>3
  <2>3. CASE ~ (q = r /\ u = t)
    <3>1. tickets'[q][u] = tickets[q][u] /\ tickets_time'[q][u] = tickets_time[q][u]
      BY <1>1, <2>3
    <3>2. \A n : InHand(q, u, s, n) => InHand(q, u, s, n)'
      BY <2>3, <3>1 DEF InHand
    <3> QED BY <2>1, <3>1, <3>2
  <2> QED BY <2>2, <2>3
<1> QED BY <1>3, <1>5, <1>6, <1>7 DEF Carried

\* A call that has no effect: the batch is of a report that is not the latest, or
\* ZEC does not take votes yet.
LEMMA DropKeeps ==
  ASSUME Typed, Carried, NEW m \in calls, calls' = calls \ {m},
         UNCHANGED <<reported, tickets, tickets_time, zec_since>>,
         \/ m.time < tickets_time[m.to][m.table]
         \/ m.to = "zec" /\ zec_since = 0
  PROVE  Carried'
<1>1. CallsAreOfReports' /\ TallyOfOneReport'
  BY DEF Carried, CallsAreOfReports, TallyOfOneReport, PartOf
<1>2. NoneLost'
  <2> SUFFICES ASSUME NEW q \in Receiver, NEW u \in Table, NEW s \in Sent(u),
                      \A w \in Sent(u) : w <= s
               PROVE  /\ tickets_time[q][u] <= s
                      /\ Takes(q, s) => \A n \in DOMAIN reported[u][s] : InHand(q, u, s, n)'
    BY DEF NoneLost, Takes, Sent
  <2>1. /\ tickets_time[q][u] <= s
        /\ Takes(q, s) => \A n \in DOMAIN reported[u][s] : InHand(q, u, s, n)
    BY DEF Carried, NoneLost
  <2>2. ASSUME Takes(q, s), NEW n, InHand(q, u, s, n) PROVE InHand(q, u, s, n)'
    <3>1. ~ (m.to = q /\ m.table = u /\ m.time = s)
      <4>1. CASE m.to = "zec" /\ zec_since = 0
        BY <2>2, <4>1 DEF Takes
      <4>2. CASE m.time < tickets_time[m.to][m.table]
        <5>1. m.time \in Nat /\ tickets_time[q][u] \in Nat
          BY DEF Typed, IsCall
        <5> QED BY <2>1, <4>2, <5>1
      <4> QED BY <4>1, <4>2
    <3> QED BY <2>2, <3>1 DEF InHand
  <2> QED BY <2>1, <2>2
<1> QED BY <1>1, <1>2 DEF Carried

-----------------------------------------------------------------------------
(***************************************************************************)
(* Vote amounts at REC.                                                    *)
(***************************************************************************)
LEMMA TallyIsTotal ==
  ASSUME NEW tk, \A t \in Table : IsVotes(tk[t]), NEW n
  PROVE  Tally(tk, n) \in Nat
<1> DEFINE f == [t \in Table |-> VotesFor(tk[t], n)]
<1>1. \A t \in Table : f[t] \in Nat
  BY VotesForType
<1>2. SumFunction(f) = SumFunctionOnSet(f, Table) /\ Tally(tk, n) = SumFunction(f)
  BY DEF SumFunction, Tally
<1> HIDE DEF f
<1> QED BY <1>1, <1>2, TableAssumption, SumOfNats

VoteAmounts == VoteAmountIsTally /\ NoTallyNoVotes

RecTyped == IsVotes(nodes) /\ activation \in Nat

LEMMA VoteAmountsStay ==
  ASSUME VoteAmounts, UNCHANGED <<nodes, tickets>>
  PROVE  VoteAmounts'
BY DEF VoteAmounts, VoteAmountIsTally, NoTallyNoVotes

LEMMA DeliverKeepsIInv ==
  ASSUME IInv, NEW m \in calls, Deliver(m)
  PROVE  IInv'
<1>1. Typed /\ Carried /\ VoteAmounts
  BY DEF IInv, Carried, VoteAmounts
<1>2. /\ calls' = calls \ {m} /\ IsCall(m)
      /\ UNCHANGED <<votes, pollable, report_time, reported, zec_since, time>>
  BY <1>1 DEF Deliver, tableVars, Typed
<1>3. TicketsTyped' /\ Carried' /\ RecTyped' /\ VoteAmounts'
  <2>1. CASE m.to = "rec" /\ handle_receive_shard_votes("rec", m) /\ Recount("rec")
             /\ check_and_set_genesis_stage(DOMAIN nodes)
    <3>1. TicketsTyped' /\ Carried'
      BY <1>1, <1>2, <2>1, ReceiveKeeps
    <3>2. "rec" \in Receiver
      BY <1>2, <2>1 DEF IsCall
    <3>3. \A n : Tally(tickets'["rec"], n) \in Nat
      BY <3>1, <3>2, TallyIsTotal DEF TicketsTyped
    <3>4. nodes' = [n \in DOMAIN nodes |-> Tally(tickets'["rec"], n)]
      BY <2>1 DEF Recount
    <3>5. IsVotes(nodes') /\ \A n \in DOMAIN nodes' : nodes'[n] = Tally(tickets'["rec"], n)
      BY <1>1, <3>3, <3>4 DEF IsVotes, Typed
    <3>6. VoteAmounts'
      BY <3>2, <3>5 DEF VoteAmounts, VoteAmountIsTally, NoTallyNoVotes
    <3>7. activation' \in Nat
      BY <1>1, <2>1 DEF check_and_set_genesis_stage, Typed
    <3> QED BY <3>1, <3>5, <3>6, <3>7 DEF RecTyped
  <2>2. CASE m.to = "zec" /\ handle_receive_shard_votes("zec", m) /\ UNCHANGED recVars
    <3>1. TicketsTyped' /\ Carried'
      BY <1>1, <1>2, <2>2, ReceiveKeeps
    <3>2. VoteAmounts'
      <4>1. CASE "rec" \in Receiver
        <5>1. \A t \in Table : tickets'["rec"][t] = tickets["rec"][t]
          BY <1>1, <2>2, <4>1, ReceiveWrites
        <5>2. tickets'["rec"] = [t \in Table |-> tickets'["rec"][t]]
          BY <3>1, <4>1 DEF TicketsTyped
        <5>3. tickets["rec"] = [t \in Table |-> tickets["rec"][t]]
          BY <1>1, <4>1 DEF Typed
        <5>4. tickets'["rec"] = tickets["rec"]
          BY <5>1, <5>2, <5>3
        <5> QED BY <1>1, <2>2, <4>1, <5>4 DEF VoteAmounts, VoteAmountIsTally, NoTallyNoVotes, recVars
      <4>2. CASE "rec" \notin Receiver
        BY <1>1, <2>2, <4>2 DEF VoteAmounts, VoteAmountIsTally, NoTallyNoVotes, recVars
      <4> QED BY <4>1, <4>2
    <3> QED BY <1>1, <2>2, <3>1, <3>2 DEF RecTyped, Typed, recVars
  <2>3. CASE /\ UNCHANGED <<tickets, tickets_time, nodes, activation>>
             /\ \/ m.time < tickets_time[m.to][m.table]
                \/ m.to = "zec" /\ zec_since = 0
    <3>1. Carried'
      BY <1>1, <1>2, <2>3, DropKeeps
    <3>2. TicketsTyped' /\ RecTyped'
      BY <1>1, <1>2, <2>3 DEF TicketsTyped, RecTyped, Typed
    <3> QED BY <1>1, <2>3, <3>1, <3>2, VoteAmountsStay
  <2>4. update_batch_stake_v2(m) \/ on_receive_shard_votes_v2(m)
    BY DEF Deliver
  <2> QED BY <2>1, <2>2, <2>3, <2>4
    DEF update_batch_stake_v2, on_receive_shard_votes_v2, Refused, recVars
<1>4. PollableIsSumOfVotes'
  BY <1>2 DEF IInv, PollableIsSumOfVotes
<1>5. Typed'
  BY <1>1, <1>2, <1>3 DEF Typed, TicketsTyped, RecTyped, IsCall
<1> QED BY <1>3, <1>4, <1>5 DEF IInv, Carried, VoteAmounts

-----------------------------------------------------------------------------
(***************************************************************************)
(* The other steps.                                                        *)
(***************************************************************************)
LEMMA VoteKeepsIInv ==
  ASSUME IInv, NEW v \in Voter, NEW info \in VoteInfo,
         voteNode(v, info) \/ unvoteNode(v, info)
  PROVE  IInv'
<1>1. Typed /\ Carried /\ VoteAmounts /\ PollableIsSumOfVotes
  BY DEF IInv, Carried, VoteAmounts
<1>2. IsVotes(info) /\ TableOf[v] \in Table /\ IsVotes(votes[v]) /\ IsVotes(pollable[TableOf[v]])
  BY <1>1, InfoIsVotes, TableAssumption DEF Typed
<1>3. PICK held, total :
        /\ IsVotes(held) /\ IsVotes(total)
        /\ votes' = [votes EXCEPT ![v] = held]
        /\ pollable' = [pollable EXCEPT ![TableOf[v]] = total]
        /\ Report(TableOf[v], total)
  <2>1. CASE voteNode(v, info)
    <3>1. IsVotes(Added(votes[v], info)) /\ IsVotes(Added(pollable[TableOf[v]], info))
      BY <1>2, AddedVotes
    <3> QED BY <2>1, <3>1 DEF voteNode
  <2>2. CASE unvoteNode(v, info)
    <3>1. IsVotes(Taken(votes[v], info)) /\ IsVotes(Taken(pollable[TableOf[v]], info))
      BY <1>1, <1>2, <2>2, UnvoteKeepsTotals, TakenVotes
    <3> QED BY <2>2, <3>1 DEF unvoteNode
  <2> QED BY <2>1, <2>2
<1>4. UNCHANGED <<nodes, activation, tickets, tickets_time, zec_since, time>>
  BY DEF voteNode, unvoteNode, recVars
<1>5. PollableIsSumOfVotes'
  BY <1>1, VoteKeepsTotals, UnvoteKeepsTotals
<1>6. ReportTyped' /\ Carried'
  BY <1>1, <1>2, <1>3, <1>4, ReportKeeps
<1>7. VoteAmounts'
  BY <1>1, <1>4, VoteAmountsStay
<1>8. Typed'
  <2>1. DOMAIN votes' = Voter /\ \A w \in Voter : IsVotes(votes'[w])
    BY <1>1, <1>3 DEF Typed
  <2>2. DOMAIN pollable' = Table /\ \A t \in Table : IsVotes(pollable'[t])
    BY <1>1, <1>3 DEF Typed
  <2> QED BY <1>1, <1>4, <1>6, <2>1, <2>2 DEF Typed, ReportTyped
<1> QED BY <1>5, <1>6, <1>7, <1>8 DEF IInv, Carried, VoteAmounts

LEMMA MembershipKeepsIInv ==
  ASSUME IInv, NEW n \in Joining, registerNode(n) \/ unregisterNode(n)
  PROVE  IInv'
<1>1. Typed /\ Carried /\ VoteAmounts
  BY DEF IInv, Carried, VoteAmounts
<1>2. UNCHANGED <<votes, pollable, report_time, reported, calls, tickets, tickets_time, zec_since, time>>
  BY DEF registerNode, unregisterNode, tableVars
<1>3. /\ DOMAIN nodes' \subseteq DOMAIN nodes \cup {n}
      /\ nodes' = [k \in DOMAIN nodes' |-> nodes'[k]]
      /\ \A k \in DOMAIN nodes' : nodes'[k] = 0 \/ (k \in DOMAIN nodes /\ nodes'[k] = nodes[k])
      /\ activation' \in {activation, time}
  BY DEF registerNode, unregisterNode, check_and_set_genesis_stage
<1>4. IsVotes(nodes') /\ activation' \in Nat
  BY <1>1, <1>3, NodeAssumption DEF Typed, IsVotes
<1>5. VoteAmounts'
  BY <1>1, <1>2, <1>3 DEF VoteAmounts, VoteAmountIsTally, NoTallyNoVotes
<1>6. Carried'
  BY <1>1, <1>2, CarriedOn
<1>7. Typed'
  BY <1>1, <1>2, <1>4 DEF Typed, IsCall
<1>8. PollableIsSumOfVotes'
  BY <1>2 DEF IInv, PollableIsSumOfVotes
<1> QED BY <1>5, <1>6, <1>7, <1>8 DEF IInv, Carried, VoteAmounts

\* ZEC sees the activation: from then on what is sent counts, and nothing has been
\* sent later than now.
LEMMA ClockKeepsIInv ==
  ASSUME IInv, ZecSync \/ Tick \/ UNCHANGED vars
  PROVE  IInv'
<1>1. Typed /\ Carried /\ VoteAmounts
  BY DEF IInv, Carried, VoteAmounts
<1>2. /\ UNCHANGED <<votes, pollable, report_time, reported, calls, nodes, activation,
                    tickets, tickets_time>>
      /\ time' \in {time, time + 1}
      /\ zec_since' = zec_since \/ (zec_since' = time /\ time' = time)
  BY DEF ZecSync, Tick, vars, tableVars, recVars
<1>3. Typed'
  <2>1. time \in Nat \ {0} /\ time' \in Nat \ {0} /\ time <= time' /\ zec_since' \in Nat
    BY <1>1, <1>2 DEF Typed
  <2>2. \A t \in Table : report_time[t] <= time'
    <3> SUFFICES ASSUME NEW t \in Table PROVE report_time[t] <= time'
      OBVIOUS
    <3>1. report_time[t] \in Nat /\ report_time[t] <= time
      BY <1>1 DEF Typed
    <3> QED BY <2>1, <3>1
  <2> QED BY <1>1, <1>2, <2>1, <2>2 DEF Typed, IsCall
<1>4. Carried'
  <2>1. CASE zec_since' = zec_since
    BY <1>1, <1>2, <2>1, CarriedOn
  <2>2. CASE zec_since' = time
    <3>1. CallsAreOfReports' /\ TallyOfOneReport'
      BY <1>1, <1>2 DEF Carried, CallsAreOfReports, TallyOfOneReport, PartOf
    <3>2. \A t \in Table : \A s \in Sent(t) : ~ (s > time)
      <4> SUFFICES ASSUME NEW t \in Table, NEW s \in Sent(t) PROVE ~ (s > time)
        OBVIOUS
      <4>1. s \in 1 .. report_time[t] /\ report_time[t] <= time
            /\ report_time[t] \in Nat /\ time \in Nat
        BY <1>1 DEF Sent, Typed
      <4> QED BY <4>1
    <3>3. NoneLost'
      <4> SUFFICES ASSUME NEW q \in Receiver, NEW u \in Table, NEW s \in Sent(u),
                          \A w \in Sent(u) : w <= s
                   PROVE  /\ tickets_time[q][u] <= s
                          /\ Takes(q, s)' => \A n \in DOMAIN reported[u][s] : InHand(q, u, s, n)
        BY <1>2 DEF NoneLost, Takes, Sent, InHand
      <4>1. /\ tickets_time[q][u] <= s
            /\ Takes(q, s) => \A n \in DOMAIN reported[u][s] : InHand(q, u, s, n)
        BY <1>1 DEF Carried, NoneLost
      <4>2. Takes(q, s)' => Takes(q, s)
        BY <2>2, <3>2 DEF Takes
      <4> QED BY <4>1, <4>2
    <3> QED BY <3>1, <3>3 DEF Carried
  <2> QED BY <1>2, <2>1, <2>2
<1>5. VoteAmounts'
  BY <1>1, <1>2, VoteAmountsStay
<1>6. PollableIsSumOfVotes'
  BY <1>2 DEF IInv, PollableIsSumOfVotes
<1> QED BY <1>3, <1>4, <1>5, <1>6 DEF IInv, Carried, VoteAmounts

LEMMA NextKeepsIInv == IInv /\ [Next]_vars => IInv'
<1> SUFFICES ASSUME IInv, [Next]_vars PROVE IInv'
  OBVIOUS
<1>1. CASE Vote \/ Unvote
  BY <1>1, VoteKeepsIInv DEF Vote, Unvote
<1>2. CASE Receive
  BY <1>2, DeliverKeepsIInv DEF Receive
<1>3. CASE Register \/ Unregister
  BY <1>3, MembershipKeepsIInv DEF Register, Unregister
<1>4. CASE ZecSync \/ Tick \/ UNCHANGED vars
  BY <1>4, ClockKeepsIInv
<1> QED
  BY <1>1, <1>2, <1>3, <1>4 DEF Next

LEMMA InitIInv == Init => IInv
<1> SUFFICES ASSUME Init PROVE IInv
  OBVIOUS
<1>1. IsVotes(NoVotes) /\ DOMAIN NoVotes = {}
  BY DEF IsVotes, NoVotes
<1>2. /\ \A v \in Voter : votes[v] = NoVotes
      /\ \A t \in Table : pollable[t] = NoVotes
      /\ DOMAIN votes = Voter /\ DOMAIN pollable = Table
      /\ calls = {} /\ DOMAIN reported = Table
      /\ \A t \in Table : DOMAIN reported[t] = {} /\ report_time[t] = 0
      /\ report_time \in [Table -> Nat]
      /\ activation \in Nat /\ zec_since \in Nat /\ time = 1
  BY DEF Init
<1>3. /\ tickets = [r \in Receiver |-> tickets[r]]
      /\ \A r \in Receiver : tickets[r] = [t \in Table |-> NoVotes]
      /\ tickets_time \in [Receiver -> [Table -> Nat]]
      /\ \A r \in Receiver, t \in Table : tickets_time[r][t] = 0
  BY DEF Init
<1>4. IsVotes(nodes) /\ \A n \in DOMAIN nodes : nodes[n] = 0
  BY NodeAssumption DEF Init, IsVotes
<1>5. \A t \in Table : Sent(t) = {}
  BY <1>2 DEF Sent
<1>6. Typed
  <2>1. \A r \in Receiver : /\ tickets[r] = [t \in Table |-> tickets[r][t]]
                           /\ \A t \in Table : tickets[r][t] = NoVotes
    BY <1>3
  <2>2. /\ \A r \in Receiver, t \in Table : IsVotes(tickets[r][t])
        /\ \A v \in Voter : IsVotes(votes[v])
        /\ \A t \in Table : IsVotes(pollable[t])
    BY <1>1, <1>2, <2>1
  <2>3. /\ \A t \in Table : DOMAIN reported[t] \subseteq 1 .. report_time[t] /\ report_time[t] <= time
        /\ \A t \in Table : \A s \in DOMAIN reported[t] : IsVotes(reported[t][s])
        /\ \A r \in Receiver, t \in Table : tickets_time[r][t] <= report_time[t]
    BY <1>2, <1>3
  <2> QED BY <1>2, <1>3, <1>4, <2>1, <2>2, <2>3 DEF Typed
<1>7. CallsAreOfReports /\ TallyOfOneReport /\ NoneLost
  BY <1>2, <1>3, <1>5 DEF CallsAreOfReports, TallyOfOneReport, NoneLost
<1>8. PollableIsSumOfVotes
  <2> SUFFICES ASSUME NEW t \in Table, NEW n \in Node PROVE TotalIs(t, n)
    BY PollableByTotals
  <2>1. VotesFor(NoVotes, n) = 0 /\ VotesFor(pollable[t], n) = 0 /\ n \notin DOMAIN pollable[t]
    <3>1. VotesFor(NoVotes, n) = 0
      BY <1>1 DEF VotesFor
    <3>2. pollable[t] = NoVotes
      BY <1>2
    <3> QED BY <1>1, <3>1, <3>2, Zenon
  <2>2. \A v \in VotersOf(t) : VotesAt(t, n)[v] = 0
    <3>1. \A v \in VotersOf(t) : votes[v] = NoVotes
      BY <1>2 DEF VotersOf
    <3> QED BY <2>1, <3>1 DEF VotesAt
  <2>3. /\ IsFiniteSet(VotersOf(t))
        /\ SumFunction(VotesAt(t, n)) = SumFunctionOnSet(VotesAt(t, n), VotersOf(t))
    BY <1>6, VotesAtType DEF Typed
  <2>4. SumFunctionOnSet(VotesAt(t, n), VotersOf(t)) = 0
    BY <2>2, <2>3, SumOfNats
  <2> QED BY <2>1, <2>3, <2>4 DEF TotalIs
<1>9. VoteAmountIsTally /\ NoTallyNoVotes
  BY <1>4 DEF VoteAmountIsTally, NoTallyNoVotes
<1> QED BY <1>6, <1>7, <1>8, <1>9 DEF IInv

LEMMA IInvInductive == Spec => []IInv
<1> QED BY InitIInv, NextKeepsIInv, PTL DEF Spec

(***************************************************************************)
(* What the three contracts store of votes is always well formed.          *)
(***************************************************************************)
THEOREM TypeCorrect == Spec => []TypeOK
<1>1. IInv => TypeOK
  <2> SUFFICES ASSUME IInv PROVE TypeOK
    OBVIOUS
  <2>1. Typed
    BY DEF IInv
  <2>2. tickets \in [Receiver -> [Table -> {tickets[r][t] : r \in Receiver, t \in Table}]]
    <3>1. \A r \in Receiver : tickets[r] \in [Table -> {tickets[q][t] : q \in Receiver, t \in Table}]
      <4> SUFFICES ASSUME NEW r \in Receiver
                   PROVE  tickets[r] \in [Table -> {tickets[q][t] : q \in Receiver, t \in Table}]
        OBVIOUS
      <4>1. tickets[r] = [t \in Table |-> tickets[r][t]]
        BY <2>1 DEF Typed
      <4> QED BY <4>1
    <3> QED BY <2>1, <3>1 DEF Typed
  <2>3. \A t \in Table : DOMAIN reported[t] \subseteq Nat
    BY <2>1 DEF Typed
  <2> QED BY <2>1, <2>2, <2>3 DEF TypeOK, Typed, IsCall
<1> QED BY <1>1, IInvInductive, PTL

(***************************************************************************)
(* No receiver ever holds entries of two reports of a table at once,       *)
(* whatever the order in which batches of old and new reports come in.     *)
(***************************************************************************)
THEOREM TalliesNeverMix == Spec => []TallyOfOneReport
<1>1. IInv => TallyOfOneReport
  BY DEF IInv
<1> QED BY <1>1, IInvInductive, PTL

(***************************************************************************)
(* The stored totals, those of the tables and the vote amounts at REC, are *)
(* the sums of what they stand for after any votes, withdrawals, reports,  *)
(* registrations and departures.                                           *)
(***************************************************************************)
THEOREM TotalsAlwaysAddUp == Spec => []TotalsAreSums
<1>1. IInv => TotalsAreSums
  BY DEF IInv, TotalsAreSums
<1> QED BY <1>1, IInvInductive, PTL

\* Max picks a greatest element of the reports sent.
LEMMA LatestSent ==
  ASSUME Typed, NEW t \in Table, Sent(t) # {}
  PROVE  Max(Sent(t)) \in Sent(t) /\ \A u \in Sent(t) : u <= Max(Sent(t))
<1> DEFINE S == Sent(t)
           top == report_time[t]
           D == {top - u : u \in S}
<1>1. top \in Nat /\ \A u \in S : u \in Nat /\ u <= top
  BY DEF Typed, Sent
<1>2. D \in SUBSET Nat /\ D # {}
  BY <1>1
<1> HIDE DEF S, top
<1>3. PICK d \in D : \A e \in D : d <= e
  <2> HIDE DEF D
  <2> QED BY <1>2, LeastNumber
<1>4. PICK s \in S : d = top - s
  BY <1>3
<1>5. \A u \in S : s >= u
  <2> SUFFICES ASSUME NEW u \in S PROVE s >= u
    OBVIOUS
  <2>1. top - s <= top - u
    BY <1>3, <1>4
  <2> QED BY <1>1, <1>4, <2>1
<1>6. Max(S) \in S /\ \A u \in S : Max(S) >= u
  BY <1>4, <1>5 DEF Max
<1>7. \A u \in S : u <= Max(S)
  BY <1>1, <1>6
<1> QED BY <1>6, <1>7 DEF S

(***************************************************************************)
(* No batch is lost on the way: once all calls of a table have arrived,    *)
(* REC holds its latest report that had an entry, whole and alone, and so  *)
(* does ZEC if the report was sent after it saw the activation.            *)
(***************************************************************************)
THEOREM ReportsAlwaysArriveWhole == Spec => []ReportArrivesWhole
<1>1. IInv => ReportArrivesWhole
  <2> SUFFICES ASSUME IInv, NEW r \in Receiver, NEW t \in Table,
                      Arrived(r, t), Sent(t) # {},
                      r = "rec" \/ (zec_since # 0 /\ Max(Sent(t)) > zec_since)
               PROVE  /\ tickets[r][t] = reported[t][Max(Sent(t))]
                      /\ tickets_time[r][t] = Max(Sent(t))
    BY DEF ReportArrivesWhole
  <2> DEFINE s == Max(Sent(t))
             k == tickets[r][t]
             full == reported[t][s]
  <2>1. s \in Sent(t) /\ \A u \in Sent(t) : u <= s
    BY LatestSent DEF IInv
  <2>2. s \in DOMAIN reported[t] /\ full # NoVotes /\ IsVotes(full)
    BY <2>1 DEF Sent, IInv, Typed
  <2> HIDE DEF s
  <2>3. \A n \in DOMAIN full : InHand(r, t, s, n)
    BY <2>1 DEF IInv, NoneLost, Takes, s
  <2>4. \A n \in DOMAIN full : tickets_time[r][t] = s /\ n \in DOMAIN k
    BY <2>3 DEF InHand, Arrived
  <2>5. DOMAIN full # {}
    BY <2>2 DEF IsVotes, NoVotes
  <2>6. tickets_time[r][t] = s /\ DOMAIN full \subseteq DOMAIN k
    BY <2>4, <2>5
  <2>7. k # NoVotes
    BY <2>5, <2>6 DEF NoVotes
  <2>8. \A n \in DOMAIN k : n \in DOMAIN full /\ k[n] = full[n]
    BY <2>6, <2>7 DEF IInv, TallyOfOneReport
  <2>9. IsVotes(k)
    BY DEF IInv, Typed
  <2>10. k = full
    <3> HIDE DEF k, full
    <3>1. DOMAIN k = DOMAIN full
      BY <2>6, <2>8 DEF full
    <3> QED BY <2>2, <2>8, <2>9, <3>1 DEF IsVotes
  <2> QED BY <2>6, <2>10 DEF s
<1> QED BY <1>1, IInvInductive, PTL

-----------------------------------------------------------------------------
(***************************************************************************)
(* VoteReport implements Publication.                                      *)
(***************************************************************************)
\* A batch that is taken is a step of its reader.
LEMMA BatchIsRead ==
  ASSUME Typed, Carried, NEW m \in calls, handle_receive_shard_votes(m.to, m),
         UNCHANGED reported
  PROVE  Publishing!Read(m.to, m.table)
<1> DEFINE r == m.to
           t == m.table
<1>1. /\ tickets_time'[r][t] = m.time /\ m.time >= tickets_time[r][t]
      /\ PartOf(tickets'[r][t], t, m.time)
      /\ m.time = tickets_time[r][t] => DOMAIN tickets[r][t] \subseteq DOMAIN tickets'[r][t]
  BY ReceiveWrites
<1>2. /\ r \in Receiver /\ t \in Table /\ m.time \in Nat
      /\ DOMAIN tickets = Receiver /\ DOMAIN tickets[r] = Table
      /\ tickets_time \in [Receiver -> [Table -> Nat]]
  BY DEF Typed, IsCall
<1>3. /\ tickets' = [tickets EXCEPT ![r][t] = tickets'[r][t]]
      /\ tickets_time' = [tickets_time EXCEPT ![r][t] = tickets_time'[r][t]]
  BY <1>2 DEF handle_receive_shard_votes
<1>4. /\ m.time \in DOMAIN reported[t]
      /\ Publishing!Extends(reported[t][m.time], tickets'[r][t])
  BY <1>1 DEF PartOf, Publishing!Extends
<1>5. m.time = tickets_time[r][t] => Publishing!Extends(tickets'[r][t], tickets[r][t])
  <2> SUFFICES ASSUME m.time = tickets_time[r][t]
               PROVE  Publishing!Extends(tickets'[r][t], tickets[r][t])
    OBVIOUS
  <2>1. tickets'[r][t] = Merged(tickets[r][t], m.content)
    BY <1>2 DEF handle_receive_shard_votes
  <2> QED BY <2>1 DEF Merged, Publishing!Extends
<1>6. tickets_time'[r][t] > tickets_time[r][t] \/ tickets_time'[r][t] = tickets_time[r][t]
  <2>1. tickets_time[r][t] \in Nat /\ m.time \in Nat
    BY <1>2
  <2>2. tickets_time'[r][t] = m.time /\ m.time >= tickets_time[r][t]
    BY <1>1
  <2> HIDE DEF r, t
  <2> QED BY <2>1, <2>2
<1> HIDE DEF r, t
<1>7. /\ Publishing!Extends(reported[t][tickets_time'[r][t]], tickets'[r][t])
      /\ tickets_time'[r][t] \in DOMAIN reported[t]
      /\ \/ tickets_time'[r][t] > tickets_time[r][t]
         \/ /\ tickets_time'[r][t] = tickets_time[r][t]
            /\ Publishing!Extends(tickets'[r][t], tickets[r][t])
  BY <1>1, <1>4, <1>5, <1>6
<1> QED BY <1>3, <1>7 DEF Publishing!Read, r, t

\* A report that goes out is an edition.
LEMMA ReportIsPublished ==
  ASSUME Typed, NEW t \in Table, NEW total, IsVotes(total), Report(t, total),
         UNCHANGED <<tickets, tickets_time, zec_since, time>>
  PROVE  Publishing!Publish(t) \/ UNCHANGED reported
<1>1. CASE is_expire(t)
  <2>1. /\ DOMAIN reported'[t] = DOMAIN reported[t] \cup {time}
        /\ \A s \in DOMAIN reported[t] : reported'[t][s] = reported[t][s] /\ s < time
    BY <1>1, ReportWritten
  <2>2. reported' = [reported EXCEPT ![t] = reported'[t]]
    <3>1. reported' = [reported EXCEPT ![t] =
                         [s \in DOMAIN @ \cup {time} |-> IF s = time THEN total ELSE @[s]]]
      BY <1>1 DEF Report
    <3> QED BY <3>1 DEF Typed
  <2>3. time > 0 /\ \A s \in DOMAIN reported[t] : time > s
    <3>1. time \in Nat \ {0} /\ report_time[t] \in Nat /\ DOMAIN reported[t] \subseteq 1 .. report_time[t]
      BY DEF Typed
    <3> QED BY <2>1, <3>1
  <2>4. Publishing!Extends(reported'[t], reported[t])
    BY <2>1 DEF Publishing!Extends
  <2>5. time \in DOMAIN reported'[t]
    BY <2>1
  <2> QED BY <2>1, <2>2, <2>3, <2>4, <2>5 DEF Publishing!Publish
<1>2. CASE ~ is_expire(t)
  BY <1>2 DEF Report
<1> QED BY <1>1, <1>2

LEMMA VoteIsPublished ==
  ASSUME IInv, NEW v \in Voter, NEW info \in VoteInfo,
         voteNode(v, info) \/ unvoteNode(v, info)
  PROVE  Publishing!Publish(TableOf[v]) \/ UNCHANGED <<reported, tickets, tickets_time>>
<1>1. Typed /\ PollableIsSumOfVotes
  BY DEF IInv
<1>2. IsVotes(info) /\ TableOf[v] \in Table /\ IsVotes(pollable[TableOf[v]])
  BY <1>1, InfoIsVotes, TableAssumption DEF Typed
<1>3. UNCHANGED <<tickets, tickets_time, zec_since, time>>
  BY DEF voteNode, unvoteNode
<1>4. PICK total : IsVotes(total) /\ Report(TableOf[v], total)
  <2>1. CASE voteNode(v, info)
    <3>1. IsVotes(Added(pollable[TableOf[v]], info))
      BY <1>2, AddedVotes
    <3> QED BY <2>1, <3>1 DEF voteNode
  <2>2. CASE unvoteNode(v, info)
    <3>1. IsVotes(Taken(pollable[TableOf[v]], info))
      BY <1>1, <1>2, <2>2, UnvoteKeepsTotals, TakenVotes
    <3> QED BY <2>2, <3>1 DEF unvoteNode
  <2> QED BY <2>1, <2>2
<1> QED BY <1>1, <1>2, <1>3, <1>4, ReportIsPublished

LEMMA DeliverIsRead ==
  ASSUME IInv, NEW m \in calls, Deliver(m)
  PROVE  \/ Publishing!Read(m.to, m.table)
         \/ UNCHANGED <<reported, tickets, tickets_time>>
<1>1. Typed /\ Carried /\ UNCHANGED reported
  BY DEF IInv, Carried, Deliver, tableVars
<1>2. \/ handle_receive_shard_votes(m.to, m)
      \/ UNCHANGED <<tickets, tickets_time>>
  BY DEF Deliver, update_batch_stake_v2, on_receive_shard_votes_v2, Refused
<1> QED BY <1>1, <1>2, BatchIsRead

LEMMA StepFollows ==
  IInv /\ [Next]_vars => [Publishing!Next]_<<reported, tickets, tickets_time>>
<1> SUFFICES ASSUME IInv, [Next]_vars
             PROVE  [Publishing!Next]_<<reported, tickets, tickets_time>>
  OBVIOUS
<1>1. CASE Vote \/ Unvote
  <2>1. PICK v \in Voter, info \in VoteInfo : voteNode(v, info) \/ unvoteNode(v, info)
    BY <1>1 DEF Vote, Unvote
  <2>2. TableOf[v] \in Table
    BY TableAssumption
  <2> QED BY <2>1, <2>2, VoteIsPublished DEF Publishing!Next
<1>2. CASE Receive
  <2>1. PICK m \in calls : Deliver(m)
    BY <1>2 DEF Receive
  <2>2. m.to \in Receiver /\ m.table \in Table
    BY DEF IInv, Typed, IsCall
  <2> QED BY <2>1, <2>2, DeliverIsRead DEF Publishing!Next
<1>3. CASE Register \/ Unregister \/ ZecSync \/ Tick \/ UNCHANGED vars
  BY <1>3 DEF Register, Unregister, registerNode, unregisterNode, ZecSync, Tick, vars, tableVars
<1> QED BY <1>1, <1>2, <1>3 DEF Next

(***************************************************************************)
(* Tables and receivers keep what Publication promises, for any number of  *)
(* tables and any votes: the initial states are its initial states, and    *)
(* every step publishes an edition, reads a part of one, or is a stutter.  *)
(***************************************************************************)
THEOREM TalliesAlwaysFollow == Spec => TalliesFollowReports
<1>1. Init => Publishing!Init
  BY DEF Init, NoVotes, Publishing!Init, Publishing!Empty
<1>2. Spec => Publishing!Spec
  BY <1>1, StepFollows, IInvInductive, PTL DEF Spec, Publishing!Spec
<1> QED BY <1>2 DEF TalliesFollowReports
=============================================================================
