------------------------- MODULE RegistrationProofs -------------------------
(***************************************************************************)
(* Proofs about module Registration, for all accounts, amounts, minimums   *)
(* and intervals.  The records and what they are dated with come first;    *)
(* the tokens, which no handler looks at, follow from them.                *)
(***************************************************************************)
EXTENDS Registration, SumProofs

Typed ==
  /\ reg \in [DOMAIN reg -> NodeInfo] /\ DOMAIN reg \subseteq Account
  /\ refund \in [DOMAIN refund -> RefundInfo] /\ DOMAIN refund \subseteq Account
  /\ slash \in [DOMAIN slash -> SlashInfo] /\ DOMAIN slash \subseteq Account
  /\ left \in [Account -> Nat]
  /\ until \in [Account -> Nat]
  /\ rate_set \in [Account -> Nat]
  /\ time \in Nat \ {0}

\* A refund is dated with the time its owner left.
RefundDated == \A a \in DOMAIN refund : refund[a].create_time = left[a]

\* The contract dates the rate of a registered node, and starts afresh with one
\* that comes back.
RateDated ==
  \A a \in Account :
    rate_set[a] = IF a \in DOMAIN reg THEN reg[a].last_update ELSE 0

\* The lock on record ends when the one that is due does.
LockDated ==
  \A a \in Account :
    IF a \in DOMAIN slash
      THEN /\ slash[a].punish_time \in 1 .. time
           /\ until[a] = slash[a].punish_time + slash[a].lock
      ELSE until[a] = 0

IInv == Typed /\ DepositAboveMinimum /\ RefundDated /\ RateDated /\ LockDated

(***************************************************************************)
(* The initial states.                                                     *)
(***************************************************************************)
LEMMA InitIInv == Init => IInv
<1> SUFFICES ASSUME Init PROVE IInv
  OBVIOUS
<1> USE RegAccountAssumption DEF Init
<1>1. reg \in [DOMAIN reg -> NodeInfo] /\ DOMAIN reg \subseteq Account
  BY DEF NodeInfo
<1>2. refund \in [DOMAIN refund -> RefundInfo] /\ slash \in [DOMAIN slash -> SlashInfo]
  OBVIOUS
<1>3. DOMAIN refund = {} /\ DOMAIN slash = {}
  OBVIOUS
<1>4. left \in [Account -> Nat] /\ until \in [Account -> Nat] /\ rate_set \in [Account -> Nat]
  OBVIOUS
<1>5. time \in Nat \ {0}
  OBVIOUS
<1>6. Typed
  <2> HIDE DEF Init
  <2> QED
    BY <1>1, <1>2, <1>3, <1>4, <1>5 DEF Typed
<1>7. DepositAboveMinimum /\ RefundDated /\ RateDated /\ LockDated
  BY DEF DepositAboveMinimum, RefundDated, RateDated, LockDated
<1> QED
  BY <1>6, <1>7 DEF IInv

\* A node info with another type and deposit.
LEMMA RetypedInfo ==
  ASSUME NEW old \in NodeInfo, NEW type \in MinerType, NEW amount \in Int,
         old.mortgage + amount \in Nat
  PROVE  LET info == [old EXCEPT !.type = type, !.mortgage = @ + amount]
         IN  info \in NodeInfo /\ info.last_update = old.last_update
<1> DEFINE retyped == [old EXCEPT !.type = type]
           info == [old EXCEPT !.type = type, !.mortgage = @ + amount]
<1>1. /\ retyped \in NodeInfo
      /\ retyped.mortgage = old.mortgage
      /\ retyped.last_update = old.last_update
  BY DEF NodeInfo
<1>2. info = [retyped EXCEPT !.mortgage = @ + amount]
  BY DEF NodeInfo
<1> HIDE DEF retyped
<1>3. /\ [retyped EXCEPT !.mortgage = @ + amount] \in NodeInfo
      /\ [retyped EXCEPT !.mortgage = @ + amount].last_update = retyped.last_update
  BY <1>1 DEF NodeInfo
<1> QED
  BY <1>1, <1>2, <1>3

(***************************************************************************)
(* Every handler that writes a node info puts one in place of the old: the *)
(* invariant is kept when the deposit is enough for the type and the date  *)
(* of the rate is the one the contract recorded.                           *)
(***************************************************************************)
LEMMA PutKeepsIInv ==
  ASSUME IInv, NEW a \in Account, NEW info \in NodeInfo,
         ~ info.genesis => info.mortgage >= MinDeposit[info.type],
         reg' = With(reg, a, info),
         rate_set' = [rate_set EXCEPT ![a] = info.last_update],
         UNCHANGED <<refund, slash, left, until, time>>
  PROVE  IInv'
<1>1. /\ DOMAIN reg' = DOMAIN reg \cup {a}
      /\ reg'[a] = info
      /\ \A b \in DOMAIN reg \ {a} : reg'[b] = reg[b]
  BY DEF With
<1>2. reg' \in [DOMAIN reg' -> NodeInfo] /\ DOMAIN reg' \subseteq Account
  BY DEF With, IInv, Typed
<1>3. info.last_update \in Nat
  BY DEF NodeInfo
<1>4. Typed'
  BY <1>2, <1>3 DEF IInv, Typed
<1>5. DepositAboveMinimum'
  BY <1>1 DEF IInv, DepositAboveMinimum
<1>6. RateDated'
  BY <1>1 DEF IInv, Typed, RateDated
<1>7. RefundDated' /\ LockDated'
  BY DEF IInv, RefundDated, LockDated
<1> QED
  BY <1>4, <1>5, <1>6, <1>7 DEF IInv

(***************************************************************************)
(* The handlers that do so, each with its own test of the deposit.         *)
(***************************************************************************)
LEMMA RegisterKeepsIInv ==
  ASSUME IInv, NEW a \in Account, NEW type \in MinerType, NEW rate \in Rates,
         NEW amount \in Amounts, registerNode2(a, type, rate, amount)
  PROVE  IInv'
<1> DEFINE info == [mortgage |-> amount, type |-> type, rate |-> rate,
                    last_update |-> 0, genesis |-> FALSE]
<1>1. info \in NodeInfo
  BY RegNumberAssumption DEF NodeInfo
<1>2. info.mortgage >= MinDeposit[info.type] /\ reg' = With(reg, a, info)
  BY DEF registerNode2, Enough
<1>3. rate_set' = [rate_set EXCEPT ![a] = info.last_update]
  BY DEF registerNode2, history, IInv, Typed, RateDated
<1>4. UNCHANGED <<refund, slash, left, until, time>>
  BY DEF registerNode2, history
<1> HIDE DEF info
<1> QED
  BY <1>1, <1>2, <1>3, <1>4, PutKeepsIInv

\* updateNodeInfo: with a rate that differs, or with the old one.
LEMMA NewRateKeepsIInv ==
  ASSUME IInv, NEW a \in DOMAIN reg, NEW rate \in Rates, NEW info \in NodeInfo,
         info.last_update = reg[a].last_update,
         info.mortgage >= MinDeposit[info.type],
         NewRate(a, info, rate),
         UNCHANGED <<refund, slash, left, until, time>>
  PROVE  IInv'
<1>1. a \in Account /\ time \in Nat /\ rate \in Nat
  BY RegNumberAssumption DEF IInv, Typed
<1>2. CASE rate # info.rate
  <2> DEFINE new == Rerated(info, rate)
  <2>1. new \in NodeInfo
    BY <1>1 DEF Rerated, NodeInfo
  <2>2. /\ new.mortgage = info.mortgage
        /\ new.type = info.type
        /\ new.last_update = time
    BY DEF Rerated, NodeInfo
  <2>3. reg' = With(reg, a, new) /\ rate_set' = [rate_set EXCEPT ![a] = new.last_update]
    BY <1>2, <2>2 DEF NewRate
  <2> HIDE DEF new
  <2> QED
    BY <1>1, <2>1, <2>2, <2>3, PutKeepsIInv
<1>3. CASE rate = info.rate
  <2>1. reg' = With(reg, a, info) /\ rate_set' = [rate_set EXCEPT ![a] = @]
    BY <1>3 DEF NewRate
  <2>2. rate_set[a] = info.last_update
    BY <1>1 DEF IInv, RateDated
  <2> QED
    BY <1>1, <2>1, <2>2, PutKeepsIInv
<1> QED
  BY <1>2, <1>3

\* updateNodeInfo, staking or paying back.
LEMMA UpdateNodeInfoKeepsIInv ==
  ASSUME IInv, NEW a \in Account, NEW type \in MinerType, NEW rate \in Rates,
         NEW amount \in Amounts,
         \/ updateNodeInfo_stake(a, type, rate, amount)
         \/ \E sent \in Amounts : updateNodeInfo_unstake(a, type, rate, amount, sent)
  PROVE  IInv'
<1>1. amount \in Nat
  BY RegNumberAssumption
<1>2. CASE updateNodeInfo_stake(a, type, rate, amount)
  <2> DEFINE info == [reg[a] EXCEPT !.type = type, !.mortgage = @ + amount]
  <2>1. a \in DOMAIN reg
    BY <1>2 DEF updateNodeInfo_stake
  <2>2. info \in NodeInfo /\ info.last_update = reg[a].last_update
    <3>1. reg[a] \in NodeInfo /\ reg[a].mortgage + amount \in Nat
      BY <1>1, <2>1 DEF IInv, Typed, NodeInfo
    <3>2. info = [reg[a] EXCEPT !.type = type, !.mortgage = @ + amount]
      OBVIOUS
    <3>3. amount \in Int
      BY <1>1
    <3> HIDE DEF info
    <3> QED
      BY <3>1, <3>2, <3>3, RetypedInfo
  <2>3. info.mortgage >= MinDeposit[info.type] /\ NewRate(a, info, rate)
    BY <1>2 DEF updateNodeInfo_stake, Enough
  <2>4. UNCHANGED <<refund, slash, left, until, time>>
    BY <1>2 DEF updateNodeInfo_stake
  <2> HIDE DEF info
  <2> QED
    BY <2>1, <2>2, <2>3, <2>4, NewRateKeepsIInv
<1>3. ASSUME NEW sent \in Amounts, updateNodeInfo_unstake(a, type, rate, amount, sent)
      PROVE  IInv'
  <2> DEFINE info == [reg[a] EXCEPT !.type = type, !.mortgage = @ - amount]
  <2>1. a \in DOMAIN reg /\ amount <= reg[a].mortgage
    BY <1>3 DEF updateNodeInfo_unstake
  <2>2. info \in NodeInfo /\ info.last_update = reg[a].last_update
    <3>1. reg[a] \in NodeInfo /\ reg[a].mortgage \in Nat
      BY <2>1 DEF IInv, Typed, NodeInfo
    <3>2. info = [reg[a] EXCEPT !.type = type, !.mortgage = @ + (- amount)]
      BY <1>1, <3>1 DEF NodeInfo
    <3>3. - amount \in Int /\ reg[a].mortgage + (- amount) \in Nat
      BY <1>1, <2>1, <3>1
    <3> HIDE DEF info
    <3> QED
      BY <3>1, <3>2, <3>3, RetypedInfo
  <2>3. info.mortgage >= MinDeposit[info.type] /\ NewRate(a, info, rate)
    BY <1>3 DEF updateNodeInfo_unstake, Enough
  <2>4. UNCHANGED <<refund, slash, left, until, time>>
    BY <1>3 DEF updateNodeInfo_unstake
  <2> HIDE DEF info
  <2> QED
    BY <2>1, <2>2, <2>3, <2>4, NewRateKeepsIInv
<1> QED
  BY <1>2, <1>3

\* A change of the dividend rate alone.
LEMMA SetDividendRatioKeepsIInv ==
  ASSUME IInv, NEW a \in Account, NEW rate \in Rates, setDividendRatio(a, rate)
  PROVE  IInv'
<1> DEFINE info == Rerated(reg[a], rate)
<1>1. a \in DOMAIN reg /\ reg[a] \in NodeInfo /\ time \in Nat /\ rate \in Nat
  BY RegNumberAssumption DEF setDividendRatio, IInv, Typed
<1>2. /\ info \in NodeInfo
      /\ info.mortgage = reg[a].mortgage
      /\ info.type = reg[a].type
      /\ info.genesis = reg[a].genesis
      /\ info.last_update = time
  BY <1>1 DEF Rerated, NodeInfo
<1>3. ~ info.genesis => info.mortgage >= MinDeposit[info.type]
  BY <1>1, <1>2 DEF IInv, DepositAboveMinimum
<1>4. /\ reg' = With(reg, a, info)
      /\ rate_set' = [rate_set EXCEPT ![a] = info.last_update]
      /\ UNCHANGED <<refund, slash, left, until, time>>
  BY <1>2 DEF setDividendRatio
<1> HIDE DEF info
<1> QED
  BY <1>2, <1>3, <1>4, PutKeepsIInv

\* The handlers that leave the rate alone.
LEMMA SameRateKeepsIInv ==
  ASSUME IInv, NEW a \in DOMAIN reg, NEW info \in NodeInfo,
         ~ info.genesis => info.mortgage >= MinDeposit[info.type],
         info.last_update = reg[a].last_update,
         reg' = With(reg, a, info),
         UNCHANGED <<refund, slash, left, until, rate_set, time>>
  PROVE  IInv'
<1>1. a \in Account
  BY DEF IInv, Typed
<1>2. rate_set' = [rate_set EXCEPT ![a] = info.last_update]
  BY <1>1 DEF IInv, Typed, RateDated
<1> QED
  BY <1>1, <1>2, PutKeepsIInv

\* A change of the type, with tokens sent along.
LEMMA UpdateNodeTypeKeepsIInv ==
  ASSUME IInv, NEW a \in Account, NEW type \in MinerType, NEW amount \in Amounts,
         updateNodeType(a, type, amount)
  PROVE  IInv'
<1> DEFINE info == [reg[a] EXCEPT !.type = type, !.mortgage = @ + amount]
<1>1. a \in DOMAIN reg /\ amount \in Nat
  BY RegNumberAssumption DEF updateNodeType
<1>2. info \in NodeInfo /\ info.last_update = reg[a].last_update
  <2>1. reg[a] \in NodeInfo /\ reg[a].mortgage + amount \in Nat
    BY <1>1 DEF IInv, Typed, NodeInfo
  <2>2. info = [reg[a] EXCEPT !.type = type, !.mortgage = @ + amount]
    OBVIOUS
  <2>3. amount \in Int
    BY <1>1
  <2> HIDE DEF info
  <2> QED
    BY <2>1, <2>2, <2>3, RetypedInfo
<1>3. info.mortgage >= MinDeposit[info.type] /\ reg' = With(reg, a, info)
  BY DEF updateNodeType, Enough
<1>4. UNCHANGED <<refund, slash, left, until, rate_set, time>>
  BY DEF updateNodeType, history
<1> HIDE DEF info
<1> QED
  BY <1>1, <1>2, <1>3, <1>4, SameRateKeepsIInv

\* Changes of the deposit alone.
LEMMA RestakeKeepsIInv ==
  ASSUME IInv, NEW a \in Account, NEW amount \in Amounts,
         stakeDeposit(a, amount) \/ unstakeDeposit(a, amount)
  PROVE  IInv'
<1>1. a \in DOMAIN reg /\ amount \in Nat /\ reg[a] \in NodeInfo
  BY RegNumberAssumption DEF stakeDeposit, unstakeDeposit, IInv, Typed
<1>2. UNCHANGED <<refund, slash, left, until, rate_set, time>>
  BY DEF stakeDeposit, unstakeDeposit, history
<1>3. CASE stakeDeposit(a, amount)
  <2> DEFINE info == [reg[a] EXCEPT !.mortgage = @ + amount]
  <2>1. info \in NodeInfo /\ info.last_update = reg[a].last_update
    BY <1>1 DEF NodeInfo
  <2>2. ~ info.genesis => info.mortgage >= MinDeposit[info.type]
    <3>1. reg[a].type \in MinerType /\ reg[a].mortgage \in Nat
      BY <1>1 DEF NodeInfo
    <3>2. MinDeposit[reg[a].type] \in Nat
      BY <3>1, RegAccountAssumption
    <3>3. ~ reg[a].genesis => reg[a].mortgage >= MinDeposit[reg[a].type]
      BY <1>1 DEF IInv, DepositAboveMinimum
    <3>4. /\ info.mortgage = reg[a].mortgage + amount
          /\ info.type = reg[a].type
          /\ info.genesis = reg[a].genesis
      BY <1>1 DEF NodeInfo
    <3> QED
      BY <1>1, <3>1, <3>2, <3>3, <3>4
  <2>3. reg' = With(reg, a, info)
    BY <1>3 DEF stakeDeposit
  <2> HIDE DEF info
  <2> QED
    BY <1>1, <1>2, <2>1, <2>2, <2>3, SameRateKeepsIInv
<1>4. CASE unstakeDeposit(a, amount)
  <2> DEFINE info == [reg[a] EXCEPT !.mortgage = @ - amount]
  <2>1. info \in NodeInfo /\ info.last_update = reg[a].last_update
    BY <1>1, <1>4 DEF NodeInfo, unstakeDeposit
  <2>2. info.mortgage >= MinDeposit[info.type] /\ reg' = With(reg, a, info)
    BY <1>4 DEF unstakeDeposit, Enough
  <2> HIDE DEF info
  <2> QED
    BY <1>1, <1>2, <2>1, <2>2, SameRateKeepsIInv
<1> QED
  BY <1>3, <1>4

(***************************************************************************)
(* Leaving and redeeming.                                                  *)
(***************************************************************************)
LEMMA LeaveKeepsIInv ==
  ASSUME IInv, NEW a \in Account, unregisterNode(a) PROVE IInv'
<1> DEFINE info == [amount |-> RefundOf(a).amount + reg[a].mortgage, create_time |-> time]
<1>1. /\ reg' = Without(reg, a)
      /\ refund' = With(refund, a, info)
      /\ left' = [left EXCEPT ![a] = time]
      /\ rate_set' = [rate_set EXCEPT ![a] = 0]
      /\ UNCHANGED <<slash, until, time>>
  BY DEF unregisterNode, ins_refund
<1>2. info \in RefundInfo /\ info.create_time = time
  <2>1. reg[a].mortgage \in Nat
    BY DEF unregisterNode, IInv, Typed, NodeInfo
  <2>2. RefundOf(a).amount \in Nat
    BY DEF RefundOf, IInv, Typed, RefundInfo
  <2> QED
    BY <2>1, <2>2 DEF IInv, Typed, RefundInfo
<1> HIDE DEF info
<1>3. reg' \in [DOMAIN reg' -> NodeInfo] /\ DOMAIN reg' \subseteq Account
  BY <1>1 DEF Without, IInv, Typed
<1>4. refund' \in [DOMAIN refund' -> RefundInfo] /\ DOMAIN refund' \subseteq Account
  BY <1>1, <1>2 DEF With, IInv, Typed
<1>5. Typed'
  BY <1>1, <1>3, <1>4 DEF IInv, Typed
<1>6. DepositAboveMinimum' /\ RateDated'
  BY <1>1 DEF Without, IInv, Typed, DepositAboveMinimum, RateDated
<1>7. RefundDated'
  BY <1>1, <1>2 DEF With, IInv, Typed, RefundDated
<1>8. LockDated'
  BY <1>1 DEF IInv, LockDated
<1> QED
  BY <1>5, <1>6, <1>7, <1>8 DEF IInv

\* The payment of a refund.
LEMMA RedeemKeepsIInv ==
  ASSUME IInv, NEW a \in Account, redeemNodeDeposit(a) PROVE IInv'
<1>1. refund' = Without(refund, a) /\ UNCHANGED <<reg, slash, left, until, rate_set, time>>
  BY DEF redeemNodeDeposit, history
<1>2. refund' \in [DOMAIN refund' -> RefundInfo] /\ DOMAIN refund' \subseteq Account
  BY <1>1 DEF Without, IInv, Typed
<1>3. Typed'
  BY <1>1, <1>2 DEF IInv, Typed
<1>4. RefundDated'
  BY <1>1 DEF Without, IInv, RefundDated
<1>5. DepositAboveMinimum' /\ RateDated' /\ LockDated'
  BY <1>1 DEF IInv, DepositAboveMinimum, RateDated, LockDated
<1> QED
  BY <1>3, <1>4, <1>5 DEF IInv

(***************************************************************************)
(* Punishing.  The contract keeps the length of the lock and the time it   *)
(* counts from; the lock that is due is an end.  What the contract finds   *)
(* left of the old lock is what remains until that end.                    *)
(***************************************************************************)
LEMMA RemainingIsUntil ==
  ASSUME IInv, NEW a \in Account
  PROVE  /\ LockRemaining(SlashOf(a)) \in Nat
         /\ time + LockRemaining(SlashOf(a)) = Max2(until[a], time)
<1>1. time \in Nat \ {0} /\ until[a] \in Nat
  BY DEF IInv, Typed
<1>2. CASE a \in DOMAIN slash
  <2>1. SlashOf(a) = slash[a]
    BY <1>2 DEF SlashOf
  <2>2. /\ slash[a].punish_time \in Nat \ {0}
        /\ slash[a].punish_time <= time
        /\ slash[a].lock \in Nat
        /\ until[a] = slash[a].punish_time + slash[a].lock
    BY <1>1, <1>2 DEF IInv, Typed, LockDated, SlashInfo
  <2>3. CASE time - slash[a].punish_time > slash[a].lock
    BY <1>1, <2>1, <2>2, <2>3 DEF LockRemaining, Max2
  <2>4. CASE ~ (time - slash[a].punish_time > slash[a].lock)
    <3>1. /\ LockRemaining(SlashOf(a)) = slash[a].lock - (time - slash[a].punish_time)
          /\ until[a] >= time
      BY <1>1, <2>1, <2>2, <2>4 DEF LockRemaining
    <3>2. Max2(until[a], time) = until[a]
      BY <1>1, <3>1 DEF Max2
    <3> QED
      BY <1>1, <2>2, <2>4, <3>1, <3>2
  <2> QED
    BY <2>3, <2>4
<1>3. CASE a \notin DOMAIN slash
  <2>1. SlashOf(a).punish_time = 0 /\ SlashOf(a).lock = 0 /\ until[a] = 0
    BY <1>3 DEF SlashOf, IInv, LockDated
  <2> QED
    BY <1>1, <2>1 DEF LockRemaining, Max2
<1> QED
  BY <1>2, <1>3

\* A punishment puts the lock on record that is due after it.
LEMMA PunishedRecord ==
  ASSUME IInv, NEW a \in Account
  PROVE  LET s == slash_staking_time(SlashOf(a))
         IN  /\ s \in SlashInfo
             /\ s.punish_time = time
             /\ time + s.lock = Extended(until[a])
<1> DEFINE rem == LockRemaining(SlashOf(a))
           lock == Min2(rem + LockIncrement, LockMax)
           count == SlashOf(a).punish_staking
                      + IF rem + LockIncrement > LockMax THEN 1 ELSE 0
<1>1. time \in Nat /\ LockIncrement \in Nat /\ LockMax \in Nat
  BY RegNumberAssumption DEF IInv, Typed
<1>2. rem \in Nat /\ time + rem = Max2(until[a], time)
  BY RemainingIsUntil
<1>3. SlashOf(a).punish_staking \in Nat
  BY DEF SlashOf, IInv, Typed, SlashInfo
<1>4. slash_staking_time(SlashOf(a))
        = [punish_time |-> time, lock |-> lock, punish_staking |-> count]
  BY DEF slash_staking_time
<1> HIDE DEF rem
<1>5. lock \in Nat /\ count \in Nat
  BY <1>1, <1>2, <1>3 DEF Min2
<1>6. time + lock = Min2((time + rem) + LockIncrement, time + LockMax)
  BY <1>1, <1>2 DEF Min2
<1> HIDE DEF lock, count
<1> QED
  BY <1>1, <1>2, <1>4, <1>5, <1>6 DEF SlashInfo, Extended

\* A second punishment in the same call finds all of the first one's lock left.
LEMMA PunishedAgain ==
  ASSUME IInv, NEW s \in SlashInfo, s.punish_time = time
  PROVE  LET t == slash_staking_time(s)
         IN  /\ t \in SlashInfo
             /\ t.punish_time = time
             /\ time + t.lock = Extended(time + s.lock)
<1> DEFINE lock == Min2(s.lock + LockIncrement, LockMax)
           count == s.punish_staking + IF s.lock + LockIncrement > LockMax THEN 1 ELSE 0
<1>1. /\ time \in Nat /\ LockIncrement \in Nat /\ LockMax \in Nat
      /\ s.lock \in Nat /\ s.punish_staking \in Nat
  BY RegNumberAssumption DEF IInv, Typed, SlashInfo
<1>2. LockRemaining(s) = s.lock
  BY <1>1 DEF LockRemaining
<1>3. slash_staking_time(s)
        = [punish_time |-> time, lock |-> lock, punish_staking |-> count]
  BY <1>2 DEF slash_staking_time
<1>4. lock \in Nat /\ count \in Nat
  BY <1>1 DEF Min2
<1>5. time + lock = Extended(time + s.lock)
  BY <1>1 DEF Extended, Min2, Max2
<1> HIDE DEF lock, count
<1> QED
  BY <1>1, <1>3, <1>4, <1>5 DEF SlashInfo

\* A punishment of many nodes, some of them in both roles.
LEMMA PunishKeepsIInv ==
  ASSUME IInv, NEW A \in SUBSET Account, NEW V \in SUBSET Account,
         slash_unqualified_node(A, V)
  PROVE  IInv'
<1> DEFINE punished == (A \cup V) \cap DOMAIN reg
           once(a) == slash_staking_time(SlashOf(a))
           new(a) == IF a \in A \cap V THEN slash_staking_time(once(a)) ELSE once(a)
           due(a) == IF a \in A \cap V THEN Extended(Extended(until[a])) ELSE Extended(until[a])
<1>1. /\ slash' = [a \in DOMAIN slash \cup punished |->
                     IF a \in punished THEN new(a) ELSE slash[a]]
      /\ until' = [a \in Account |-> IF a \in punished THEN due(a) ELSE until[a]]
      /\ UNCHANGED <<reg, refund, left, rate_set, time>>
  BY DEF slash_unqualified_node
<1>2. ASSUME NEW a \in Account
      PROVE  /\ new(a) \in SlashInfo
             /\ new(a).punish_time = time
             /\ due(a) = time + new(a).lock
  <2>1. /\ once(a) \in SlashInfo
        /\ once(a).punish_time = time
        /\ time + once(a).lock = Extended(until[a])
    BY PunishedRecord
  <2> HIDE DEF once
  <2>2. LET t == slash_staking_time(once(a))
        IN  /\ t \in SlashInfo
            /\ t.punish_time = time
            /\ time + t.lock = Extended(time + once(a).lock)
    BY <2>1, PunishedAgain
  <2> QED
    BY <2>1, <2>2
<1>3. punished \subseteq Account
  OBVIOUS
<1>4. ASSUME NEW a \in Account
      PROVE  due(a) \in Nat
  <2>1. new(a) \in SlashInfo /\ due(a) = time + new(a).lock
    BY <1>2
  <2> HIDE DEF new, due
  <2> QED
    BY <2>1 DEF SlashInfo, IInv, Typed
<1> HIDE DEF punished, new, due
<1>5. slash' \in [DOMAIN slash' -> SlashInfo] /\ DOMAIN slash' \subseteq Account
  BY <1>1, <1>2, <1>3 DEF IInv, Typed
<1>6. until' \in [Account -> Nat]
  BY <1>1, <1>4 DEF IInv, Typed
<1>7. Typed'
  BY <1>1, <1>5, <1>6 DEF IInv, Typed
<1>8. LockDated'
  <2> SUFFICES ASSUME NEW a \in Account
               PROVE  (IF a \in DOMAIN slash
                         THEN /\ slash[a].punish_time \in 1 .. time
                              /\ until[a] = slash[a].punish_time + slash[a].lock
                         ELSE until[a] = 0)'
    BY DEF LockDated
  <2>1. CASE a \in punished
    <3>1. a \in DOMAIN slash' /\ slash'[a] = new(a) /\ until'[a] = due(a)
      BY <1>1, <2>1
    <3>2. time' = time /\ time \in Nat \ {0}
      BY <1>1 DEF IInv, Typed
    <3> QED
      BY <1>2, <3>1, <3>2
  <2>2. CASE a \notin punished
    BY <1>1, <2>2 DEF IInv, LockDated
  <2> QED
    BY <2>1, <2>2
<1>9. DepositAboveMinimum' /\ RefundDated' /\ RateDated'
  BY <1>1 DEF IInv, DepositAboveMinimum, RefundDated, RateDated
<1> QED
  BY <1>7, <1>8, <1>9 DEF IInv

\* The clock.
LEMMA TickKeepsIInv == IInv /\ Tick => IInv'
<1> SUFFICES ASSUME IInv, Tick PROVE IInv'
  OBVIOUS
<1>1. time' = time + 1 /\ UNCHANGED <<reg, refund, slash, left, until, rate_set>>
  BY DEF Tick, contract, history
<1>2. Typed'
  BY <1>1 DEF IInv, Typed
<1>3. LockDated'
  BY <1>1 DEF IInv, Typed, LockDated
<1>4. DepositAboveMinimum' /\ RefundDated' /\ RateDated'
  BY <1>1 DEF IInv, DepositAboveMinimum, RefundDated, RateDated
<1> QED
  BY <1>2, <1>3, <1>4 DEF IInv

(***************************************************************************)
(* Every step.                                                             *)
(***************************************************************************)
LEMMA NextKeepsIInv == IInv /\ [Next]_vars => IInv'
<1> SUFFICES ASSUME IInv, [Next]_vars PROVE IInv'
  OBVIOUS
<1>1. CASE Enter
  BY <1>1, RegisterKeepsIInv DEF Enter
<1>2. CASE Leave
  BY <1>2, LeaveKeepsIInv, RedeemKeepsIInv DEF Leave
<1>3. CASE Update
  BY <1>3, UpdateNodeInfoKeepsIInv DEF Update
<1>4. CASE Rerate
  BY <1>4, SetDividendRatioKeepsIInv DEF Rerate
<1>5. CASE Retype
  BY <1>5, UpdateNodeTypeKeepsIInv DEF Retype
<1>6. CASE Restake
  BY <1>6, RestakeKeepsIInv DEF Restake
<1>7. CASE Punish
  BY <1>7, PunishKeepsIInv DEF Punish
<1>8. CASE Tick
  BY <1>8, TickKeepsIInv
<1>9. CASE UNCHANGED vars
  <2>1. UNCHANGED <<reg, refund, slash, left, until, rate_set, time>>
    BY <1>9 DEF vars, contract, history
  <2> QED
    BY <2>1 DEF IInv, Typed, DepositAboveMinimum, RefundDated, RateDated, LockDated
<1> QED
  BY <1>1, <1>2, <1>3, <1>4, <1>5, <1>6, <1>7, <1>8, <1>9 DEF Next

(***************************************************************************)
(* Which handler does what: a node only goes by unregisterNode, a refund   *)
(* by redeemNodeDeposit, and the rate changes only when it may.            *)
(***************************************************************************)
LEMMA UpdateWritesRate ==
  ASSUME Update
  PROVE  \E b \in DOMAIN reg, k \in MinerType, rate \in Rates : \E m :
           /\ NewRate(b, [reg[b] EXCEPT !.type = k, !.mortgage = m], rate)
           /\ UNCHANGED <<refund, slash, left, until, time>>
<1>1. PICK b \in Account, k \in MinerType, rate \in Rates, n \in Amounts :
        \/ updateNodeInfo_stake(b, k, rate, n)
        \/ \E sent \in Amounts : updateNodeInfo_unstake(b, k, rate, n, sent)
  BY DEF Update
<1>2. CASE updateNodeInfo_stake(b, k, rate, n)
  <2>1. /\ b \in DOMAIN reg
        /\ NewRate(b, [reg[b] EXCEPT !.type = k, !.mortgage = @ + n], rate)
        /\ UNCHANGED <<refund, slash, left, until, time>>
    BY <1>2 DEF updateNodeInfo_stake
  <2> DEFINE m == reg[b].mortgage + n
  <2>2. [reg[b] EXCEPT !.type = k, !.mortgage = @ + n]
          = [reg[b] EXCEPT !.type = k, !.mortgage = m]
    OBVIOUS
  <2> HIDE DEF m
  <2> QED
    BY <2>1, <2>2
<1>3. ASSUME NEW sent \in Amounts, updateNodeInfo_unstake(b, k, rate, n, sent)
      PROVE  /\ b \in DOMAIN reg
             /\ NewRate(b, [reg[b] EXCEPT !.type = k, !.mortgage = @ - n], rate)
             /\ UNCHANGED <<refund, slash, left, until, time>>
  BY <1>3 DEF updateNodeInfo_unstake
<1>4. CASE ~ updateNodeInfo_stake(b, k, rate, n)
  <2>1. /\ b \in DOMAIN reg
        /\ NewRate(b, [reg[b] EXCEPT !.type = k, !.mortgage = @ - n], rate)
        /\ UNCHANGED <<refund, slash, left, until, time>>
    BY <1>1, <1>3, <1>4
  <2> DEFINE m == reg[b].mortgage - n
  <2>2. [reg[b] EXCEPT !.type = k, !.mortgage = @ - n]
          = [reg[b] EXCEPT !.type = k, !.mortgage = m]
    OBVIOUS
  <2> HIDE DEF m
  <2> QED
    BY <2>1, <2>2
<1> QED
  BY <1>2, <1>4

\* Only unregisterNode takes a node off the registrations.
LEMMA OnlyLeavingUnregisters ==
  ASSUME Next, NEW a \in DOMAIN reg, a \notin DOMAIN reg'
  PROVE  unregisterNode(a)
<1>1. ASSUME NEW b, NEW info, reg' = With(reg, b, info)
      PROVE  FALSE
  BY <1>1 DEF With
<1>2. reg' # reg
  OBVIOUS
<1>3. ~ (Enter \/ Update \/ Rerate \/ Retype \/ Restake)
  <2>1. ~ Enter
    BY <1>1 DEF Enter, registerNode2
  <2>2. ~ Update
    BY <1>1, UpdateWritesRate DEF NewRate
  <2>3. ~ Rerate /\ ~ Retype
    BY <1>1 DEF Rerate, setDividendRatio, Retype, updateNodeType
  <2>4. ~ Restake
    BY <1>1 DEF Restake, stakeDeposit, unstakeDeposit
  <2> QED
    BY <2>1, <2>2, <2>3, <2>4
<1>4. ~ (Punish \/ Tick)
  BY <1>2 DEF Punish, slash_unqualified_node, Tick, contract
<1>5. PICK b \in Account : unregisterNode(b)
  BY <1>2, <1>3, <1>4 DEF Next, Leave, redeemNodeDeposit
<1>6. a = b
  BY <1>5 DEF unregisterNode, Without
<1> QED
  BY <1>5, <1>6

\* Only redeemNodeDeposit takes a refund off the records.
LEMMA OnlyRedeemingPaysRefunds ==
  ASSUME Next, NEW a \in DOMAIN refund, a \notin DOMAIN refund'
  PROVE  redeemNodeDeposit(a)
<1>1. refund' # refund
  OBVIOUS
<1>2. ~ (Enter \/ Rerate \/ Retype \/ Restake)
  BY <1>1 DEF Enter, registerNode2, Rerate, setDividendRatio, Retype, updateNodeType,
              Restake, stakeDeposit, unstakeDeposit
<1>3. ~ (Update \/ Punish \/ Tick)
  <2>1. ~ Update
    BY <1>1, UpdateWritesRate
  <2>2. ~ (Punish \/ Tick)
    BY <1>1 DEF Punish, slash_unqualified_node, Tick, contract
  <2> QED
    BY <2>1, <2>2
<1>4. PICK b \in Account : unregisterNode(b) \/ redeemNodeDeposit(b)
  BY <1>2, <1>3 DEF Next, Leave
<1>5. ~ unregisterNode(b)
  BY DEF unregisterNode, ins_refund, With
<1>6. a = b
  BY <1>4, <1>5 DEF redeemNodeDeposit, Without
<1> QED
  BY <1>4, <1>5, <1>6

\* A handler that changes the rate of a node has found the interval over.
LEMMA RateChangesWhenDue ==
  ASSUME IInv, Next, NEW a \in DOMAIN reg, a \in DOMAIN reg',
         reg[a].rate # reg'[a].rate
  PROVE  RateDue(a)
<1>1. ASSUME NEW b \in DOMAIN reg, NEW info, info.rate = reg[b].rate,
             reg' = With(reg, b, info)
      PROVE  FALSE
  BY <1>1 DEF With
<1>2. reg[a] \in NodeInfo /\ reg' # reg
  BY DEF IInv, Typed
<1>3. ~ (Enter \/ Leave)
  BY <1>2 DEF Enter, registerNode2, Leave, unregisterNode, redeemNodeDeposit, With, Without
<1>4. ~ (Retype \/ Restake)
  <2>1. ASSUME NEW b \in DOMAIN reg, NEW n, NEW k
        PROVE  /\ [reg[b] EXCEPT !.type = k, !.mortgage = n].rate = reg[b].rate
               /\ [reg[b] EXCEPT !.mortgage = n].rate = reg[b].rate
    BY DEF IInv, Typed, NodeInfo
  <2>2. ~ Retype
    <3> SUFFICES ASSUME NEW b \in Account, NEW k \in MinerType, NEW n \in Amounts,
                        updateNodeType(b, k, n)
                 PROVE  FALSE
      BY DEF Retype
    <3> DEFINE m == reg[b].mortgage + n
               info == [reg[b] EXCEPT !.type = k, !.mortgage = m]
    <3>1. b \in DOMAIN reg /\ reg' = With(reg, b, info)
      BY DEF updateNodeType
    <3> HIDE DEF m
    <3>2. info.rate = reg[b].rate
      BY <2>1, <3>1
    <3> HIDE DEF info
    <3> QED
      BY <1>1, <3>1, <3>2
  <2>3. ~ Restake
    BY <1>1, <2>1 DEF Restake, stakeDeposit, unstakeDeposit
  <2> QED
    BY <2>2, <2>3
<1>5. ~ (Punish \/ Tick)
  BY <1>2 DEF Punish, slash_unqualified_node, Tick, contract
<1>6. CASE Rerate
  BY <1>6 DEF Rerate, setDividendRatio, With
<1>7. CASE Update
  <2>1. PICK b \in DOMAIN reg, rate \in Rates :
          \E info : info.rate = reg[b].rate /\ NewRate(b, info, rate)
    <3>1. ASSUME NEW b \in DOMAIN reg, NEW n, NEW k
          PROVE  [reg[b] EXCEPT !.type = k, !.mortgage = n].rate = reg[b].rate
      BY DEF IInv, Typed, NodeInfo
    <3> QED
      BY <1>7, <3>1, UpdateWritesRate
  <2> PICK info : info.rate = reg[b].rate /\ NewRate(b, info, rate)
    BY <2>1
  <2>2. rate # info.rate
    BY <1>1 DEF NewRate
  <2>3. RateDue(b) /\ reg' = With(reg, b, Rerated(info, rate))
    BY <2>2 DEF NewRate
  <2> QED
    BY <2>3 DEF With
<1> QED
  BY <1>3, <1>4, <1>5, <1>6, <1>7 DEF Next

(***************************************************************************)
(* The records of the contract (node infos, refunds, locks) keep their     *)
(* types, and the dates and locks on record agree with what happened: the  *)
(* last time the owner left, the last change of the rate since the node    *)
(* registered, the end of the lock it is due.                              *)
(***************************************************************************)
THEOREM RecordsKept == Spec => []IInv
<1> QED
  BY InitIInv, NextKeepsIInv, PTL DEF Spec

(***************************************************************************)
(* A registered node that is no seed node has at least the deposit of its  *)
(* present type, whichever handlers registered it, changed its type or     *)
(* moved its deposit, and in whatever order.                               *)
(***************************************************************************)
THEOREM DepositStaysAboveMinimum == Spec => []DepositAboveMinimum
<1>1. IInv => DepositAboveMinimum
  BY DEF IInv
<1> QED
  BY <1>1, RecordsKept, PTL

(***************************************************************************)
(* A punished node does not unregister before the lock it is due is over,  *)
(* however often it is punished and whether or not it left and came back.  *)
(***************************************************************************)
THEOREM LockIsServed == Spec => LockServed
<1>1. IInv /\ [Next]_vars
        => [\A a \in DOMAIN reg \ DOMAIN reg' : time >= until[a]]_vars
  <2> SUFFICES ASSUME IInv, Next, NEW a \in DOMAIN reg, a \notin DOMAIN reg'
               PROVE  time >= until[a]
    OBVIOUS
  <2>1. a \in Account /\ time \in Nat /\ until[a] \in Nat
    BY DEF IInv, Typed
  <2>2. unregisterNode(a)
    BY OnlyLeavingUnregisters
  <2>3. CASE a \in DOMAIN slash
    <3>1. /\ slash[a].punish_time \in Nat
          /\ slash[a].lock \in Nat
          /\ until[a] = slash[a].punish_time + slash[a].lock
          /\ slash[a].punish_time <= time
      BY <2>1, <2>3 DEF IInv, Typed, LockDated, SlashInfo
    <3>2. slash[a].lock > 0 => ~ (time - slash[a].punish_time < slash[a].lock)
      BY <2>2, <2>3 DEF unregisterNode, Locked
    <3> QED
      BY <2>1, <3>1, <3>2
  <2>4. CASE a \notin DOMAIN slash
    BY <2>1, <2>4 DEF IInv, LockDated
  <2> QED
    BY <2>3, <2>4
<1> QED
  BY <1>1, RecordsKept, PTL DEF Spec, LockServed

(***************************************************************************)
(* A deposit is paid out no sooner than RedeemInterval after its owner     *)
(* last left, also when an older refund of the owner was due already.      *)
(***************************************************************************)
THEOREM RefundIsHeldBack == Spec => RefundWaits
<1>1. IInv /\ [Next]_vars
        => [\A a \in DOMAIN refund \ DOMAIN refund' : time - left[a] >= RedeemInterval]_vars
  <2> SUFFICES ASSUME IInv, Next, NEW a \in DOMAIN refund, a \notin DOMAIN refund'
               PROVE  time - left[a] >= RedeemInterval
    OBVIOUS
  <2>1. redeemNodeDeposit(a)
    BY OnlyRedeemingPaysRefunds
  <2>2. refund[a].create_time = left[a]
    BY DEF IInv, RefundDated
  <2> QED
    BY <2>1, <2>2 DEF redeemNodeDeposit
<1> QED
  BY <1>1, RecordsKept, PTL DEF Spec, RefundWaits

(***************************************************************************)
(* The dividend rate of a node that stays registered changes at most once  *)
(* per interval, with updateNodeInfo and setDividendRatio in any order.    *)
(***************************************************************************)
THEOREM RateIsHeld == Spec => RateHeld
<1>1. IInv /\ [Next]_vars
        => [\A a \in DOMAIN reg \cap DOMAIN reg' :
              reg[a].rate # reg'[a].rate /\ rate_set[a] # 0
                => time - rate_set[a] >= RateInterval]_vars
  <2> SUFFICES ASSUME IInv, Next, NEW a \in DOMAIN reg, a \in DOMAIN reg',
                      reg[a].rate # reg'[a].rate, rate_set[a] # 0
               PROVE  time - rate_set[a] >= RateInterval
    OBVIOUS
  <2>1. RateDue(a)
    BY RateChangesWhenDue
  <2>2. rate_set[a] = reg[a].last_update
    BY DEF IInv, Typed, RateDated
  <2> QED
    BY <2>1, <2>2 DEF RateDue
<1> QED
  BY <1>1, RecordsKept, PTL DEF Spec, RateHeld
-----------------------------------------------------------------------------
(***************************************************************************)
(* The tokens.  A total over the records is one over all accounts, one     *)
(* without a record counting for nothing, so that a step changes a summand *)
(* and never the set summed over.                                          *)
(***************************************************************************)
Mortgages(r) == [a \in Account |-> IF a \in DOMAIN r THEN r[a].mortgage ELSE 0]

Refunds(r) == [a \in Account |-> IF a \in DOMAIN r THEN r[a].amount ELSE 0]

Held == SumFunctionOnSet(Mortgages(reg), Account)

Due == SumFunctionOnSet(Refunds(refund), Account)

LEMMA TotalsOverAccounts ==
  Typed => /\ SumFunction([a \in DOMAIN reg |-> reg[a].mortgage]) = Held
           /\ SumFunction([a \in DOMAIN refund |-> refund[a].amount]) = Due
           /\ Held \in Nat /\ Due \in Nat
<1> SUFFICES ASSUME Typed
             PROVE  /\ SumFunction([a \in DOMAIN reg |-> reg[a].mortgage]) = Held
                    /\ SumFunction([a \in DOMAIN refund |-> refund[a].amount]) = Due
                    /\ Held \in Nat /\ Due \in Nat
  OBVIOUS
<1> DEFINE f == [a \in DOMAIN reg |-> reg[a].mortgage]
           g == [a \in DOMAIN refund |-> refund[a].amount]
<1>1. /\ DOMAIN reg \in SUBSET Account /\ DOMAIN refund \in SUBSET Account
      /\ IsFiniteSet(Account)
  BY RegAccountAssumption DEF Typed
<1>2. /\ IsFiniteSet(DOMAIN reg) /\ IsFiniteSet(DOMAIN refund)
  BY <1>1, FS_Subset
<1>3. \A a \in Account : Mortgages(reg)[a] \in Nat /\ Refunds(refund)[a] \in Nat
  BY DEF Typed, Mortgages, Refunds, NodeInfo, RefundInfo
<1>4. Held \in Nat /\ Due \in Nat
  BY <1>1, <1>3, SumOfNats DEF Held, Due
<1>5. SumFunction(f) = Held
  <2>1. SumFunction(f) = SumFunctionOnSet(f, DOMAIN reg)
    BY DEF SumFunction
  <2>2. SumFunctionOnSet(f, DOMAIN reg) = SumFunctionOnSet(Mortgages(reg), DOMAIN reg)
    <3>1. \A a \in DOMAIN reg : f[a] = Mortgages(reg)[a]
      BY <1>1 DEF Mortgages
    <3> HIDE DEF f
    <3> QED BY <1>2, <3>1, SumSame
  <2>3. SumFunctionOnSet(Mortgages(reg), Account) = SumFunctionOnSet(Mortgages(reg), DOMAIN reg)
    <3>1. \A a \in Account \ DOMAIN reg : Mortgages(reg)[a] = 0
      BY DEF Mortgages
    <3>2. \A a \in Account : Mortgages(reg)[a] \in Int
      BY <1>3
    <3> QED BY <1>1, <3>1, <3>2, SumNonzero
  <2> QED BY <2>1, <2>2, <2>3 DEF Held
<1>6. SumFunction(g) = Due
  <2>1. SumFunction(g) = SumFunctionOnSet(g, DOMAIN refund)
    BY DEF SumFunction
  <2>2. SumFunctionOnSet(g, DOMAIN refund) = SumFunctionOnSet(Refunds(refund), DOMAIN refund)
    <3>1. \A a \in DOMAIN refund : g[a] = Refunds(refund)[a]
      BY <1>1 DEF Refunds
    <3> HIDE DEF g
    <3> QED BY <1>2, <3>1, SumSame
  <2>3. SumFunctionOnSet(Refunds(refund), Account) = SumFunctionOnSet(Refunds(refund), DOMAIN refund)
    <3>1. \A a \in Account \ DOMAIN refund : Refunds(refund)[a] = 0
      BY DEF Refunds
    <3>2. \A a \in Account : Refunds(refund)[a] \in Int
      BY <1>3
    <3> QED BY <1>1, <3>1, <3>2, SumNonzero
  <2> QED BY <2>1, <2>2, <2>3 DEF Due
<1> QED BY <1>4, <1>5, <1>6

Tokens ==
  /\ activation \in Nat /\ stray \in Nat
  /\ wallet \in [Account -> Nat]
  /\ balance = Held + Due + stray

(***************************************************************************)
(* The step every handler comes down to: the records of one account are    *)
(* written, the deposit on them becomes m and the refund n, and the        *)
(* contract's tokens change by as much.                                    *)
(***************************************************************************)
LEMMA BooksMove ==
  ASSUME Typed, Typed', Tokens, NEW a \in Account, NEW m \in Nat, NEW n \in Nat,
         Mortgages(reg') = [Mortgages(reg) EXCEPT ![a] = m],
         Refunds(refund') = [Refunds(refund) EXCEPT ![a] = n],
         activation' \in {activation, time}, stray' \in Nat, wallet' \in [Account -> Nat],
         balance' = balance + (m - Mortgages(reg)[a]) + (n - Refunds(refund)[a])
                            + (stray' - stray)
  PROVE  Tokens'
<1>1. IsFiniteSet(Account)
  BY RegAccountAssumption
<1>2. \A b \in Account : /\ Mortgages(reg)[b] \in Nat /\ Refunds(refund)[b] \in Nat
                         /\ Mortgages(reg')[b] \in Nat /\ Refunds(refund')[b] \in Nat
  BY DEF Typed, Mortgages, Refunds, NodeInfo, RefundInfo
<1>3. /\ Mortgages(reg')[a] = m /\ \A b \in Account \ {a} : Mortgages(reg')[b] = Mortgages(reg)[b]
      /\ Refunds(refund')[a] = n /\ \A b \in Account \ {a} : Refunds(refund')[b] = Refunds(refund)[b]
  <2>1. a \in DOMAIN Mortgages(reg) /\ DOMAIN Mortgages(reg) = Account
    BY DEF Mortgages
  <2>2. a \in DOMAIN Refunds(refund) /\ DOMAIN Refunds(refund) = Account
    BY DEF Refunds
  <2> QED BY <2>1, <2>2
<1>4. Held' = Held + (m - Mortgages(reg)[a])
  <2> DEFINE f == Mortgages(reg)
             g == Mortgages(reg')
  <2>1. Held = SumFunctionOnSet(f, Account) /\ Held' = SumFunctionOnSet(g, Account)
    BY DEF Held
  <2>2. /\ \A b \in Account : f[b] \in Int /\ g[b] \in Int
        /\ \A b \in Account \ {a} : g[b] = f[b]
        /\ g[a] = m
    BY <1>2, <1>3
  <2> HIDE DEF f, g
  <2>3. SumFunctionOnSet(g, Account) = SumFunctionOnSet(f, Account) + (g[a] - f[a])
    BY <1>1, <2>2, SumChange
  <2> QED BY <2>1, <2>2, <2>3 DEF f
<1>5. Due' = Due + (n - Refunds(refund)[a])
  <2> DEFINE f == Refunds(refund)
             g == Refunds(refund')
  <2>1. Due = SumFunctionOnSet(f, Account) /\ Due' = SumFunctionOnSet(g, Account)
    BY DEF Due
  <2>2. /\ \A b \in Account : f[b] \in Int /\ g[b] \in Int
        /\ \A b \in Account \ {a} : g[b] = f[b]
        /\ g[a] = n
    BY <1>2, <1>3
  <2> HIDE DEF f, g
  <2>3. SumFunctionOnSet(g, Account) = SumFunctionOnSet(f, Account) + (g[a] - f[a])
    BY <1>1, <2>2, SumChange
  <2> QED BY <2>1, <2>2, <2>3 DEF f
<1>6. Held \in Nat /\ Due \in Nat
  BY TotalsOverAccounts
<1>7. activation' \in Nat
  BY DEF Typed, Tokens
<1>8. balance' = Held' + Due' + stray'
  BY <1>2, <1>4, <1>5, <1>6 DEF Tokens
<1> QED BY <1>7, <1>8 DEF Tokens

\* What writing and dropping a record does to the summands.
LEMMA PutMortgage ==
  ASSUME NEW a \in Account, NEW info, reg' = With(reg, a, info)
  PROVE  Mortgages(reg') = [Mortgages(reg) EXCEPT ![a] = info.mortgage]
BY DEF With, Mortgages

LEMMA DropMortgage ==
  ASSUME NEW a \in Account, reg' = Without(reg, a)
  PROVE  Mortgages(reg') = [Mortgages(reg) EXCEPT ![a] = 0]
BY DEF Without, Mortgages

LEMMA PutRefund ==
  ASSUME NEW a \in Account, NEW info, refund' = With(refund, a, info)
  PROVE  Refunds(refund') = [Refunds(refund) EXCEPT ![a] = info.amount]
BY DEF With, Refunds

LEMMA DropRefund ==
  ASSUME NEW a \in Account, refund' = Without(refund, a)
  PROVE  Refunds(refund') = [Refunds(refund) EXCEPT ![a] = 0]
BY DEF Without, Refunds

\* Records nobody writes.
LEMMA Same ==
  ASSUME NEW a \in Account
  PROVE  /\ UNCHANGED reg => Mortgages(reg') = [Mortgages(reg) EXCEPT ![a] = Mortgages(reg)[a]]
         /\ UNCHANGED refund => Refunds(refund') = [Refunds(refund) EXCEPT ![a] = Refunds(refund)[a]]
BY DEF Mortgages, Refunds

\* An account is paid n tokens, having sent some along.
LEMMA WalletKept ==
  ASSUME Tokens, NEW a \in Account, NEW n \in Nat,
         \/ TakeIn(a, n) \/ TRANSFER(a, n)
         \/ \E sent \in Nat : /\ wallet[a] >= sent
                             /\ wallet' = [wallet EXCEPT ![a] = @ - sent + n]
  PROVE  wallet' \in [Account -> Nat]
<1>1. wallet \in [Account -> Nat] /\ wallet[a] \in Nat
  BY DEF Tokens
<1>2. PICK k \in Nat : wallet' = [wallet EXCEPT ![a] = k]
  <2>1. CASE TakeIn(a, n)
    <3>1. wallet[a] - n \in Nat
      BY <1>1, <2>1 DEF TakeIn
    <3> QED BY <2>1, <3>1 DEF TakeIn
  <2>2. CASE TRANSFER(a, n)
    <3>1. wallet[a] + n \in Nat
      BY <1>1
    <3> QED BY <2>2, <3>1 DEF TRANSFER
  <2>3. ASSUME NEW sent \in Nat, wallet[a] >= sent,
               wallet' = [wallet EXCEPT ![a] = @ - sent + n]
        PROVE  \E k \in Nat : wallet' = [wallet EXCEPT ![a] = k]
    <3>1. wallet[a] - sent + n \in Nat
      BY <1>1, <2>3
    <3> QED BY <2>3, <3>1
  <2> QED BY <2>1, <2>2, <2>3
<1> QED BY <1>1, <1>2

(***************************************************************************)
(* The handlers.  Those that write a node info change the deposit on it by *)
(* what they take in or pay.                                               *)
(***************************************************************************)
LEMMA PutKeepsTokens ==
  ASSUME Typed, Typed', Tokens, NEW a \in Account, NEW info, info.mortgage \in Nat,
         reg' = With(reg, a, info), UNCHANGED refund,
         activation' \in {activation, time}, stray' \in Nat, wallet' \in [Account -> Nat],
         balance' = balance + (info.mortgage - Mortgages(reg)[a]) + (stray' - stray)
  PROVE  Tokens'
<1> DEFINE m == info.mortgage
           n == Refunds(refund)[a]
<1>1. m \in Nat /\ n \in Nat /\ Mortgages(reg)[a] \in Nat
  BY DEF Typed, Mortgages, Refunds, NodeInfo, RefundInfo
<1>2. /\ Mortgages(reg') = [Mortgages(reg) EXCEPT ![a] = m]
      /\ Refunds(refund') = [Refunds(refund) EXCEPT ![a] = n]
  BY PutMortgage, Same
<1>3. balance \in Int
  BY TotalsOverAccounts DEF Tokens
<1>4. stray \in Nat
  BY DEF Tokens
<1>5. balance' = balance + (m - Mortgages(reg)[a]) + (n - n) + (stray' - stray)
  BY <1>1, <1>3, <1>4
<1> HIDE DEF m
<1> QED BY <1>1, <1>2, <1>5, BooksMove

LEMMA RegisterKeepsTokens ==
  ASSUME Typed, Typed', Tokens, NEW a \in Account, NEW type, NEW rate, NEW amount \in Amounts,
         registerNode2(a, type, rate, amount)
  PROVE  Tokens'
<1> DEFINE info == [mortgage |-> amount, type |-> type, rate |-> rate,
                    last_update |-> 0, genesis |-> FALSE]
<1>1. info.mortgage = amount /\ amount \in Nat
  BY RegNumberAssumption
<1>2. /\ a \notin DOMAIN reg /\ TakeIn(a, amount) /\ reg' = With(reg, a, info)
      /\ activation' \in {activation, time} /\ UNCHANGED <<refund, stray>>
  BY DEF registerNode2, check_and_set_genesis_stage
<1>3. wallet' \in [Account -> Nat]
  BY <1>1, <1>2, WalletKept
<1>4. Mortgages(reg)[a] = 0 /\ balance' = balance + amount
  BY <1>2 DEF Mortgages, TakeIn
<1>5. balance' = balance + (info.mortgage - Mortgages(reg)[a]) + (stray' - stray)
  <2>1. balance \in Int /\ stray \in Nat
    BY TotalsOverAccounts DEF Tokens
  <2> HIDE DEF info
  <2> QED BY <1>1, <1>2, <1>4, <2>1
<1>6. stray' \in Nat
  BY <1>2 DEF Tokens
<1> HIDE DEF info
<1> QED BY <1>1, <1>2, <1>3, <1>5, <1>6, PutKeepsTokens

\* The deposit of the node info that updateNodeInfo writes, rate changed or not.
LEMMA NewRateMortgage ==
  ASSUME NEW a, NEW info, NEW rate, NewRate(a, info, rate),
         info \in NodeInfo
  PROVE  \E put : reg' = With(reg, a, put) /\ put.mortgage = info.mortgage
<1>1. Rerated(info, rate).mortgage = info.mortgage
  <2> DEFINE one == [info EXCEPT !.rate = rate]
  <2>1. Rerated(info, rate) = [one EXCEPT !.last_update = time]
    BY DEF Rerated
  <2>2. one.mortgage = info.mortgage /\ DOMAIN one = DOMAIN info
    BY DEF NodeInfo
  <2> HIDE DEF one
  <2> QED BY <2>1, <2>2 DEF NodeInfo
<1> QED BY <1>1 DEF NewRate

LEMMA UpdateKeepsTokens ==
  ASSUME Typed, Typed', Tokens, Update
  PROVE  Tokens'
<1>1. balance \in Int /\ stray \in Nat
  BY TotalsOverAccounts DEF Tokens
<1>2. ASSUME NEW a \in Account, NEW k \in MinerType, NEW r \in Rates, NEW n \in Amounts,
             updateNodeInfo_stake(a, k, r, n)
      PROVE  Tokens'
  <2> DEFINE info == [reg[a] EXCEPT !.type = k, !.mortgage = @ + n]
  <2>1. /\ a \in DOMAIN reg /\ TakeIn(a, n) /\ NewRate(a, info, r)
        /\ UNCHANGED <<refund, activation, stray>>
    BY <1>2 DEF updateNodeInfo_stake
  <2>2. n \in Nat /\ reg[a] \in NodeInfo /\ reg[a].mortgage \in Nat
    BY <2>1, RegNumberAssumption DEF Typed, NodeInfo
  <2>3. info \in NodeInfo /\ info.mortgage = reg[a].mortgage + n
    <3> DEFINE retyped == [reg[a] EXCEPT !.type = k]
    <3>1. retyped \in NodeInfo /\ retyped.mortgage = reg[a].mortgage
      BY <2>2 DEF NodeInfo
    <3>2. info = [retyped EXCEPT !.mortgage = reg[a].mortgage + n]
      BY <2>2 DEF NodeInfo
    <3> HIDE DEF retyped
    <3> QED BY <2>2, <3>1, <3>2 DEF NodeInfo
  <2> HIDE DEF info
  <2>4. PICK put : reg' = With(reg, a, put) /\ put.mortgage = info.mortgage
    BY <2>1, <2>3, NewRateMortgage
  <2>5. wallet' \in [Account -> Nat]
    BY <2>1, <2>2, WalletKept
  <2>6. Mortgages(reg)[a] = reg[a].mortgage /\ balance' = balance + n
    BY <2>1 DEF Mortgages, TakeIn
  <2>7. balance' = balance + (put.mortgage - Mortgages(reg)[a]) + (stray' - stray)
    BY <1>1, <2>1, <2>2, <2>3, <2>4, <2>6
  <2>8. put.mortgage \in Nat /\ stray' \in Nat
    BY <1>1, <2>1, <2>2, <2>3, <2>4
  <2> QED BY <2>1, <2>4, <2>5, <2>7, <2>8, PutKeepsTokens
<1>3. ASSUME NEW a \in Account, NEW k \in MinerType, NEW r \in Rates, NEW n \in Amounts,
             NEW sent \in Amounts, updateNodeInfo_unstake(a, k, r, n, sent)
      PROVE  Tokens'
  <2> DEFINE info == [reg[a] EXCEPT !.type = k, !.mortgage = @ - n]
  <2>1. /\ a \in DOMAIN reg /\ n <= reg[a].mortgage /\ NewRate(a, info, r)
        /\ wallet[a] >= sent /\ wallet' = [wallet EXCEPT ![a] = @ - sent + n]
        /\ balance' = balance + sent - n /\ stray' = stray + sent
        /\ UNCHANGED <<refund, activation>>
    BY <1>3 DEF updateNodeInfo_unstake
  <2>2. n \in Nat /\ sent \in Nat /\ reg[a] \in NodeInfo /\ reg[a].mortgage \in Nat
    BY <2>1, RegNumberAssumption DEF Typed, NodeInfo
  <2>3. info \in NodeInfo /\ info.mortgage = reg[a].mortgage - n
    <3> DEFINE retyped == [reg[a] EXCEPT !.type = k]
    <3>1. retyped \in NodeInfo /\ retyped.mortgage = reg[a].mortgage
      BY <2>2 DEF NodeInfo
    <3>2. info = [retyped EXCEPT !.mortgage = reg[a].mortgage - n]
      BY <2>2 DEF NodeInfo
    <3>3. reg[a].mortgage - n \in Nat
      BY <2>1, <2>2
    <3> HIDE DEF retyped
    <3> QED BY <3>1, <3>2, <3>3 DEF NodeInfo
  <2> HIDE DEF info
  <2>4. PICK put : reg' = With(reg, a, put) /\ put.mortgage = info.mortgage
    BY <2>1, <2>3, NewRateMortgage
  <2>5. wallet' \in [Account -> Nat]
    BY <2>1, <2>2, WalletKept
  <2>6. Mortgages(reg)[a] = reg[a].mortgage
    BY <2>1 DEF Mortgages
  <2>7. balance' = balance + (put.mortgage - Mortgages(reg)[a]) + (stray' - stray)
    BY <1>1, <2>1, <2>2, <2>3, <2>4, <2>6
  <2>8. put.mortgage \in Nat /\ stray' \in Nat
    BY <1>1, <2>1, <2>2, <2>3, <2>4
  <2> QED BY <2>1, <2>4, <2>5, <2>7, <2>8, PutKeepsTokens
<1> QED BY <1>2, <1>3 DEF Update

\* The deposit of a record with other deposit, type or rate.
LEMMA Rewritten ==
  ASSUME NEW old \in NodeInfo, NEW m, NEW k, NEW r
  PROVE  /\ [old EXCEPT !.mortgage = m].mortgage = m
         /\ [old EXCEPT !.type = k, !.mortgage = m].mortgage = m
         /\ Rerated(old, r).mortgage = old.mortgage
<1> DEFINE retyped == [old EXCEPT !.type = k]
           rated == [old EXCEPT !.rate = r]
<1>1. [old EXCEPT !.mortgage = m].mortgage = m
  BY DEF NodeInfo
<1>2. [old EXCEPT !.type = k, !.mortgage = m].mortgage = m
  <2>1. [old EXCEPT !.type = k, !.mortgage = m] = [retyped EXCEPT !.mortgage = m]
    OBVIOUS
  <2>2. "mortgage" \in DOMAIN retyped
    BY DEF NodeInfo
  <2> HIDE DEF retyped
  <2> QED BY <2>1, <2>2
<1>3. Rerated(old, r).mortgage = old.mortgage
  <2>1. Rerated(old, r) = [rated EXCEPT !.last_update = time]
    BY DEF Rerated
  <2>2. "mortgage" \in DOMAIN rated /\ rated.mortgage = old.mortgage
    BY DEF NodeInfo
  <2> HIDE DEF rated
  <2> QED BY <2>1, <2>2
<1> QED BY <1>1, <1>2, <1>3

LEMMA RerateKeepsTokens ==
  ASSUME Typed, Typed', Tokens, Rerate
  PROVE  Tokens'
<1>1. PICK a \in Account, r \in Rates : setDividendRatio(a, r)
  BY DEF Rerate
<1> DEFINE put == Rerated(reg[a], r)
<1>2. /\ a \in DOMAIN reg /\ reg' = With(reg, a, put)
      /\ UNCHANGED <<refund, activation, balance, wallet, stray>>
  BY <1>1 DEF setDividendRatio, tokens
<1>3. put.mortgage = Mortgages(reg)[a] /\ put.mortgage \in Nat
  BY <1>2, Rewritten DEF Typed, Mortgages, NodeInfo
<1>4. balance \in Int /\ stray \in Nat
  BY TotalsOverAccounts DEF Tokens
<1> HIDE DEF put
<1>5. balance' = balance + (put.mortgage - Mortgages(reg)[a]) + (stray' - stray)
  BY <1>2, <1>3, <1>4
<1>6. stray' \in Nat /\ wallet' \in [Account -> Nat]
  BY <1>2 DEF Tokens
<1> QED BY <1>2, <1>3, <1>5, <1>6, PutKeepsTokens

LEMMA RetypeKeepsTokens ==
  ASSUME Typed, Typed', Tokens, Retype
  PROVE  Tokens'
<1>1. PICK a \in Account, k \in MinerType, n \in Amounts : updateNodeType(a, k, n)
  BY DEF Retype
<1> DEFINE m == reg[a].mortgage + n
           put == [reg[a] EXCEPT !.type = k, !.mortgage = m]
<1>2. /\ a \in DOMAIN reg /\ TakeIn(a, n) /\ reg' = With(reg, a, put)
      /\ activation' \in {activation, time} /\ UNCHANGED <<refund, stray>>
  BY <1>1 DEF updateNodeType, check_and_set_genesis_stage
<1>3. n \in Nat /\ reg[a] \in NodeInfo /\ reg[a].mortgage \in Nat
  BY <1>2, RegNumberAssumption DEF Typed, NodeInfo
<1>4. put.mortgage = m
  <2> HIDE DEF m
  <2> QED BY <1>3, Rewritten
<1>5. wallet' \in [Account -> Nat]
  BY <1>2, <1>3, WalletKept
<1>6. balance \in Int /\ stray \in Nat
  BY TotalsOverAccounts DEF Tokens
<1>7. Mortgages(reg)[a] = reg[a].mortgage /\ balance' = balance + n
  BY <1>2 DEF Mortgages, TakeIn
<1> HIDE DEF put
<1>8. /\ put.mortgage \in Nat /\ stray' \in Nat
      /\ balance' = balance + (put.mortgage - Mortgages(reg)[a]) + (stray' - stray)
  BY <1>2, <1>3, <1>4, <1>6, <1>7
<1> QED BY <1>2, <1>5, <1>8, PutKeepsTokens

LEMMA RestakeKeepsTokens ==
  ASSUME Typed, Typed', Tokens, Restake
  PROVE  Tokens'
<1>1. PICK a \in Account, n \in Amounts : stakeDeposit(a, n) \/ unstakeDeposit(a, n)
  BY DEF Restake
<1>2. a \in DOMAIN reg
  BY <1>1 DEF stakeDeposit, unstakeDeposit
<1>3. /\ n \in Nat /\ reg[a] \in NodeInfo /\ reg[a].mortgage \in Nat
      /\ Mortgages(reg)[a] = reg[a].mortgage
  BY <1>2, RegNumberAssumption DEF Typed, NodeInfo, Mortgages
<1>4. balance \in Int /\ stray \in Nat
  BY TotalsOverAccounts DEF Tokens
<1>5. CASE stakeDeposit(a, n)
  <2> DEFINE m == reg[a].mortgage + n
             put == [reg[a] EXCEPT !.mortgage = m]
  <2>1. /\ TakeIn(a, n) /\ reg' = With(reg, a, put)
        /\ UNCHANGED <<refund, activation, stray>>
    BY <1>5 DEF stakeDeposit
  <2>2. put.mortgage = m
    <3> HIDE DEF m
    <3> QED BY <1>3, Rewritten
  <2>3. wallet' \in [Account -> Nat]
    BY <1>3, <2>1, WalletKept
  <2>4. balance' = balance + n
    BY <2>1 DEF TakeIn
  <2> HIDE DEF put
  <2>5. /\ put.mortgage \in Nat /\ stray' \in Nat
        /\ balance' = balance + (put.mortgage - Mortgages(reg)[a]) + (stray' - stray)
    BY <1>3, <1>4, <2>1, <2>2, <2>4
  <2> QED BY <2>1, <2>3, <2>5, PutKeepsTokens
<1>6. CASE unstakeDeposit(a, n)
  <2> DEFINE m == reg[a].mortgage - n
             put == [reg[a] EXCEPT !.mortgage = m]
  <2>1. /\ TRANSFER(a, n) /\ reg' = With(reg, a, put) /\ n <= reg[a].mortgage
        /\ UNCHANGED <<refund, activation, stray>>
    BY <1>6 DEF unstakeDeposit
  <2>2. put.mortgage = m
    <3> HIDE DEF m
    <3> QED BY <1>3, Rewritten
  <2>3. wallet' \in [Account -> Nat]
    BY <1>3, <2>1, WalletKept
  <2>4. balance' = balance - n
    BY <2>1 DEF TRANSFER
  <2> HIDE DEF put
  <2>5. /\ put.mortgage \in Nat /\ stray' \in Nat
        /\ balance' = balance + (put.mortgage - Mortgages(reg)[a]) + (stray' - stray)
    BY <1>3, <1>4, <2>1, <2>2, <2>4
  <2> QED BY <2>1, <2>3, <2>5, PutKeepsTokens
<1> QED BY <1>1, <1>5, <1>6

\* Leaving turns the deposit into a refund, on top of one not yet redeemed;
\* redeeming pays the refund and drops it.
LEMMA LeaveKeepsTokens ==
  ASSUME Typed, Typed', Tokens, NEW a \in Account, unregisterNode(a)
  PROVE  Tokens'
<1> DEFINE n == RefundOf(a).amount + reg[a].mortgage
           put == [amount |-> n, create_time |-> time]
<1>1. /\ a \in DOMAIN reg /\ reg' = Without(reg, a) /\ refund' = With(refund, a, put)
      /\ UNCHANGED <<activation, balance, wallet, stray>>
  BY DEF unregisterNode, ins_refund, tokens
<1>2. RefundOf(a).amount = Refunds(refund)[a] /\ Refunds(refund)[a] \in Nat
  BY DEF RefundOf, Refunds, Typed, RefundInfo
<1>3. reg[a].mortgage = Mortgages(reg)[a] /\ reg[a].mortgage \in Nat
  BY <1>1 DEF Mortgages, Typed, NodeInfo
<1>4. /\ Mortgages(reg') = [Mortgages(reg) EXCEPT ![a] = 0]
      /\ Refunds(refund') = [Refunds(refund) EXCEPT ![a] = put.amount]
  <2> HIDE DEF put
  <2> QED BY <1>1, DropMortgage, PutRefund
<1>5. put.amount = n
  OBVIOUS
<1>6. balance \in Int /\ stray \in Nat
  BY TotalsOverAccounts DEF Tokens
<1>7. n \in Nat /\ n = Refunds(refund)[a] + Mortgages(reg)[a]
  BY <1>2, <1>3
<1> HIDE DEF put, n
<1>8. balance' = balance + (0 - Mortgages(reg)[a]) + (n - Refunds(refund)[a]) + (stray' - stray)
  BY <1>1, <1>2, <1>3, <1>6, <1>7
<1>9. stray' \in Nat /\ wallet' \in [Account -> Nat] /\ activation' \in {activation, time}
  BY <1>1 DEF Tokens
<1> QED BY <1>4, <1>5, <1>7, <1>8, <1>9, BooksMove

LEMMA RedeemKeepsTokens ==
  ASSUME Typed, Typed', Tokens, NEW a \in Account, redeemNodeDeposit(a)
  PROVE  Tokens'
<1> DEFINE m == Mortgages(reg)[a]
<1>1. /\ a \in DOMAIN refund /\ TRANSFER(a, refund[a].amount) /\ refund' = Without(refund, a)
      /\ UNCHANGED <<reg, activation, stray>>
  BY DEF redeemNodeDeposit
<1>2. refund[a].amount = Refunds(refund)[a] /\ refund[a].amount \in Nat
  BY <1>1 DEF Refunds, Typed, RefundInfo
<1>3. m \in Nat
  BY DEF Mortgages, Typed, NodeInfo
<1>4. /\ Mortgages(reg') = [Mortgages(reg) EXCEPT ![a] = m]
      /\ Refunds(refund') = [Refunds(refund) EXCEPT ![a] = 0]
  BY <1>1, DropRefund, Same
<1>5. balance \in Int /\ stray \in Nat
  BY TotalsOverAccounts DEF Tokens
<1>6. balance' = balance - refund[a].amount
  BY <1>1 DEF TRANSFER
<1>7. balance' = balance + (m - m) + (0 - Refunds(refund)[a]) + (stray' - stray)
  BY <1>1, <1>2, <1>3, <1>5, <1>6
<1>8. stray' \in Nat /\ wallet' \in [Account -> Nat] /\ activation' \in {activation, time}
  BY <1>1, <1>2, WalletKept DEF Tokens
<1> QED BY <1>3, <1>4, <1>7, <1>8, BooksMove

LEMMA OthersKeepTokens ==
  ASSUME Tokens, UNCHANGED <<reg, refund, activation, balance, wallet, stray>>
  PROVE  Tokens'
BY DEF Tokens, Held, Due

LEMMA NextKeepsTokens == IInv /\ Tokens /\ [Next]_vars => Tokens'
<1> SUFFICES ASSUME IInv, Tokens, [Next]_vars PROVE Tokens'
  OBVIOUS
<1>1. Typed /\ Typed'
  BY NextKeepsIInv DEF IInv
<1>2. CASE Enter
  BY <1>1, <1>2, RegisterKeepsTokens DEF Enter
<1>3. CASE Leave
  BY <1>1, <1>3, LeaveKeepsTokens, RedeemKeepsTokens DEF Leave
<1>4. CASE Update
  BY <1>1, <1>4, UpdateKeepsTokens
<1>5. CASE Rerate
  BY <1>1, <1>5, RerateKeepsTokens
<1>6. CASE Retype
  BY <1>1, <1>6, RetypeKeepsTokens
<1>7. CASE Restake
  BY <1>1, <1>7, RestakeKeepsTokens
<1>8. CASE Punish
  BY <1>8, OthersKeepTokens DEF Punish, slash_unqualified_node, tokens
<1>9. CASE Tick
  BY <1>9, OthersKeepTokens DEF Tick, tokens, contract
<1>10. CASE UNCHANGED vars
  BY <1>10, OthersKeepTokens DEF vars, tokens, contract
<1> QED
  BY <1>2, <1>3, <1>4, <1>5, <1>6, <1>7, <1>8, <1>9, <1>10 DEF Next

LEMMA InitTokens == Init => Tokens
<1> SUFFICES ASSUME Init PROVE Tokens
  OBVIOUS
<1>1. IsFiniteSet(Account) /\ GenesisNodes \subseteq Account /\ Wealth \in Nat
  BY RegAccountAssumption, RegNumberAssumption
<1>2. \A a \in Account : Mortgages(reg)[a] = 0 /\ Refunds(refund)[a] = 0
  BY DEF Init, Mortgages, Refunds
<1>3. Held = 0
  <2>1. \A a \in Account : Mortgages(reg)[a] \in Nat
    BY <1>2
  <2> QED BY <1>1, <1>2, <2>1, SumOfNats DEF Held
<1>4. Due = 0
  <2>1. \A a \in Account : Refunds(refund)[a] \in Nat
    BY <1>2
  <2> QED BY <1>1, <1>2, <2>1, SumOfNats DEF Due
<1> QED BY <1>1, <1>3, <1>4 DEF Init, Tokens

(***************************************************************************)
(* Every deposit and every refund on record is backed by the contract's    *)
(* tokens, exactly, whatever the accounts stake, take back, redeem, change *)
(* or send along without effect, and however often they leave and return.  *)
(***************************************************************************)
THEOREM DepositsAlwaysBacked == Spec => []DepositsBacked
<1>1. IInv /\ Tokens => DepositsBacked
  BY TotalsOverAccounts DEF IInv, Tokens, DepositsBacked
<1>2. Init => IInv /\ Tokens
  BY InitIInv, InitTokens
<1>3. IInv /\ Tokens /\ [Next]_vars => (IInv /\ Tokens)'
  BY NextKeepsIInv, NextKeepsTokens
<1> QED
  BY <1>1, <1>2, <1>3, PTL DEF Spec

(***************************************************************************)
(* The contract's records and clocks have their types, and neither its     *)
(* account nor that of a caller is ever overdrawn: what it pays out it     *)
(* holds.                                                                  *)
(***************************************************************************)
THEOREM TypeCorrect == Spec => []TypeOK
<1>1. IInv /\ Tokens => TypeOK
  <2> SUFFICES ASSUME IInv, Tokens PROVE TypeOK
    OBVIOUS
  <2>1. balance \in Nat
    BY TotalsOverAccounts DEF IInv, Tokens
  <2> QED BY <2>1 DEF IInv, Typed, Tokens, TypeOK
<1>2. Init => IInv /\ Tokens
  BY InitIInv, InitTokens
<1>3. IInv /\ Tokens /\ [Next]_vars => (IInv /\ Tokens)'
  BY NextKeepsIInv, NextKeepsTokens
<1> QED
  BY <1>1, <1>2, <1>3, PTL DEF Spec

=============================================================================
