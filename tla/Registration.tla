---------------------------- MODULE Registration ----------------------------
(***************************************************************************)
(* The node registration contract of the beacon chain,                     *)
(* xsystem_contracts/src/xrec_registration_contract.cpp: an account        *)
(* registers as a node of some miner type with a deposit (m_account_       *)
(* mortgage), changes type, deposit or dividend rate, leaves, and redeems  *)
(* the deposit some time later.  The slash contract of the ZEC chain locks *)
(* the deposit of punished nodes for a while.                              *)
(*                                                                         *)
(* A handler that fails an XCONTRACT_ENSURE is rolled back as a whole and  *)
(* the tokens sent along are not taken: it is no step of this module.      *)
(* Nicknames, keys and network ids are left out (setNodeName and           *)
(* updateNodeSignKey replace one of them and nothing else), and so are the *)
(* credit scores and the vote amount, which module VoteReport models.      *)
(***************************************************************************)
EXTENDS Integers, FiniteSets, Functions

CONSTANTS
  Account,        \* accounts that call the contract
  MinerType,
  MinDeposit,     \* get_required_min_deposit of a miner type
  NeededTypes,    \* miner types the network needs to be active
  GenesisNodes,   \* seed nodes, registered by setup() without a deposit
  GenesisType,    \* their miner type
  Rates,          \* dividend rates asked for
  Amounts,        \* tokens sent along, or asked back
  Wealth,         \* tokens an account starts with
  RedeemInterval, \* REDEEM_INTERVAL
  RateInterval,   \* dividend_ratio_change_interval
  LockIncrement,  \* slash_nodedeposit_lock_duration_increment
  LockMax,        \* slash_max_nodedeposit_lock_duration
  MaxPunish,      \* bound: no punishment once punish_staking has come to this
  MaxTime         \* bound: the logic clock

ASSUME RegAccountAssumption ==
  /\ IsFiniteSet(Account)
  /\ GenesisNodes \subseteq Account
  /\ NeededTypes \subseteq MinerType
  /\ GenesisType \in MinerType
  /\ MinDeposit \in [MinerType -> Nat]
ASSUME RegNumberAssumption ==
  /\ Rates \subseteq 0 .. 100
  /\ Amounts \subseteq Nat
  /\ {Wealth, RedeemInterval, RateInterval, LockIncrement, LockMax,
      MaxPunish, MaxTime} \subseteq Nat

VARIABLES
  reg,         \* REG_KEY: map of registered account to its node info
  refund,      \* REFUND_KEY: map of account to its refund info
  slash,       \* SLASH_INFO_KEY: map of account to its slash info
  activation,  \* activation_time, 0 while not activated
  balance,     \* tokens the contract's account holds
  wallet,      \* [account -> tokens it holds]
  stray,       \* history: tokens taken that no record accounts for
  left,        \* history: [account -> when it last left, 0 before]
  until,       \* history: [account -> end of the lock it is due]
  rate_set,    \* history: [account -> last change of the rate while registered]
  time         \* TIME()

contract == <<reg, refund, slash, activation>>
tokens == <<balance, wallet, stray>>
history == <<left, until, rate_set>>
vars == <<contract, tokens, history, time>>

NodeInfo == [mortgage : Nat, type : MinerType, rate : Nat, last_update : Nat,
             genesis : BOOLEAN]
RefundInfo == [amount : Nat, create_time : Nat]
SlashInfo == [punish_time : Nat, lock : Nat, punish_staking : Nat]

With(f, key, val) == [k \in DOMAIN f \cup {key} |-> IF k = key THEN val ELSE f[k]]
Without(f, key) == [k \in DOMAIN f \ {key} |-> f[k]]

\* A record that is absent is read as a default-constructed one.
RefundOf(a) == IF a \in DOMAIN refund THEN refund[a]
                                      ELSE [amount |-> 0, create_time |-> 0]
SlashOf(a) == IF a \in DOMAIN slash THEN slash[a]
              ELSE [punish_time |-> 0, lock |-> 0, punish_staking |-> 0]

\* The sender's tokens come in with the call; TRANSFER sends tokens out.
TakeIn(a, n) == /\ wallet[a] >= n
                /\ wallet' = [wallet EXCEPT ![a] = @ - n]
                /\ balance' = balance + n
TRANSFER(a, n) == /\ wallet' = [wallet EXCEPT ![a] = @ + n]
                  /\ balance' = balance - n

\* check_registered_nodes_active, from how the contract uses it: enough nodes
\* of every needed type are registered.
NodesActive(r) == \A k \in NeededTypes : \E a \in DOMAIN r : r[a].type = k

check_and_set_genesis_stage(r) ==
  activation' = IF activation = 0 /\ NodesActive(r) THEN time ELSE activation

-----------------------------------------------------------------------------
\* slip: the minimum of the type the node had
EnoughForOld(info, old) == info.mortgage >= MinDeposit[old.type]

Enough(info, old) == info.mortgage >= MinDeposit[info.type]

registerNode2(a, type, rate, amount) ==
  LET info == [mortgage |-> amount, type |-> type, rate |-> rate,
               last_update |-> 0, genesis |-> FALSE]
  IN  /\ a \notin DOMAIN reg
      /\ Enough(info, info)
      /\ TakeIn(a, amount)
      /\ reg' = With(reg, a, info)
      /\ check_and_set_genesis_stage(reg')
      /\ UNCHANGED <<refund, slash, stray, history, time>>

\* slip: a second refund joins the first without restarting the interval
ins_refund_early(a, amount) ==
  refund' = With(refund, a,
                 [amount |-> RefundOf(a).amount + amount,
                  create_time |-> IF a \in DOMAIN refund THEN refund[a].create_time
                                                         ELSE time])

ins_refund(a, amount) ==
  refund' = With(refund, a, [amount |-> RefundOf(a).amount + amount,
                             create_time |-> time])

Locked(a) == /\ a \in DOMAIN slash
             /\ slash[a].lock > 0
             /\ time - slash[a].punish_time < slash[a].lock

unregisterNode(a) ==
  /\ a \in DOMAIN reg
  /\ ~Locked(a)
  /\ ins_refund(a, reg[a].mortgage)
  /\ reg' = Without(reg, a)
  /\ left' = [left EXCEPT ![a] = time]
  /\ rate_set' = [rate_set EXCEPT ![a] = 0]
  /\ UNCHANGED <<slash, activation, tokens, until, time>>

\* slip: the refund is paid and stays on record
redeemNodeDepositTwice(a) ==
  /\ a \in DOMAIN refund
  /\ time - refund[a].create_time >= RedeemInterval
  /\ TRANSFER(a, refund[a].amount)
  /\ UNCHANGED <<contract, stray, history, time>>

redeemNodeDeposit(a) ==
  /\ a \in DOMAIN refund
  /\ time - refund[a].create_time >= RedeemInterval
  /\ TRANSFER(a, refund[a].amount)
  /\ refund' = Without(refund, a)
  /\ UNCHANGED <<reg, slash, activation, stray, history, time>>

-----------------------------------------------------------------------------
\* A change of the dividend rate is allowed once per interval.
RateDue(a) == reg[a].last_update = 0 \/ time - reg[a].last_update >= RateInterval

\* The node info with another rate, and the time of the change recorded.
Rerated(info, rate) == [info EXCEPT !.rate = rate, !.last_update = time]

\* slip: the time of the change is not recorded
NewRateUntimed(a, info, rate) ==
  /\ rate # info.rate => RateDue(a)
  /\ reg' = With(reg, a, IF rate # info.rate THEN [info EXCEPT !.rate = rate] ELSE info)
  /\ rate_set' = [rate_set EXCEPT ![a] = IF rate # info.rate THEN time ELSE @]

\* The end of updateNodeInfo: the rate counts as changed when it differs.
NewRate(a, info, rate) ==
  /\ rate # info.rate => RateDue(a)
  /\ reg' = With(reg, a, IF rate # info.rate THEN Rerated(info, rate) ELSE info)
  /\ rate_set' = [rate_set EXCEPT ![a] = IF rate # info.rate THEN time ELSE @]

\* updateDepositType 1: the tokens sent along are staked.
updateNodeInfo_stake(a, type, rate, amount) ==
  LET info == [reg[a] EXCEPT !.type = type, !.mortgage = @ + amount]
  IN  /\ a \in DOMAIN reg
      /\ Enough(info, reg[a])
      /\ TakeIn(a, amount)
      /\ NewRate(a, info, rate)
      /\ UNCHANGED <<refund, slash, activation, stray, left, until, time>>

\* updateDepositType 2: deposit is paid back; tokens sent along are not looked
\* at.  The call brings its tokens first and is paid back afterwards.
updateNodeInfo_unstake(a, type, rate, deposit, sent) ==
  LET info == [reg[a] EXCEPT !.type = type, !.mortgage = @ - deposit]
  IN  /\ a \in DOMAIN reg
      /\ deposit <= reg[a].mortgage
      /\ Enough(info, reg[a])
      /\ wallet[a] >= sent
      /\ wallet' = [wallet EXCEPT ![a] = @ - sent + deposit]
      /\ balance' = balance + sent - deposit
      /\ stray' = stray + sent
      /\ NewRate(a, info, rate)
      /\ UNCHANGED <<refund, slash, activation, left, until, time>>

\* The same rate again restarts the interval here.
setDividendRatio(a, rate) ==
  /\ a \in DOMAIN reg
  /\ RateDue(a)
  /\ reg' = With(reg, a, Rerated(reg[a], rate))
  /\ rate_set' = [rate_set EXCEPT ![a] = time]
  /\ UNCHANGED <<refund, slash, activation, tokens, left, until, time>>

updateNodeType(a, type, amount) ==
  LET info == [reg[a] EXCEPT !.type = type, !.mortgage = @ + amount]
  IN  /\ a \in DOMAIN reg
      /\ type # reg[a].type
      /\ Enough(info, reg[a])
      /\ TakeIn(a, amount)
      /\ reg' = With(reg, a, info)
      /\ check_and_set_genesis_stage(reg')
      /\ UNCHANGED <<refund, slash, stray, history, time>>

stakeDeposit(a, amount) ==
  /\ a \in DOMAIN reg
  /\ amount # 0
  /\ TakeIn(a, amount)
  /\ reg' = With(reg, a, [reg[a] EXCEPT !.mortgage = @ + amount])
  /\ UNCHANGED <<refund, slash, activation, stray, history, time>>

unstakeDeposit(a, amount) ==
  LET info == [reg[a] EXCEPT !.mortgage = @ - amount]
  IN  /\ a \in DOMAIN reg
      /\ amount # 0
      /\ amount <= reg[a].mortgage
      /\ Enough(info, reg[a])
      /\ TRANSFER(a, amount)
      /\ reg' = With(reg, a, info)
      /\ UNCHANGED <<refund, slash, activation, stray, history, time>>

-----------------------------------------------------------------------------
(***************************************************************************)
(* slash_unqualified_node, called by the slash contract with the nodes to  *)
(* punish as auditors and those to punish as validators; those that are    *)
(* not registered by now are skipped.  The loop of the handler punishes a  *)
(* node that is named in both roles twice in the same call.  Its awards    *)
(* only touch credit scores.                                               *)
(***************************************************************************)
Min2(m, n) == IF m < n THEN m ELSE n
Max2(m, n) == IF m > n THEN m ELSE n

\* slip: a new punishment starts the lock afresh
LockRemainingForgotten(s) == 0

\* What is left of an earlier lock.
LockRemaining(s) ==
  IF s.punish_time = 0 THEN s.lock
  ELSE IF time - s.punish_time > s.lock THEN 0
  ELSE s.lock - (time - s.punish_time)

slash_staking_time(s) ==
  LET lock == LockRemaining(s) + LockIncrement
  IN  [punish_time |-> time, lock |-> Min2(lock, LockMax),
       punish_staking |-> s.punish_staking + IF lock > LockMax THEN 1 ELSE 0]

\* The end of the lock a node is due after one more punishment.
Extended(end) == Min2(Max2(end, time) + LockIncrement, time + LockMax)

slash_unqualified_node(A, V) ==
  LET punished == (A \cup V) \cap DOMAIN reg
      both == A \cap V
  IN  /\ \A a \in punished : SlashOf(a).punish_staking < MaxPunish
      /\ slash' = [a \in DOMAIN slash \cup punished |->
                     IF a \notin punished THEN slash[a]
                     ELSE IF a \in both THEN slash_staking_time(slash_staking_time(SlashOf(a)))
                                        ELSE slash_staking_time(SlashOf(a))]
      /\ until' = [a \in Account |->
                     IF a \notin punished THEN until[a]
                     ELSE IF a \in both THEN Extended(Extended(until[a]))
                                        ELSE Extended(until[a])]
      /\ UNCHANGED <<reg, refund, activation, tokens, left, rate_set, time>>

Tick == /\ time < MaxTime
        /\ time' = time + 1
        /\ UNCHANGED <<contract, tokens, history>>

Init ==
  /\ reg = [a \in GenesisNodes |->
              [mortgage |-> 0, type |-> GenesisType, rate |-> 0, last_update |-> 0,
               genesis |-> TRUE]]
  /\ refund = [a \in {} |-> 0]
  /\ slash = [a \in {} |-> 0]
  /\ activation = 0
  /\ balance = 0
  /\ wallet = [a \in Account |-> Wealth]
  /\ stray = 0
  /\ left = [a \in Account |-> 0]
  /\ until = [a \in Account |-> 0]
  /\ rate_set = [a \in Account |-> 0]
  /\ time = 1

Enter == \E a \in Account, k \in MinerType, r \in Rates, n \in Amounts :
           registerNode2(a, k, r, n)
Leave == \E a \in Account : unregisterNode(a) \/ redeemNodeDeposit(a)
Update == \E a \in Account, k \in MinerType, r \in Rates, n \in Amounts :
            \/ updateNodeInfo_stake(a, k, r, n)
            \/ \E sent \in Amounts : updateNodeInfo_unstake(a, k, r, n, sent)
Rerate == \E a \in Account, r \in Rates : setDividendRatio(a, r)
Retype == \E a \in Account, k \in MinerType, n \in Amounts : updateNodeType(a, k, n)
Restake == \E a \in Account, n \in Amounts : stakeDeposit(a, n) \/ unstakeDeposit(a, n)
Punish == \E A, V \in SUBSET Account : A \cup V # {} /\ slash_unqualified_node(A, V)

Next == Enter \/ Leave \/ Update \/ Rerate \/ Retype \/ Restake \/ Punish \/ Tick

Spec == Init /\ [][Next]_vars

-----------------------------------------------------------------------------
(***************************************************************************)
(* Properties.                                                             *)
(***************************************************************************)
TypeOK ==
  /\ reg \in [DOMAIN reg -> NodeInfo] /\ DOMAIN reg \subseteq Account
  /\ refund \in [DOMAIN refund -> RefundInfo] /\ DOMAIN refund \subseteq Account
  /\ slash \in [DOMAIN slash -> SlashInfo] /\ DOMAIN slash \subseteq Account
  /\ activation \in Nat
  /\ balance \in Nat
  /\ wallet \in [Account -> Nat]
  /\ stray \in Nat
  /\ left \in [Account -> Nat]
  /\ until \in [Account -> Nat]
  /\ rate_set \in [Account -> Nat]
  /\ time \in Nat

(***************************************************************************)
(* Every deposit and every refund on record is backed: the contract holds  *)
(* exactly their sum (and the tokens updateNodeInfo took without a record),*)
(* so no sequence of staking, leaving, coming back and redeeming pays      *)
(* anybody twice or from another node's deposit.                           *)
(***************************************************************************)
DepositsBacked ==
  balance = SumFunction([a \in DOMAIN reg |-> reg[a].mortgage])
            + SumFunction([a \in DOMAIN refund |-> refund[a].amount]) + stray

(***************************************************************************)
(* A registered node that is no seed node has at least the deposit of its  *)
(* present type, whichever of the handlers changed the type or the deposit *)
(* last.                                                                   *)
(***************************************************************************)
DepositAboveMinimum ==
  \A a \in DOMAIN reg : ~reg[a].genesis => reg[a].mortgage >= MinDeposit[reg[a].type]

(***************************************************************************)
(* A punished node serves its lock: each punishment adds LockIncrement to  *)
(* what is left, up to LockMax from then on, and until that is over the    *)
(* node cannot leave, also when it left and came back in between, and also *)
(* when one call punished it in both roles.                                *)
(***************************************************************************)
LockServed ==
  [][ \A a \in DOMAIN reg \ DOMAIN reg' : time >= until[a] ]_vars

(***************************************************************************)
(* A deposit is paid out RedeemInterval after its owner last left, even if *)
(* an older refund of the same owner is already due.                       *)
(***************************************************************************)
RefundWaits ==
  [][ \A a \in DOMAIN refund \ DOMAIN refund' : time - left[a] >= RedeemInterval ]_vars

(***************************************************************************)
(* The dividend rate of a node that stays registered changes at most once  *)
(* per interval, whichever of the two handlers changes it.                 *)
(***************************************************************************)
RateHeld ==
  [][ \A a \in DOMAIN reg \cap DOMAIN reg' :
        reg[a].rate # reg'[a].rate /\ rate_set[a] # 0
          => time - rate_set[a] >= RateInterval ]_vars
=============================================================================
