---------------------------- MODULE StandbyPool ----------------------------
(***************************************************************************)
(* How nodes become members of the beacon chain's groups and cease to be.  *)
(* REC's standby pool (xrec_standby_pool_contract.cpp) follows the         *)
(* registrations; the election contracts of REC follow the pool:           *)
(* xrec_elect_edge_, _archive_ and _fullnode_contract.cpp, whose elections *)
(* are those of xelect_nonconsensus_group_contract.cpp, and                *)
(* xrec_elect_rec_ and _zec_contract.cpp, whose elections are those of     *)
(* module Rotation.  All of them act when the timer calls them, see        *)
(* RoleContext.                                                            *)
(*                                                                         *)
(* There is one network; nodes are numbered in the order of the maps that  *)
(* hold them.  Stakes, keys and versions are left out, and so is the fork  *)
(* that gave archive nodes a role of their own.                            *)
(***************************************************************************)
EXTENDS RoleContext, Rotation

CONSTANTS
  Candidate,  \* accounts of nodes, a set of numbers
  Seed,       \* the seed nodes
  SeedKind,   \* how setup() of the registration contract registers them
  Kinds,      \* [Candidate -> its possible registrations: the groups it can be
              \*   in, and whether its deposit reaches the required minimum]
  Groups,     \* [election contract -> the groups it elects]
  Committee,  \* the groups of these that are elected by rotation
  Sizes       \* [group -> its least and its largest size]

RecGroup == UNION {Groups[c] : c \in DOMAIN Groups}

ASSUME StandbyAssumption ==
  /\ Candidate \subseteq Nat /\ IsFiniteSet(Candidate)
  /\ Seed \subseteq Candidate /\ Seed # {}
  /\ DOMAIN Groups = Contract \ {"standby"}
  /\ DOMAIN Kinds = Candidate
  /\ \A n \in Candidate : \A k \in Kinds[n] : k.roles \subseteq RecGroup /\ k.enough \in BOOLEAN
  /\ \A n \in Seed : SeedKind \in Kinds[n]
  /\ Committee \subseteq RecGroup
  /\ DOMAIN Sizes = RecGroup
  /\ \A g \in RecGroup : Sizes[g].min \in Nat /\ Sizes[g].max \in Nat \ {0}
  /\ \A g \in Committee : IsRange(Sizes[g])

VARIABLES
  reg,        \* the registration contract's nodes: [registered -> kind]
  active,     \* its activation record: whether the network is active
  standbys,   \* the pool: [node -> the roles it is listed with]
  activated,  \* the activation as recorded in the pool
  rec_groups  \* [RecGroup -> the members]

poolVars == <<standbys, activated, rec_groups>>
allVars == <<contextVars, here, reg, active, poolVars>>

-----------------------------------------------------------------------------
(***************************************************************************)
(* The registration contract, in short (see module Registration).          *)
(***************************************************************************)
Register(n, kind) ==
  /\ n \notin DOMAIN reg
  /\ reg' = [m \in DOMAIN reg \cup {n} |-> IF m = n THEN kind ELSE reg[m]]
  /\ UNCHANGED active

Unregister(n) ==
  /\ n \in DOMAIN reg
  /\ reg' = [m \in DOMAIN reg \ {n} |-> reg[m]]
  /\ UNCHANGED active

Update(n, kind) ==
  /\ n \in DOMAIN reg
  /\ kind # reg[n]
  /\ reg' = [reg EXCEPT ![n] = kind]
  /\ UNCHANGED active

Activate ==
  /\ ~ active
  /\ active' = TRUE
  /\ UNCHANGED reg

Registrations ==
  /\ "standby" \in here
  /\ \/ \E n \in Candidate : \E kind \in Kinds[n] : Register(n, kind) \/ Update(n, kind)
     \/ \E n \in Candidate : Unregister(n)
     \/ Activate
  /\ UNCHANGED <<contextVars, here, poolVars>>

-----------------------------------------------------------------------------
(***************************************************************************)
(* The pool.                                                               *)
(***************************************************************************)
\* The deposit is looked at when a node joins, and never again.
nodeJoinNetwork2(n) ==
  /\ "standby" \in here
  /\ n \in DOMAIN reg
  /\ reg[n].enough
  /\ n \notin DOMAIN standbys
  /\ standbys' = [m \in DOMAIN standbys \cup {n} |->
                    IF m = n THEN reg[n].roles ELSE standbys[m]]
  /\ UNCHANGED <<contextVars, here, reg, active, activated, rec_groups>>

\* slip: nodes that have left keep their place
SynchronisedKeeping ==
  [n \in DOMAIN standbys |-> IF n \in DOMAIN reg THEN reg[n].roles ELSE standbys[n]]

\* update_standby_node for those registered; the others are erased.
Synchronised == [n \in DOMAIN standbys \cap DOMAIN reg |-> reg[n].roles]

\* slip: together with the next change of the pool
RecordsWithChange(updated) == active /\ updated

\* update_activated_state: the activation is recorded when nothing else is.
RecordsActivation(updated) == active /\ ~ updated

rec_standby_on_timer(age) ==
  /\ Execute("standby", age)
  /\ IF DOMAIN reg = {}
       THEN UNCHANGED <<standbys, activated>>
       ELSE /\ standbys' = Synchronised
            /\ activated' = (activated \/ RecordsActivation(standbys' # standbys))
  /\ UNCHANGED <<started, reg, active, rec_groups>>

-----------------------------------------------------------------------------
(***************************************************************************)
(* The elections of REC.                                                   *)
(***************************************************************************)
\* slip: the activation is not looked at
OfferedAll(g) == {n \in DOMAIN standbys : g \in standbys[n]}

\* network_result() of the pool: before the activation only genesis nodes are
\* offered.
Offered(g) == {n \in DOMAIN standbys : g \in standbys[n] /\ (activated \/ n \in Seed)}

\* slip: one more than the maximum (elect_node_size++ > max)
FirstWide(S, max) == {n \in S : Cardinality({m \in S : m < n}) <= max}

First(S, max) == {n \in S : Cardinality({m \in S : m < n}) < max}

\* The election of a nonconsensus group: all there are, up to the maximum.
elect_nonconsensus(g) ==
  IF Cardinality(Offered(g)) < Sizes[g].min
    THEN {rec_groups[g]}
    ELSE {First(Offered(g), Sizes[g].max)}

\* The election of a committee; a random seed may be missing, and an election
\* may fail: the committee stays.
elect_committee(g) ==
  {rec_groups[g]} \cup elect_group(FALSE, rec_groups[g], Offered(g), Sizes[g])

Elected(g) == IF g \in Committee THEN elect_committee(g) ELSE elect_nonconsensus(g)

\* on_timer of an election contract; a call that comes too late fails.  The
\* first call makes the contract's first block.
elect_on_timer(c, age) ==
  /\ Execute(c, age)
  /\ IF InTime(c, age)
       THEN /\ \E elected \in [Groups[c] -> SUBSET Candidate] :
                 /\ \A g \in Groups[c] : elected[g] \in Elected(g)
                 /\ rec_groups' = [g \in RecGroup |-> IF g \in Groups[c] THEN elected[g]
                                                       ELSE rec_groups[g]]
            /\ started' = started \cup ({c} \cap StandAlone)
       ELSE UNCHANGED <<rec_groups, started>>
  /\ UNCHANGED <<reg, active, standbys, activated>>

-----------------------------------------------------------------------------
\* The first REC is made of the seeds, as many as there is room for; the other
\* groups are empty.
Genesis(g) == IF g = "rec" THEN First(Seed, Sizes[g].max) ELSE {}

\* setup() lists the seeds with these roles: neither as exchange nor as full node.
SeedRoles == RecGroup \cap {"rec", "zec", "archive", "auditor", "validator", "edge"}

PoolInit ==
  /\ ContextInit
  /\ reg = [n \in Seed |-> SeedKind]
  /\ active = FALSE
  /\ standbys = [n \in Seed |-> SeedRoles]
  /\ activated = FALSE
  /\ rec_groups = [g \in RecGroup |-> Genesis(g)]

PoolNext ==
  \/ ContextNext /\ UNCHANGED <<reg, active, poolVars>>
  \/ Registrations
  \/ \E n \in Candidate : nodeJoinNetwork2(n)
  \/ \E age \in Ages("standby") : rec_standby_on_timer(age)
  \/ \E c \in DOMAIN Groups : \E age \in Ages(c) : elect_on_timer(c, age)

PoolSpec == PoolInit /\ [][PoolNext]_allVars

\* The chain executes a contract's calls in time again and again if they are
\* made again and again.
OnTime(c) ==
  \E age \in Ages(c) :
    IF c = "standby" THEN rec_standby_on_timer(age)
                     ELSE InTime(c, age) /\ elect_on_timer(c, age)

FairSpec ==
  /\ PoolSpec
  /\ WF_allVars(TimerBlock /\ UNCHANGED <<reg, active, poolVars>>)
  /\ WF_allVars(do_on_block /\ UNCHANGED <<reg, active, poolVars>>)
  /\ \A c \in Contract : SF_allVars(OnTime(c))

-----------------------------------------------------------------------------
(***************************************************************************)
(* Properties                                                              *)
(***************************************************************************)
\* The pool and the groups are made of nodes, and no group is larger than
\* governance allows, whatever the pool holds.
PoolTypeOK ==
  /\ ContextTypeOK
  /\ DOMAIN reg \subseteq Candidate /\ \A n \in DOMAIN reg : reg[n] \in Kinds[n]
  /\ active \in BOOLEAN /\ activated \in BOOLEAN
  /\ DOMAIN standbys \subseteq Candidate
  /\ \A n \in DOMAIN standbys : standbys[n] \subseteq RecGroup
  /\ DOMAIN rec_groups = RecGroup
  /\ \A g \in RecGroup : /\ rec_groups[g] \subseteq Candidate
                         /\ Cardinality(rec_groups[g]) <= Sizes[g].max

(***************************************************************************)
(* Before the activation the beacon chain is run by seeds alone.  Others   *)
(* may register, join the pool and be listed with every role; the pool's   *)
(* record of the activation, which lags behind, decides who is offered.    *)
(***************************************************************************)
SeedsUntilActive ==
  ~ active => ~ activated /\ \A g \in RecGroup : rec_groups[g] \subseteq Seed

(***************************************************************************)
(* The tables get their turns one after the other: from one call of a role *)
(* context to its next, none is left out or called twice, as long as the   *)
(* context has had every round's block and the schedule has not changed.   *)
(* The turn is computed from the round alone, the time for it from a count *)
(* that every context keeps for itself.                                    *)
(***************************************************************************)
TurnsInOrder ==
  [][steady /\ do_on_block /\ (\E v \in Live : TurnDue(contexts[v]))
       => called' = (called + 1) % TableNum]_allVars

\* From some time on some vnode is there, is there in every round, and the
\* schedule stays as it is.
Regular ==
  /\ <>[][round' # round => seen]_allVars
  /\ <>[][UNCHANGED schedule]_allVars
  /\ <>[](Live # {})

(***************************************************************************)
(* Every table gets its turn again and again, although the count starts    *)
(* anew with every vnode, and the schedule may have been changed when the  *)
(* count was beyond its new value: then the count has to run through all   *)
(* its values first (xrole_context.cpp, line 178).                         *)
(***************************************************************************)
TablesTakeTurns ==
  Regular => (Statistic \in here => \A t \in 0 .. TableNum - 1 : []<>(called = t))

(***************************************************************************)
(* A node that is not registered any more leaves the pool and then every   *)
(* group that takes all standbys, though calls are missed, refused or      *)
(* excluded by others, and though it may have joined while it was leaving. *)
(* The archive group does not let its last nodes go (against the README of *)
(* xelection, which says the election puts out who is not in the pool).    *)
(***************************************************************************)
LeaversLeave ==
  Regular =>
    \A n \in Candidate, g \in RecGroup \ Committee :
      <>[](/\ n \notin DOMAIN reg /\ DOMAIN reg # {}
           /\ Cardinality(Offered(g) \ {n}) >= Sizes[g].min)
        => <>[](n \notin DOMAIN standbys /\ n \notin rec_groups[g])

(***************************************************************************)
(* The activation of the network reaches the pool, although it is recorded *)
(* only by a call that finds nothing else to change: it does once the      *)
(* registrations rest.                                                     *)
(***************************************************************************)
ActivationArrives ==
  Regular /\ <>[][UNCHANGED reg]_allVars /\ <>[]("standby" \in here /\ DOMAIN reg # {})
    => (active ~> activated)
=============================================================================
