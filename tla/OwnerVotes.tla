----------------------------- MODULE OwnerVotes -----------------------------
(***************************************************************************)
(* Who administers the Factory, and through whom users migrate: the votes  *)
(* that src/scripts/voting creates about the owner contracts of the        *)
(* Factory and about the LTMigrators.                                      *)
(*                                                                         *)
(* Every script reads factory.admin() when it runs, deploys what it needs, *)
(* and puts the addresses it read into a proposal.  The proposal executes  *)
(* days later, in any order with the others: what was the owner may have   *)
(* been replaced.  The calls that a vote makes revert when the owner they  *)
(* go through is no longer the admin, except set_limit_setter and the      *)
(* flags, which change the captured owner, stale or not.                   *)
(*                                                                         *)
(* An owner is named by its place in the order of deployment, 0 being the  *)
(* DAO itself; a generation of markets (1: ids 0 .. 2, 2: ids 3 .. 6, 3:   *)
(* the v3 markets) stands for its market of one asset.                     *)
(***************************************************************************)
EXTENDS TokenVoting, FiniteSets

CONSTANT
    MaxProposals   \* bound: proposals, the redeploys that repair apart

ASSUME OwnerAssumption == MaxProposals \in Nat

VARIABLES
    admin,       \* Factory.admin
    owners,      \* the owner contracts, in order of deployment
    migrators,   \* the LTMigrators: each one's immutable FACTORY_OWNER
    gens,        \* generations of markets in the factory
    holding      \* the generation in which a user has its position

ownerVars == <<admin, owners, migrators, gens>>
vars == <<votingVars, ownerVars, holding>>

DAO == 0
Owners == 1 .. Len(owners)
Migrators == 1 .. Len(migrators)

\* setters: the migrators that are its limit setters; vaults: the
\* HybridVaultFactories that are, each named by the owner that it was deployed
\* with.  A MigrationFactoryOwner has no limit setters.
NewOwner(kind) ==
    [kind |-> kind, disabled |-> {}, setters |-> {}, vaults |-> {}]

NextOwner == Len(owners) + 1
NextMigrator == Len(migrators) + 1

IsHybrid(o) == o # DAO /\ owners[o].kind = "hybrid"

\* Mutant of Working: the LTs take the calls of an owner that was replaced.
Working_Stale ==
    {m \in Migrators : IsHybrid(migrators[m]) /\ m \in owners[migrators[m]].setters}

\* The migrators whose allocations succeed: they are limit setters of the
\* owner they call, their FACTORY_OWNER, and the LTs take the calls of that
\* owner (_check_admin).
Working ==
    {m \in Migrators :
        /\ IsHybrid(migrators[m])
        /\ m \in owners[migrators[m]].setters
        /\ migrators[m] = admin}

(***************************************************************************)
(* The scripts.  Each creates one proposal; "old" is the owner it read.    *)
(***************************************************************************)
Room == Len(proposals) < MaxProposals

\* create_vote_migration_stage3: a MigrationFactoryOwner and its migrator;
\* the DAO, still the admin, is to hand the Factory over.
Stage3 ==
    /\ Room
    /\ CreateProposal("yb-deployer-2", [kind |-> "stage3", old |-> DAO, new |-> NextOwner])
    /\ owners' = Append(owners, NewOwner("migration"))
    /\ migrators' = Append(migrators, NextOwner)
    /\ UNCHANGED <<admin, gens, holding>>

\* create_vote_hybrid_factory: written for a MigrationFactoryOwner, it takes
\* any owner that has an ADMIN, which the constructor of HybridVaultFactory
\* reads.  The new owner comes with a migrator and a HybridVaultFactory.
Hybrid ==
    /\ Room
    /\ admin # DAO
    /\ CreateProposal("yb-deployer",
           [kind |-> "hybrid", old |-> admin, new |-> NextOwner,
            keep |-> {NextMigrator}, vaults |-> {NextOwner}])
    /\ owners' = Append(owners, NewOwner("hybrid"))
    /\ migrators' = Append(migrators, NextOwner)
    /\ UNCHANGED <<admin, gens, holding>>

\* create_vote_fix_hybrid_owner: the limit setters enabled now are kept: the
\* HybridVaultFactory, and the migrator with the owner it was deployed for.
Fix ==
    /\ Room
    /\ IsHybrid(admin)
    /\ CreateProposal("yb-deployer",
           [kind |-> "fix", old |-> admin, new |-> NextOwner,
            keep |-> owners[admin].setters, vaults |-> owners[admin].vaults])
    /\ owners' = Append(owners, NewOwner("hybrid"))
    /\ UNCHANGED <<admin, migrators, gens, holding>>

\* A new migrator for the owner read, to be registered in place of a previous
\* one: "live" when another action of the vote goes through the owner too.
NewMigratorVote(creator, previous, live) ==
    /\ CreateProposal(creator,
           [kind |-> "swap", old |-> admin, new |-> NextMigrator,
            previous |-> previous, live |-> live])
    /\ migrators' = Append(migrators, admin)
    /\ UNCHANGED <<admin, owners, gens, holding>>

\* create_vote_swap_migrator
Swap ==
    /\ Room
    /\ IsHybrid(admin)
    /\ \E previous \in owners[admin].setters :
           NewMigratorVote("yb-deployer", previous, FALSE)

\* Vote 1 of deploy_yb_pools_v3, with the implementations.
RolloutCode ==
    /\ Room
    /\ IsHybrid(admin)
    /\ \E previous \in owners[admin].setters :
           NewMigratorVote("yb-deployer", previous, TRUE)

\* The market votes of deploy_yb_pools_v3.
RolloutMarkets ==
    /\ Room
    /\ IsHybrid(admin)
    /\ CreateProposal("yb-deployer-a", [kind |-> "markets", old |-> admin, gens |-> gens])
    /\ UNCHANGED <<ownerVars, holding>>

\* create_vote_redeploy_migrator_owner: run when every migrator registered on
\* the live owner is wired to another, and until such a vote is under way.
Redeploy ==
    /\ IsHybrid(admin)
    /\ Working = {}
    /\ \A i \in DOMAIN proposals :
           LET v == proposals[i].vote IN
           v.kind = "swap" => v.old # admin \/ Executed(i)
    /\ \E previous \in owners[admin].setters :
           NewMigratorVote("yb-deployer-2", previous, FALSE)

\* A non-zero allocation for a market of a generation, through the owner read.
Allocation(g) ==
    /\ Room
    /\ g \in 2 .. gens
    /\ CreateProposal("yb-deployer", [kind |-> "allocate", old |-> admin, gen |-> g])
    /\ UNCHANGED <<ownerVars, holding>>

\* For cbBTC of the second generation, its cap.
Cap200 == Allocation(2)

\* For all its BTC markets, two thirds of what each one has now: of a market
\* that is disabled too, which keeps what could not be returned.
ReduceAllocation == Allocation(2)

\* For v3's WBTC market (7) and its WETH market (10), if they exist: their
\* symbols are asserted.
WbtcCapUp == Allocation(3)
Pool10WethUp == IsHybrid(admin) /\ Allocation(3)

\* disable_weth_market: through the DAO, and back to the owner read.
DisableMarket ==
    /\ Room
    /\ IsHybrid(admin)
    /\ CreateProposal("yb-deployer", [kind |-> "disable", old |-> admin, gen |-> 2])
    /\ UNCHANGED <<ownerVars, holding>>

(***************************************************************************)
(* The votes, executed: all their calls succeed, or they revert.           *)
(***************************************************************************)
\* Mutant of ThroughLiveOwner: nothing checks that the owner that was read is still the admin.
ThroughLiveOwner_Unchecked(v) == v.old # DAO

\* transfer_ownership_back is a call of the owner read on the Factory, which
\* takes it from its admin only; lt_* calls end in LT._check_admin.
ThroughLiveOwner(v) == v.old # DAO /\ admin = v.old

\* The calls of stage 3 on the new owner: disable generation 1, and allocate
\* to generation 2.
HandOverFromDAO(v) ==
    /\ admin = DAO
    /\ admin' = v.new
    /\ owners' = [owners EXCEPT ![v.new].disabled = {1}]
    /\ UNCHANGED <<migrators, gens>>

\* A hand-over between the owner read and the one deployed for it.
InstallOwner(v, flags) ==
    /\ ThroughLiveOwner(v)
    /\ admin' = v.new
    /\ owners' = [owners EXCEPT ![v.new] =
                     [@ EXCEPT !.disabled = flags, !.setters = v.keep, !.vaults = v.vaults]]
    /\ UNCHANGED <<migrators, gens>>

\* The script disables the old LTs 0 .. 2 on the new owner.
HandOverToHybrid(v) == InstallOwner(v, {1})

\* It disables 3 .. 6, and nothing else.
HandOverToFixed(v) == InstallOwner(v, {2})

\* Mutant: the previous migrator is disabled and the new one is forgotten.
RegisterMigrator_OutOnly(v) ==
    /\ v.live => ThroughLiveOwner(v)
    /\ owners' = [owners EXCEPT ![v.old].setters = @ \ {v.previous}]
    /\ UNCHANGED <<admin, migrators, gens>>

\* set_limit_setter(new, True), then set_limit_setter(previous, False).
RegisterMigrator(v) ==
    /\ v.live => ThroughLiveOwner(v)
    /\ owners' = [owners EXCEPT ![v.old].setters = (@ \cup {v.new}) \ {v.previous}]
    /\ UNCHANGED <<admin, migrators, gens>>

\* add_market on the new pools, guarded by the market count, and
\* lt_allocate_stablecoins(old, 0).
AddGeneration(v) ==
    /\ ThroughLiveOwner(v)
    /\ gens = v.gens
    /\ gens' = gens + 1
    /\ owners' = [owners EXCEPT ![v.old].disabled = @ \cup {gens}]
    /\ UNCHANGED <<admin, migrators>>

\* lt_allocate_stablecoins(lt, limit) by the ADMIN sets the flag to limit = 0.
Allocate(v) ==
    /\ ThroughLiveOwner(v)
    /\ owners' = [owners EXCEPT ![v.old].disabled = @ \ {v.gen}]
    /\ UNCHANGED <<admin, migrators, gens>>

Disable(v) ==
    /\ ThroughLiveOwner(v)
    /\ owners' = [owners EXCEPT ![v.old].disabled = @ \cup {v.gen}]
    /\ UNCHANGED <<admin, migrators, gens>>

VoteEffect(v) ==
    \/ v.kind = "stage3" /\ HandOverFromDAO(v)
    \/ v.kind = "hybrid" /\ HandOverToHybrid(v)
    \/ v.kind = "fix" /\ HandOverToFixed(v)
    \/ v.kind = "swap" /\ RegisterMigrator(v)
    \/ v.kind = "markets" /\ AddGeneration(v)
    \/ v.kind = "allocate" /\ Allocate(v)
    \/ v.kind = "disable" /\ Disable(v)

Execute(i) ==
    /\ MarkExecuted(i)
    /\ VoteEffect(proposals[i].vote)
    /\ UNCHANGED holding

Pass(i) == PassVote(i) /\ UNCHANGED <<ownerVars, holding>>
DayPasses == CooldownEnds /\ UNCHANGED <<ownerVars, holding>>

(***************************************************************************)
(* The users.                                                              *)
(***************************************************************************)
\* LTMigrator.migrate_plain: it checks the flag of the owner it is wired to,
\* and allocates to the market it moves into.
Migrate ==
    /\ \E m \in Working, to \in (1 .. gens) \ {holding} :
           /\ to \notin owners[migrators[m]].disabled
           /\ holding' = to
    /\ UNCHANGED <<votingVars, ownerVars>>

Scripts ==
    \/ Stage3 \/ Hybrid \/ Fix
    \/ Swap \/ RolloutCode \/ RolloutMarkets \/ Redeploy
    \/ Cap200 \/ ReduceAllocation \/ WbtcCapUp \/ Pool10WethUp \/ DisableMarket

Voting ==
    \/ \E i \in DOMAIN proposals : Pass(i) \/ Execute(i)
    \/ DayPasses

Init ==
    /\ VotingInit
    /\ admin = DAO
    /\ owners = <<>>
    /\ migrators = <<>>
    /\ gens = 2
    /\ holding = 1

Next == Scripts \/ Voting \/ Migrate

SafetySpec == Init /\ [][Next]_vars

\* The votes that repair the migrations are created, pass and are executed.
IsMigratorVote(i) ==
    i \in DOMAIN proposals /\ proposals[i].vote.kind = "swap"

RepairStep ==
    \E i \in DOMAIN proposals :
        IsMigratorVote(i) /\ (Pass(i) \/ Execute(i))

Spec == SafetySpec /\ WF_vars(Redeploy) /\ WF_vars(RepairStep) /\ WF_vars(DayPasses)

(***************************************************************************)
(* Properties.                                                             *)
(***************************************************************************)
TypeOK ==
    /\ \A i \in DOMAIN proposals :
           /\ proposals[i].status \in Statuses
           /\ proposals[i].vote.old \in 0 .. Len(owners)
    /\ admin \in 0 .. Len(owners)
    /\ \A o \in Owners :
           owners[o] \in [kind : {"migration", "hybrid"},
                          disabled : SUBSET (1 .. gens),
                          setters : SUBSET Migrators,
                          vaults : SUBSET Owners]
    /\ \A m \in Migrators : migrators[m] \in Owners
    /\ gens \in Nat \ {0, 1}
    /\ holding \in 1 .. gens

\* Whatever the order in which the hand-over votes execute, the Factory never
\* goes back to an owner that a later one has replaced: a vote that would,
\* reverts in transfer_ownership_back or set_admin.
OwnersOnlyMoveForward == [][admin' >= admin]_vars

\* The HybridVaultFactory that was installed last is a limit setter of the live
\* owner: no vote that kept the limit setters read when it was created brings
\* those of an owner back after a newer factory was installed in between.
LatestVaultsAllocate ==
    IsHybrid(admin) =>
        \E f \in owners[admin].vaults :
            \A o \in Owners : \A g \in owners[o].vaults : g <= f

\* A user is never migrated into a market that the live owner has disabled,
\* although a migrator reads the flags of the owner that it was deployed for.
MigrationsObeyLiveFlags ==
    [][holding' # holding => holding' \notin owners[admin].disabled]_vars

\* Swaps, redeploys and rollouts of the same owner, in any order, never leave
\* it without a migrator that works: only a hand-over does.
MigrationsSurviveSwaps ==
    [][Working # {} /\ admin' = admin => Working' # {}]_vars

\* A hand-over leaves the registered migrators wired to the owner replaced:
\* the redeploy script repairs that.
MigrationsAreRepaired ==
    IsHybrid(admin) ~> Working # {}
=============================================================================
