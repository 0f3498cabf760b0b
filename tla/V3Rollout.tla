----------------------------- MODULE V3Rollout -----------------------------
(***************************************************************************)
(* The rollout of the v3 markets (src/scripts/deploy_yb_pools_v3.py): one  *)
(* operator runs the script in its three modes, against a chain on which   *)
(* anyone may execute a passed vote and other votes may add markets.       *)
(*                                                                         *)
(*   deploy     deploys blueprints, a migrator and a pool per collateral,  *)
(*              and creates K + 2 proposals, one transaction each: Vote 1  *)
(*              installs the code, Votes 2 .. K + 1 add a market each, and *)
(*              Vote K + 2 moves the hybrid vaults to the new markets;     *)
(*   execute    executes those of its most recent proposals that passed;   *)
(*   activate   initialises the pool of each new market and seeds it.      *)
(*                                                                         *)
(* The script keeps nothing on disk: a run that dies in the middle leaves  *)
(* what its transactions did, and the next run starts from the chain.      *)
(* Collateral c in 1 .. K is the script's c-th POOL_SPEC, and market c the *)
(* old market that it replaces (ids 3 .. 6 of the factory); market K is    *)
(* the old WETH market, the one that hybrid vaults use.  A deployment, its *)
(* blueprints, its migrator and its pools are named by the number of the   *)
(* run that made them; 0 stands for what was there before.                 *)
(***************************************************************************)
EXTENDS TokenVoting, FiniteSets

CONSTANTS
    K,           \* number of collaterals: 4 in the script
    MaxRuns,     \* bound: runs of the deploy mode
    MaxMishaps,  \* bound: crashes of the script and markets of other proposals
    ForeignCollaterals   \* what those markets are on: 1 .. K, or 0 for another

ASSUME RolloutAssumption ==
    /\ K \in Nat \ {0}
    /\ MaxRuns \in Nat
    /\ MaxMishaps \in Nat
    /\ ForeignCollaterals \subseteq 0 .. K

VARIABLES
    impl,        \* the run whose AMM and LT blueprints the factory uses
    setters,     \* the migrators that are limit setters, by run
    markets,     \* the factory's markets, in order
    disabled,    \* the old markets whose LT is disabled
    limits,      \* the markets with a pool limit for hybrid vaults
    wallet,      \* the collaterals of which the operator holds a seed
    runs,        \* deploy runs started
    script,      \* what the script is doing: its memory, lost in a crash
    crashes

chainVars == <<impl, setters, markets, disabled, limits>>
operatorVars == <<wallet, runs, script, crashes>>
rolloutVars == <<votingVars, chainVars, operatorVars>>

Collaterals == 1 .. K
Votes == 1 .. K + 2
NoCollateral == 0

NotRunning == [mode |-> "idle"]

(***************************************************************************)
(* The chain.                                                              *)
(***************************************************************************)
\* ready: its pool is initialised; held: its LT has a supply; seeds: how
\* many times the operator has seeded it.
NewMarket(coin, run) ==
    [coin |-> coin, run |-> run, code |-> impl,
     ready |-> FALSE, held |-> FALSE, seeds |-> 0]

OldMarket(c) ==
    [coin |-> c, run |-> 0, code |-> 0,
     ready |-> TRUE, held |-> TRUE, seeds |-> 0]

\* Factory.market_count
MarketCount == Len(markets)

\* Mutants of GuardsHold: no guard on the code, a market count that is only
\* a minimum, and no guard on the last vote.
GuardsHold_AnyCode(v) ==
    CASE v.vote = 1     -> TRUE
      [] v.vote = K + 2 -> MarketCount = v.n + K
      [] OTHER          -> MarketCount = v.n + (v.vote - 2)

GuardsHold_AtLeast(v) ==
    CASE v.vote = 1     -> TRUE
      [] v.vote = K + 2 -> MarketCount = v.n + K
      [] OTHER          -> impl = v.run /\ MarketCount >= v.n + (v.vote - 2)

GuardsHold_LastUnguarded(v) ==
    CASE v.vote = 1     -> TRUE
      [] v.vote = K + 2 -> TRUE
      [] OTHER          -> impl = v.run /\ MarketCount = v.n + (v.vote - 2)

\* What the comparator's guards of a vote require of the factory.
GuardsHold(v) ==
    CASE v.vote = 1     -> TRUE
      [] v.vote = K + 2 -> MarketCount = v.n + K
      [] OTHER          -> /\ impl = v.run
                           /\ MarketCount = v.n + (v.vote - 2)

\* Vote 1: set_implementations, the new migrator in and the old one out.
InstallCode(v) ==
    /\ impl' = v.run
    /\ setters' = (setters \cup {v.run}) \ {0}
    /\ UNCHANGED <<markets, disabled, limits>>

\* Votes 2 .. K + 1: add_market on the new pool, lt_allocate_stablecoins(old, 0).
ReplaceMarket(v) ==
    /\ markets' = Append(markets, NewMarket(v.vote - 1, v.run))
    /\ disabled' = disabled \cup {v.vote - 1}
    /\ UNCHANGED <<impl, setters, limits>>

\* Vote K + 2: set_pool_limit of the new ids, and 0 for the old WETH market.
SwitchHybrid(v) ==
    /\ limits' = (limits \cup (v.n + 1 .. v.n + K)) \ {K}
    /\ UNCHANGED <<impl, setters, markets, disabled>>

RolloutVoteEffect(v) ==
    \/ v.vote = 1 /\ InstallCode(v)
    \/ v.vote \in 2 .. K + 1 /\ ReplaceMarket(v)
    \/ v.vote = K + 2 /\ SwitchHybrid(v)

\* TokenVoting.execute: all the calls of the proposal, or none.
ExecuteProposal(i) ==
    /\ MarkExecuted(i)
    /\ GuardsHold(proposals[i].vote)
    /\ RolloutVoteEffect(proposals[i].vote)

\* It is permissionless: anyone may execute what has passed, in any order.
AnyoneExecutes ==
    /\ \E i \in DOMAIN proposals : ExecuteProposal(i)
    /\ UNCHANGED operatorVars

VotersPass ==
    /\ \E i \in DOMAIN proposals : PassVote(i)
    /\ UNCHANGED <<chainVars, operatorVars>>

RolloutDayPasses ==
    /\ CooldownEnds
    /\ UNCHANGED <<chainVars, operatorVars>>

IsForeign(m) == m.run = 0
ForeignMarkets == {i \in K + 1 .. MarketCount : IsForeign(markets[i])}
Mishaps == crashes + Cardinality(ForeignMarkets)

\* Another proposal adds a market (scripts/voting has several).
ForeignVoteAddsMarket ==
    /\ Mishaps < MaxMishaps
    /\ \E c \in ForeignCollaterals :
           markets' = Append(markets, NewMarket(c, 0))
    /\ UNCHANGED <<impl, setters, disabled, limits, votingVars, operatorVars>>

\* Users deposit in the LT of a market whose pool takes liquidity.
UserDeposits ==
    /\ \E i \in DOMAIN markets :
           /\ markets[i].ready /\ ~markets[i].held
           /\ markets' = [markets EXCEPT ![i].held = TRUE]
    /\ UNCHANGED <<impl, setters, disabled, limits, votingVars, operatorVars>>

(***************************************************************************)
(* The deploy mode.                                                        *)
(***************************************************************************)
\* Blueprints and migrator are deployed, then market_count is read, once;
\* a pool per collateral follows, for which a price is asked of a web
\* service (a failure there is a crash).  The operator does not start over
\* when the last run got to its end.
StartDeploy ==
    /\ script.mode = "idle"
    /\ proposals # <<>> => proposals[Len(proposals)].vote.vote # K + 2
    /\ runs < MaxRuns
    /\ runs' = runs + 1
    /\ script' = [mode |-> "deploy", n |-> MarketCount, next |-> 0]
    /\ UNCHANGED <<votingVars, chainVars, wallet, crashes>>

\* Of the old markets only the last one may have a limit, or the script
\* stops with an assertion.
CheckHybridLimits ==
    /\ script.mode = "deploy" /\ script.next = 0
    /\ script' = IF limits \cap 1 .. script.n = {K}
                 THEN [script EXCEPT !.next = 1]
                 ELSE NotRunning
    /\ UNCHANGED <<votingVars, chainVars, wallet, runs, crashes>>

\* One proposal per transaction, each from a proposer of its own; a proposer
\* that still cools down makes the transaction revert and the script die.
CreateVote ==
    /\ script.mode = "deploy" /\ script.next \in Votes
    /\ IF script.next \in cooling
       THEN /\ script' = NotRunning
            /\ UNCHANGED votingVars
       ELSE /\ CreateProposal(script.next,
                   [run |-> runs, vote |-> script.next, n |-> script.n])
            /\ script' = IF script.next = K + 2 THEN NotRunning
                         ELSE [script EXCEPT !.next = @ + 1]
    /\ UNCHANGED <<chainVars, wallet, runs, crashes>>

(***************************************************************************)
(* The execute mode: execute_ready_dao_votes.                              *)
(***************************************************************************)
\* _discover_our_proposals: the last K + 2, in creation order.
Recent ==
    LET first == IF Len(proposals) > K + 2 THEN Len(proposals) - K - 1 ELSE 1
    IN  [i \in 1 .. Len(proposals) + 1 - first |-> first + i - 1]

StartExecute ==
    /\ script.mode = "idle"
    /\ proposals # <<>>
    /\ script' = [mode |-> "execute", todo |-> Recent]
    /\ UNCHANGED <<votingVars, chainVars, wallet, runs, crashes>>

Finished(todo) ==
    IF Len(todo) = 1 THEN NotRunning ELSE [mode |-> "execute", todo |-> Tail(todo)]

\* Executed and unready proposals are skipped; one that is ready is
\* executed, and if a guard of it does not hold the script dies there.
ExecuteNext ==
    /\ script.mode = "execute"
    /\ LET i == Head(script.todo)
       IN  \/ /\ CanExecute(i)
              /\ ExecuteProposal(i)
              /\ script' = Finished(script.todo)
           \/ /\ CanExecute(i)
              /\ ~GuardsHold(proposals[i].vote)
              /\ script' = NotRunning
              /\ UNCHANGED <<votingVars, chainVars>>
           \/ /\ ~CanExecute(i)
              /\ script' = Finished(script.todo)
              /\ UNCHANGED <<votingVars, chainVars>>
    /\ UNCHANGED <<wallet, runs, crashes>>

(***************************************************************************)
(* The activate mode: run_activation.                                      *)
(***************************************************************************)
NewMarketsOf(c) == {i \in K + 1 .. MarketCount : markets[i].coin = c}

\* discover_new_markets: the newest market on that collateral.
Discovered(c) ==
    CHOOSE i \in NewMarketsOf(c) : \A j \in NewMarketsOf(c) : j <= i

\* All seeds have to be there before the first transaction, those of markets
\* that are seeded already included.
StartActivation ==
    /\ script.mode = "idle"
    /\ \A c \in Collaterals : NewMarketsOf(c) # {}
    /\ wallet = Collaterals
    /\ script' = [mode |-> "activate", at |-> 1, seeding |-> FALSE,
                  plan |-> [c \in Collaterals |-> Discovered(c)]]
    /\ UNCHANGED <<votingVars, chainVars, wallet, runs, crashes>>

Planned == script.plan[script.at]

\* Mutant of InitializePool: no check that the pool is initialised already,
\* and a second initialize() reverts.
InitializePool_Again ==
    /\ script.mode = "activate" /\ ~script.seeding
    /\ IF markets[Planned].ready \/ IsForeign(markets[Planned])
       THEN /\ script' = NotRunning
            /\ UNCHANGED markets
       ELSE /\ script' = [script EXCEPT !.seeding = TRUE]
            /\ markets' = [markets EXCEPT ![Planned].ready = TRUE]
    /\ UNCHANGED <<votingVars, impl, setters, disabled, limits,
                   wallet, runs, crashes>>

\* initialize() is for the account that deployed the pool; of a market that
\* is ready it is skipped.
InitializePool ==
    /\ script.mode = "activate" /\ ~script.seeding
    /\ IF markets[Planned].ready
       THEN /\ script' = [script EXCEPT !.seeding = TRUE]
            /\ UNCHANGED markets
       ELSE IF IsForeign(markets[Planned])
       THEN /\ script' = NotRunning
            /\ UNCHANGED markets
       ELSE /\ script' = [script EXCEPT !.seeding = TRUE]
            /\ markets' = [markets EXCEPT ![Planned].ready = TRUE]
    /\ UNCHANGED <<votingVars, impl, setters, disabled, limits,
                   wallet, runs, crashes>>

NextPool ==
    IF script.at = K THEN NotRunning
    ELSE [script EXCEPT !.at = @ + 1, !.seeding = FALSE]

\* Mutant of SeedMarket: no check that the LT has a supply already.
SeedMarket_Always ==
    /\ script.mode = "activate" /\ script.seeding
    /\ markets' = [markets EXCEPT ![Planned].held = TRUE,
                                  ![Planned].seeds = @ + 1]
    /\ wallet' = wallet \ {script.at}
    /\ script' = NextPool
    /\ UNCHANGED <<votingVars, impl, setters, disabled, limits, runs, crashes>>

\* leverage_deposit, skipped for an LT that has a supply.
SeedMarket ==
    /\ script.mode = "activate" /\ script.seeding
    /\ IF markets[Planned].held
       THEN UNCHANGED <<markets, wallet>>
       ELSE /\ markets' = [markets EXCEPT ![Planned].held = TRUE,
                                          ![Planned].seeds = @ + 1]
            /\ wallet' = wallet \ {script.at}
    /\ script' = NextPool
    /\ UNCHANGED <<votingVars, impl, setters, disabled, limits, runs, crashes>>

\* The account is funded by transfers from outside.
Fund ==
    /\ wallet # Collaterals
    /\ wallet' = Collaterals
    /\ UNCHANGED <<votingVars, chainVars, runs, script, crashes>>

\* A web request fails, a node stops answering, the operator interrupts: the
\* process ends and what it remembered is gone.
Crash ==
    /\ script.mode # "idle"
    /\ Mishaps < MaxMishaps
    /\ crashes' = crashes + 1
    /\ script' = NotRunning
    /\ UNCHANGED <<votingVars, chainVars, wallet, runs>>

(***************************************************************************)
(* The specification.                                                      *)
(***************************************************************************)
RolloutInit ==
    /\ VotingInit
    /\ impl = 0
    /\ setters = {0}
    /\ markets = [c \in Collaterals |-> OldMarket(c)]
    /\ disabled = {}
    /\ limits = {K}
    /\ wallet = {}
    /\ runs = 0
    /\ script = NotRunning
    /\ crashes = 0

ChainSteps ==
    \/ AnyoneExecutes \/ VotersPass \/ RolloutDayPasses
    \/ ForeignVoteAddsMarket \/ UserDeposits

ScriptSteps ==
    \/ StartDeploy \/ CheckHybridLimits \/ CreateVote
    \/ StartExecute \/ ExecuteNext
    \/ StartActivation \/ InitializePool \/ SeedMarket
    \/ Fund \/ Crash

RolloutNext == ChainSteps \/ ScriptSteps

\* The operator runs the modes again until there is nothing left to do, the
\* voters approve, time passes, and the account is funded: what the script's
\* usage text and its "fund the account and re-run" ask for.
Fairness ==
    /\ WF_rolloutVars(VotersPass)
    /\ WF_rolloutVars(RolloutDayPasses)
    /\ WF_rolloutVars(Fund)
    /\ WF_rolloutVars(CheckHybridLimits \/ CreateVote)
    /\ SF_rolloutVars(StartExecute)
    /\ WF_rolloutVars(ExecuteNext)
    /\ SF_rolloutVars(StartActivation)
    /\ WF_rolloutVars(InitializePool \/ SeedMarket)

RolloutSafetySpec == RolloutInit /\ [][RolloutNext]_rolloutVars
RolloutSpec == RolloutSafetySpec /\ Fairness

(***************************************************************************)
(* What can be said of a rollout that nobody interferes with: all its      *)
(* votes were made for the same number of markets (no run of the script    *)
(* started after a market vote of an earlier one), and no other vote added *)
(* a market since.                                                         *)
(***************************************************************************)
Undisturbed ==
    \A i \in DOMAIN proposals :
        /\ proposals[i].vote.n = proposals[1].vote.n
        /\ \A j \in ForeignMarkets : j <= proposals[i].vote.n

\* One run created all the proposals there are, and no other is on the way.
OneCompleteRun ==
    /\ Undisturbed
    /\ Len(proposals) = K + 2
    /\ \A i \in DOMAIN proposals : proposals[i].vote.vote = i
    /\ script.mode # "deploy"

OwnMarkets == {i \in K + 1 .. MarketCount : ~IsForeign(markets[i])}

(***************************************************************************)
(* Properties.                                                             *)
(***************************************************************************)
MarketRecords ==
    [coin : Collaterals \cup {NoCollateral}, run : 0 .. runs, code : 0 .. runs,
     ready : BOOLEAN, held : BOOLEAN, seeds : Nat]

VoteRecords == [run : 1 .. runs, vote : Votes, n : Nat]
ProposalRecords == [by : Votes, vote : VoteRecords, status : Statuses]

DeployRecords == [mode : {"deploy"}, n : Nat, next : 0 .. K + 2]
ExecuteRecords == [mode : {"execute"}, todo : Seq(DOMAIN proposals)]
ActivateRecords == [mode : {"activate"}, at : Collaterals, seeding : BOOLEAN,
                    plan : [Collaterals -> DOMAIN markets]]
ScriptRecords == {NotRunning} \cup DeployRecords \cup ExecuteRecords \cup ActivateRecords

\* The type invariant: what the chain and the script's memory hold.
RolloutTypeOK ==
    /\ proposals \in Seq(ProposalRecords)
    /\ cooling \subseteq Votes
    /\ runs \in Nat /\ crashes \in Nat
    /\ impl \in 0 .. runs
    /\ setters \subseteq 0 .. runs
    /\ markets \in Seq(MarketRecords) /\ MarketCount >= K
    /\ disabled \subseteq Collaterals
    /\ limits \subseteq Nat
    /\ wallet \subseteq Collaterals
    /\ script \in ScriptRecords
    /\ script.mode = "execute" => script.todo # <<>>
    /\ script.mode = "deploy" => runs >= 1

\* A market that a vote of a run adds is made from the blueprints of that
\* very run, whatever was installed by the votes of other runs in between:
\* what the comparator's guards on amm_impl and lt_impl are there for.
NewMarketsRunTheirOwnCode ==
    \A i \in OwnMarkets : markets[i].code = markets[i].run

\* Undisturbed, no two markets are added for a collateral, although a run
\* that died leaves proposals that pass and are executed among those of the
\* next run (the guards on market_count: "prevents any of them executing
\* twice").
OneMarketPerCollateral ==
    Undisturbed =>
        \A i, j \in OwnMarkets : markets[i].coin = markets[j].coin => i = j

\* The hybrid vaults' limits are for markets that exist, and, undisturbed,
\* the old WETH market is taken from them only when all new markets are there
\* and have a limit (the comment on Vote 6: "it cannot disable the old market
\* before the new ones have been created").
HybridVaultsHaveAMarket ==
    /\ limits \subseteq 1 .. MarketCount
    /\ Undisturbed /\ K \notin limits =>
           \A c \in Collaterals :
               \E i \in limits \cap OwnMarkets : markets[i].coin = c

\* However often activation dies and is run again, a market is seeded at
\* most once, and only after its pool was initialised (run_activation:
\* "Idempotent: pools/LTs already activated are skipped").
SeededAtMostOnce ==
    \A i \in DOMAIN markets :
        /\ markets[i].seeds <= 1
        /\ markets[i].seeds = 1 => markets[i].ready /\ markets[i].held

AllActivated ==
    \A c \in Collaterals :
        \E i \in OwnMarkets :
            markets[i].coin = c /\ markets[i].ready /\ markets[i].held

\* When one run has created all the votes and nobody interferes, every
\* collateral ends with a live market and the hybrid vaults have moved:
\* neither a script that dies, nor votes that pass or are executed out of
\* order, nor an account that runs dry stops the rollout for good.
RolloutCompletes ==
    OneCompleteRun ~>
        (~OneCompleteRun \/ (AllActivated /\ K \notin limits))
=============================================================================
