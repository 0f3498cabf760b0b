---------------------------- MODULE MarketVotes -----------------------------
(***************************************************************************)
(* The votes that create markets, register their gauges and turn on the    *)
(* distribution of their fees (src/scripts/voting).  A script reads the    *)
(* markets, the gauges, the token set and the owner of the Factory when it *)
(* runs, or knows addresses in advance; what it read is in the calls of a  *)
(* proposal that is executed later, in whatever order somebody executes    *)
(* the proposals.  When a vote passes does not matter: it passes as it is  *)
(* executed.                                                               *)
(*                                                                         *)
(* Market id p - 1 is at place p of the sequence of markets.  The Factory  *)
(* makes five CREATE calls per market, so that an LT or a gauge has an     *)
(* address that is known before it exists, and is named by its place.      *)
(***************************************************************************)
EXTENDS TokenVoting, FiniteSets, SequencesExt

CONSTANTS
    MaxOwners,   \* bound on the owners of the Factory after the DAO
    MaxRuns      \* bound on the runs of scripts that create votes

ASSUME MarketVotesAssumption == MaxOwners \in Nat /\ MaxRuns \in Nat

VARIABLES
    markets,    \* each one's asset, whether its pool is one of v3's, its code
    code,       \* the implementations the Factory makes markets from
    admin,      \* Factory.admin: 0 is the DAO, then its owner contracts
    receiver,   \* Factory.fee_receiver
    treasury,   \* the LTs of which the DAO holds fees, of the first only one
    feesOn,     \* the vote that turns the distribution on was executed
    gauges,     \* GaugeController.gauges
    killed,     \* those that are killed
    tokenSet,   \* the FeeDistributor's current set
    runs        \* runs of scripts so far

factoryVars == <<markets, code, admin, receiver>>
feeVars == <<treasury, feesOn, tokenSet>>
gaugeVars == <<gauges, killed>>
marketVars == <<votingVars, factoryVars, feeVars, gaugeVars, runs>>

N == 3              \* the assets in BTC: WBTC, cbBTC and tBTC
DAO == 0
Zero == 0           \* the address of what does not exist
WETHAsset == N + 1
Assets == 1 .. N + 1

FirstPlaces == 1 .. N
FeePlace == 1        \* the first market whose fees are followed
SecondPlaces == N + 1 .. 2 * N
WETHPlace == 2 * N + 1
V3Places == 2 * N + 2 .. 3 * N + 2

Exists(p) == p \in DOMAIN markets
LTOf(p) == IF Exists(p) THEN p ELSE Zero
GaugeOf(p) == IF Exists(p) THEN p ELSE Zero

\* The tokens of the initial set: the LTs of the second markets; their assets.
AssetToken(a) == 3 * N + 2 + a
InitialSet == SecondPlaces \cup {AssetToken(a) : a \in 1 .. N}

(***************************************************************************)
(* The scripts                                                             *)
(***************************************************************************)
Run == runs < MaxRuns /\ runs' = runs + 1

Create(creator, vote) ==
    /\ Run
    /\ CreateProposal(creator, vote)
    /\ UNCHANGED <<factoryVars, feeVars, gaugeVars>>

AccountOf(k) == <<"yb-deployer-a", "yb-deployer-b", "yb-deployer-c">>[k]

MarketOf(a, v3) == [asset |-> a, v3 |-> v3]

\* The three markets in one vote of a DAO that is the admin; or one by one.
FirstMarkets ==
    Create("yb-deployer-2",
        [kind |-> "direct", pools |-> [a \in 1 .. N |-> MarketOf(a, FALSE)]])

FirstMarket1 == Create(AccountOf(1), [kind |-> "direct", pools |-> <<MarketOf(1, FALSE)>>])
FirstMarket2 == Create(AccountOf(2), [kind |-> "direct", pools |-> <<MarketOf(2, FALSE)>>])
FirstMarket3 == Create(AccountOf(3), [kind |-> "direct", pools |-> <<MarketOf(3, FALSE)>>])

WithImplementations == Create("yb-deployer", [kind |-> "implementations"])

Stage1 == Create("yb-deployer", [kind |-> "stage1", lt |-> LTOf(FeePlace)])

\* Again the pool of the market at place k.
Stage2(k) ==
    /\ Exists(k)
    /\ Create(AccountOf(k), [kind |-> "direct",
                             pools |-> <<MarketOf(markets[k].asset, markets[k].v3)>>])
Stage2_0 == Stage2(1)
Stage2_1 == Stage2(2)
Stage2_2 == Stage2(3)

\* Through the owner that the script read; no market count is compared.
CreateWethPool ==
    /\ admin # DAO
    /\ Create("yb-deployer", [kind |-> "owner", owner |-> admin,
                              pool |-> MarketOf(WETHAsset, FALSE)])

\* Votes 2 to 5 of deploy_yb_pools_v3, each from its own account and guarded
\* by the market count: the one that the script reads, and one more each.
V3Accounts == <<"yb-deployer-a", "yb-deployer-b", "yb-deployer-c", "yb-deployer-2">>

V3Vote(k) ==
    [kind |-> "v3", owner |-> admin, count |-> Len(markets) + k - 1,
     pool |-> MarketOf(k, TRUE)]

V3Markets ==
    /\ admin # DAO
    /\ ToSet(V3Accounts) \cap cooling = {}
    /\ Run
    /\ proposals' = proposals \o
           [k \in Assets |-> [by |-> V3Accounts[k], vote |-> V3Vote(k), status |-> "open"]]
    /\ cooling' = cooling \cup ToSet(V3Accounts)
    /\ UNCHANGED <<factoryVars, feeVars, gaugeVars>>

Gauges ==
    Create("yb-deployer", [kind |-> "gauges", gauges |-> [p \in FirstPlaces |-> GaugeOf(p)]])

WethGauge ==
    Create("yb-deployer-2", [kind |-> "gauges", gauges |-> <<GaugeOf(WETHPlace)>>])

\* The predicted gauges of predict_gauges.py, each with a guard.
AddGaugesV3 == Create("yb-deployer-4", [kind |-> "gauges_v3"])

KillOldGauges ==
    Create("yb-deployer",
        [kind |-> "kill",
         gauges |-> {IF i \in DOMAIN gauges THEN gauges[i] ELSE Zero : i \in FirstPlaces}])

\* deploy_fee_distributor: the votes know its address.
DeployFeeDistributor ==
    /\ tokenSet = {}
    /\ \A p \in SecondPlaces : Exists(p)
    /\ tokenSet' = InitialSet
    /\ UNCHANGED <<votingVars, factoryVars, treasury, feesOn, gaugeVars, runs>>

\* The script reads as many tokens as the initial set has, and asserts that
\* the LTs and the assets of the second markets are among them.
FeesOn ==
    /\ tokenSet = InitialSet
    /\ admin # DAO
    /\ Create("yb-deployer", [kind |-> "fees_on", owner |-> admin])

AddWethToFees ==
    Create("yb-deployer-a",
        [kind |-> "tokens", tokens |-> {LTOf(p) : p \in SecondPlaces \cup {WETHPlace}}])

\* The current set is read up to a zero, and every new LT must have a symbol.
FeesOnV3 ==
    /\ receiver = "FeeDistributor"
    /\ Zero \notin tokenSet
    /\ \A p \in V3Places : Exists(p)
    /\ Create("yb-deployer-2", [kind |-> "tokens", tokens |-> tokenSet \cup V3Places])

(***************************************************************************)
(* The votes, executed: all their calls succeed, or they revert.           *)
(***************************************************************************)
WithCode(pool) == [asset |-> pool.asset, v3 |-> pool.v3, code |-> code]

AddMarkets(pools) ==
    markets' = markets \o [i \in DOMAIN pools |-> WithCode(pools[i])]

ExecuteDirect(v) ==
    /\ admin = DAO
    /\ AddMarkets(v.pools)
    /\ UNCHANGED <<code, admin, receiver, feeVars, gaugeVars>>

\* The owner that the script read is still the admin, or its call reverts.
ThroughOwner(v) == v.owner = admin

ExecuteOwner(v) ==
    /\ ThroughOwner(v)
    /\ AddMarkets(<<v.pool>>)
    /\ UNCHANGED <<code, admin, receiver, feeVars, gaugeVars>>

CountGuard(v) == Len(markets) = v.count

ExecuteV3(v) ==
    /\ CountGuard(v)
    /\ ThroughOwner(v)
    /\ AddMarkets(<<v.pool>>)
    /\ UNCHANGED <<code, admin, receiver, feeVars, gaugeVars>>

ExecuteImplementations ==
    /\ admin = DAO
    /\ code' = "audited"
    /\ UNCHANGED <<markets, admin, receiver, feeVars, gaugeVars>>

\* Mutant of ExecuteStage1: not a call that only the admin can make.
ExecuteStage1_Open(v) ==
    /\ code' = "migration"
    /\ receiver' = "DAO"
    /\ treasury' = treasury \cup ({v.lt} \ {Zero})
    /\ UNCHANGED <<markets, admin, feesOn, tokenSet, gaugeVars>>

\* set_implementations, set_fee_receiver(DAO), then withdraw_admin_fees of the
\* LTs that the script read; a call of the zero address does nothing.
ExecuteStage1(v) ==
    /\ admin = DAO
    /\ code' = "migration"
    /\ receiver' = "DAO"
    /\ treasury' = treasury \cup ({v.lt} \ {Zero})
    /\ UNCHANGED <<markets, admin, feesOn, tokenSet, gaugeVars>>

Distinct(s) == Cardinality(ToSet(s)) = Len(s)

\* GaugeController.add_gauge reverts for one that is already there.
ExecuteGauges(gs) ==
    /\ Distinct(gs)
    /\ ToSet(gs) \cap ToSet(gauges) = {}
    /\ gauges' = gauges \o gs
    /\ UNCHANGED <<killed, factoryVars, feeVars>>

\* Mutant of PredictedGuard: no guard.
PredictedGuard_None == TRUE
PredictedGuard == \A p \in V3Places : Exists(p)

ExecuteGaugesV3 ==
    /\ PredictedGuard
    /\ ExecuteGauges([i \in 1 .. N + 1 |-> 2 * N + 1 + i])

ExecuteKill(v) ==
    /\ v.gauges \subseteq ToSet(gauges)
    /\ killed' = killed \cup v.gauges
    /\ UNCHANGED <<gauges, factoryVars, feeVars>>

\* Mutant of ExecuteFeesOn: what the DAO holds is sent before the fees are
\* withdrawn to it.
ExecuteFeesOn_SentFirst(v) ==
    /\ ThroughOwner(v)
    /\ Zero \notin tokenSet
    /\ receiver' = "FeeDistributor"
    /\ treasury' = (treasury \ SecondPlaces) \cup (IF receiver = "DAO" THEN SecondPlaces ELSE {})
    /\ feesOn' = TRUE
    /\ UNCHANGED <<markets, code, admin, tokenSet, gaugeVars>>

\* withdraw_admin_fees of the second markets, set_fee_receiver, TokenSender.send
\* and fill_epochs, which fails on a zero token.
ExecuteFeesOn(v) ==
    /\ ThroughOwner(v)
    /\ Zero \notin tokenSet
    /\ receiver' = "FeeDistributor"
    /\ treasury' = treasury \ SecondPlaces
    /\ feesOn' = TRUE
    /\ UNCHANGED <<markets, code, admin, tokenSet, gaugeVars>>

\* add_token_set settles the current set first, which fails on a zero token.
ExecuteTokens(v) ==
    /\ tokenSet # {}
    /\ Zero \notin tokenSet
    /\ tokenSet' = v.tokens
    /\ UNCHANGED <<treasury, feesOn, factoryVars, gaugeVars>>

Execute(i) ==
    LET v == proposals[i].vote IN
    /\ PassAndMarkExecuted(i)
    /\ UNCHANGED runs
    /\ \/ v.kind = "direct" /\ ExecuteDirect(v)
       \/ v.kind = "owner" /\ ExecuteOwner(v)
       \/ v.kind = "v3" /\ ExecuteV3(v)
       \/ v.kind = "implementations" /\ ExecuteImplementations
       \/ v.kind = "stage1" /\ ExecuteStage1(v)
       \/ v.kind = "gauges" /\ ExecuteGauges(v.gauges)
       \/ v.kind = "gauges_v3" /\ ExecuteGaugesV3
       \/ v.kind = "kill" /\ ExecuteKill(v)
       \/ v.kind = "fees_on" /\ ExecuteFeesOn(v)
       \/ v.kind = "tokens" /\ ExecuteTokens(v)

DayPasses == CooldownEnds /\ UNCHANGED <<factoryVars, feeVars, gaugeVars, runs>>

\* A vote of OwnerVotes hands the Factory over.
HandOver ==
    /\ admin < MaxOwners
    /\ admin' = admin + 1
    /\ UNCHANGED <<votingVars, markets, code, receiver, feeVars, gaugeVars, runs>>

\* LT.withdraw_admin_fees, which anyone may call.
WithdrawAdminFees(p) ==
    /\ receiver = "DAO"
    /\ Exists(p) /\ p \notin treasury
    /\ treasury' = treasury \cup {p}
    /\ UNCHANGED <<votingVars, factoryVars, feesOn, tokenSet, gaugeVars, runs>>

\* The scripts of the launch and of the first migration start from nothing,
\* those of the fees and of v3 from the markets and the owner that they found.
Launch ==
    /\ markets = <<>>
    /\ code = "launch"
    /\ admin = DAO
    /\ receiver = "launch"
    /\ gauges = <<>>
    /\ tokenSet = {}

Made(places) ==
    [p \in places |->
        [asset |-> IF p = WETHPlace THEN WETHAsset ELSE ((p - 1) % N) + 1,
         v3 |-> FALSE, code |-> "migration"]]

BeforeFees ==
    /\ markets = Made(1 .. 2 * N)
    /\ code = "migration"
    /\ admin = 1
    /\ receiver = "DAO"
    /\ gauges = [p \in FirstPlaces |-> p]
    /\ tokenSet = {}

BeforeV3 ==
    /\ markets = Made(1 .. WETHPlace)
    /\ code = "migration"
    /\ admin = 1
    /\ receiver = "FeeDistributor"
    /\ gauges = [p \in FirstPlaces |-> p]
    /\ tokenSet = SecondPlaces

MarketInit ==
    /\ VotingInit
    /\ treasury = {}
    /\ feesOn = FALSE
    /\ killed = {}
    /\ \/ Launch /\ runs = 0
       \/ (BeforeFees \/ BeforeV3) /\ runs = 1

MarketScripts ==
    \/ FirstMarkets \/ FirstMarket1 \/ FirstMarket2 \/ FirstMarket3
    \/ WithImplementations \/ Stage1 \/ Stage2_0 \/ Stage2_1 \/ Stage2_2
    \/ CreateWethPool \/ V3Markets
GaugeScripts == Gauges \/ WethGauge \/ AddGaugesV3 \/ KillOldGauges
FeeScripts == DeployFeeDistributor \/ FeesOn \/ AddWethToFees \/ FeesOnV3

MarketNext ==
    \/ MarketScripts \/ GaugeScripts \/ FeeScripts
    \/ \E i \in DOMAIN proposals : Execute(i)
    \/ \E p \in {FeePlace} \cup SecondPlaces : WithdrawAdminFees(p)
    \/ DayPasses \/ HandOver

MarketSpec == MarketInit /\ [][MarketNext]_marketVars

(***************************************************************************)
(* Properties                                                              *)
(***************************************************************************)
MarketTypeOK ==
    /\ \A p \in DOMAIN markets :
           markets[p] \in [asset : Assets, v3 : BOOLEAN,
                           code : {"launch", "audited", "migration"}]
    /\ admin \in 0 .. MaxOwners
    /\ receiver \in {"launch", "DAO", "FeeDistributor"}
    /\ treasury \subseteq ({FeePlace} \cup SecondPlaces) \cap DOMAIN markets
    /\ Distinct(gauges)
    /\ killed \subseteq ToSet(gauges)

\* However votes overtake each other, a gauge in the GaugeController and an LT
\* in the FeeDistributor's set belong to a market, unless a script took the
\* zero address of a market that was still missing.  The v3 gauges are in their
\* vote before they exist: the comparator keeps it from being executed.
NothingRegisteredAhead ==
    /\ \A g \in ToSet(gauges) : g = Zero \/ Exists(g)
    /\ \A t \in tokenSet : t \in Zero .. 3 * N + 2 => t = Zero \/ Exists(t)

\* Fees that go to the FeeDistributor never go to the DAO again: stage 1 and
\* the vote that turns the distribution on, both pending, in either order.
FeesStayOn ==
    [][receiver = "FeeDistributor" => receiver' = "FeeDistributor"]_marketVars

\* Once the distribution is on, the DAO holds no fees of the second markets:
\* whatever anyone withdrew to it before, the vote passed on.
NoFeesLeftBehind == feesOn => treasury \cap SecondPlaces = {}
=============================================================================
