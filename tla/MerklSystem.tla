---------------------------- MODULE MerklSystem -----------------------------
(***************************************************************************)
(* The net-pressure incentives: the script that deploys a stack of driver, *)
(* splitter and wrapper, the votes that connect and seed it and that open  *)
(* a Merkl campaign (src/scripts/deploy_merkl_pid_system.py and            *)
(* voting/create_vote_merkl_campaign.py), what its verification checks,    *)
(* and the fees that flow through it, in FeeSplitter, MerklPIDDriver and   *)
(* LTSwapZap.                                                              *)
(*                                                                         *)
(* The deploy script sends one transaction per step and writes the JSON    *)
(* file that all the others read at the end: it can stop anywhere and be   *)
(* started again.  A stack is named by its place in the order of           *)
(* deployment; 0 is the FeeDistributor.  One LT stands for those in the    *)
(* distributor's set and one for those of the deprecated markets.  Assets  *)
(* that were withdrawn and not swapped, and claims, are left out.          *)
(***************************************************************************)
EXTENDS TokenVoting, FiniteSetsExt

CONSTANTS
    FracN, FracD,   \* split_fraction
    Treasury,       \* crvUSD of the DAO
    OldFees,        \* shares of the deprecated LT in the FeeDistributor
    MaxEarned,      \* bound on the fees that the live market earns
    MaxStacks,      \* bound on the stacks
    MaxMerklVotes   \* bound on the proposals

ASSUME MerklAssumption ==
    /\ FracD \in Nat \ {0} /\ FracN \in 0 .. FracD
    /\ Treasury \in Nat /\ OldFees \in Nat /\ MaxEarned \in Nat
    /\ MaxStacks \in Nat /\ MaxMerklVotes \in Nat

VARIABLES
    stacks,     \* what was deployed
    step,       \* the step that a running deploy script has done last
    json,       \* the stack in the JSON file, 0 when there is no file
    receiver,   \* Factory.fee_receiver
    factoryAdmin, \* the owner contract of the Factory
    treasury,   \* crvUSD of the DAO
    oldFees,    \* shares of the deprecated LT: in the FeeDistributor,
    stranded,   \*   in a splitter
    pending,    \* fees of the live market not withdrawn yet
    distributed,\* shares of its LT in the FeeDistributor
    driven      \* all that splitters ever sent to their drivers

stackVars == <<stacks, step, json>>
daoVars == <<receiver, factoryAdmin, treasury>>
feeVars == <<oldFees, stranded, pending, distributed, driven>>
merklVars == <<votingVars, stackVars, daoVars, feeVars>>

FeeDistributor == 0
Stacks == 1 .. Len(stacks)
Latest == Len(stacks)

(***************************************************************************)
(* deploy_stack                                                            *)
(***************************************************************************)
\* fd: what the driver and the splitter take for the FeeDistributor; held:
\* the LT that the splitter holds; reserve: the crvUSD of the driver.
NewStack ==
    [fd |-> receiver, splitter |-> FALSE, configured |-> FALSE, owner |-> "deployer",
     wrapper |-> FALSE, merkl |-> FALSE,
     held |-> 0, reserve |-> 0]

Did(k, s) ==
    /\ step = s - 1
    /\ step' = s
    /\ UNCHANGED <<votingVars, daoVars, feeVars>>

DeployDriver ==
    /\ step = 0
    /\ Len(stacks) < MaxStacks
    /\ stacks' = Append(stacks, NewStack)
    /\ Did(Latest, 1)
    /\ UNCHANGED json

SetLatest(s) == stacks' = [stacks EXCEPT ![Latest] = s] /\ UNCHANGED json

DeploySplitter == Did(Latest, 2) /\ SetLatest([stacks[Latest] EXCEPT !.splitter = TRUE])
Configure == Did(Latest, 3) /\ SetLatest([stacks[Latest] EXCEPT !.configured = TRUE])
TransferOwnership == Did(Latest, 4) /\ SetLatest([stacks[Latest] EXCEPT !.owner = "DAO"])
DeployWrapper == Did(Latest, 5) /\ SetLatest([stacks[Latest] EXCEPT !.wrapper = TRUE])

\* Mutant of WriteJson: the file is written as soon as there are addresses.
WriteJson_Early ==
    /\ step \in 2 .. 5
    /\ json # Latest
    /\ json' = Latest
    /\ UNCHANGED <<votingVars, stacks, step, daoVars, feeVars>>

WriteJson ==
    /\ step = 5
    /\ step' = 0
    /\ json' = Latest
    /\ UNCHANGED <<votingVars, stacks, daoVars, feeVars>>

\* The script stops between two steps: what it deployed is in no file.
DeployFails ==
    /\ step > 0
    /\ step' = 0
    /\ UNCHANGED <<votingVars, stacks, json, daoVars, feeVars>>

Connected(k) == receiver = k

\* The checks of verify_merkl_pid_deployment, of the stack in the file.
Verified ==
    /\ json # 0
    /\ LET s == stacks[json] IN
       /\ s.owner = "DAO" /\ s.configured /\ s.splitter /\ s.wrapper
       /\ ~Connected(json)
       /\ receiver = s.fd
       /\ ~s.merkl
       /\ s.reserve = 0

(***************************************************************************)
(* The votes                                                               *)
(***************************************************************************)
Create(vote) ==
    /\ json # 0
    /\ Len(proposals) < MaxMerklVotes
    /\ CreateProposal("yb-deployer", vote)
    /\ UNCHANGED <<stackVars, daoVars, feeVars>>

\* What recover_token and LTSwapZap.convert may bring the DAO: a share is worth
\* one or two; and if the pool does not meet the minimum the DAO gets the asset.
Proceeds == {0, oldFees, 2 * oldFees}

\* Mutant of CanSeed: the seed is not simulated.
CanSeed_Unsimulated == TRUE

\* The simulation calls recover_token of the FeeDistributor in the file: what
\* a second deploy took for it is a splitter, which has no such method.
CanSeed == stacks[json].fd = FeeDistributor

CreateSeedVote ==
    /\ json # 0
    /\ CanSeed
    /\ \E seed \in Proceeds :
           Create([kind |-> "seed", stack |-> json, owner |-> factoryAdmin, seed |-> seed])

CreateCampaignVote == Create([kind |-> "campaign", stack |-> json])

\* The seed is what the simulation brought, not what the vote brings: the DAO
\* makes up for the difference, or the vote reverts.
ExecuteSeed(v) ==
    \E proceeds \in Proceeds :
        /\ treasury + proceeds >= v.seed
        /\ factoryAdmin = v.owner
        /\ receiver' = v.stack
        /\ treasury' = treasury + proceeds - v.seed
        /\ oldFees' = 0
        /\ stacks' = [stacks EXCEPT ![v.stack].reserve = @ + v.seed]
        /\ UNCHANGED <<step, json, factoryAdmin, stranded, pending, distributed, driven>>

\* set_merkl, accept_conditions and create_campaign of the driver, by its owner,
\* when Merkl has whitelisted the wrapper and waived its fee.
ExecuteCampaign(v) ==
    /\ stacks[v.stack].owner = "DAO"
    /\ stacks' = [stacks EXCEPT ![v.stack].merkl = TRUE]
    /\ UNCHANGED <<step, json, daoVars, feeVars>>

ExecuteVote(i) ==
    LET v == proposals[i].vote IN
    /\ PassAndMarkExecuted(i)
    /\ \/ v.kind = "seed" /\ ExecuteSeed(v)
       \/ v.kind = "campaign" /\ ExecuteCampaign(v)

(***************************************************************************)
(* The fees                                                                *)
(***************************************************************************)
\* LT.withdraw_admin_fees mints to the receiver of the moment.
Harvested(s) ==
    IF receiver = FeeDistributor THEN s ELSE [s EXCEPT ![receiver].held = @ + pending]
HarvestedDistributed == distributed + (IF receiver = FeeDistributor THEN pending ELSE 0)

WithdrawAdminFees ==
    /\ pending > 0
    /\ stacks' = Harvested(stacks)
    /\ distributed' = HarvestedDistributed
    /\ pending' = 0
    /\ UNCHANGED <<votingVars, step, json, daoVars, oldFees, stranded, driven>>

\* split_fraction of what the splitter holds is the driver's.
ToPid(bal) == (bal * FracN) \div FracD

\* FeeSplitter.trigger of any stack, by anyone: it reads the token set of what
\* it takes for the FeeDistributor, and MerklPIDDriver.trigger at its end
\* withdraws what it sent and swaps it, unless the pool is below the minimum.
Trigger(k) ==
    /\ stacks[k].splitter
    /\ stacks[k].fd = FeeDistributor
    /\ \E swapped \in BOOLEAN :
           LET after == Harvested(stacks)
               bal == after[k].held
               gain == IF swapped THEN ToPid(bal) ELSE 0
           IN /\ stacks' = [after EXCEPT ![k].held = 0, ![k].reserve = @ + gain]
              /\ pending' = 0
              /\ distributed' = HarvestedDistributed + bal - ToPid(bal)
              /\ driven' = driven + ToPid(bal)
    /\ UNCHANGED <<votingVars, step, json, daoVars, oldFees, stranded>>

\* withdraw_admin_fees of a deprecated market: what reaches a splitter stays
\* there, for it is not in the distributor's set.
HarvestDeprecated ==
    /\ stranded + oldFees = 0
    /\ IF receiver = FeeDistributor
       THEN oldFees' = 1 /\ UNCHANGED stranded
       ELSE stranded' = 1 /\ UNCHANGED oldFees
    /\ UNCHANGED <<votingVars, stackVars, daoVars, pending, distributed, driven>>

InSplitters == MapThenSumSet(LAMBDA k : stacks[k].held, Stacks)

Earn ==
    /\ pending + distributed + driven + InSplitters < MaxEarned
    /\ pending' = pending + 1
    /\ UNCHANGED <<votingVars, stackVars, daoVars, oldFees, stranded, distributed,
                   driven>>

(***************************************************************************)
(* The world                                                               *)
(***************************************************************************)
HandOver ==
    /\ factoryAdmin = 1
    /\ factoryAdmin' = 2
    /\ UNCHANGED <<votingVars, stackVars, receiver, treasury, feeVars>>

CooldownPasses == CooldownEnds /\ UNCHANGED <<stackVars, daoVars, feeVars>>

MerklInit ==
    /\ VotingInit
    /\ stacks = <<>> /\ step = 0 /\ json = 0
    /\ receiver = FeeDistributor /\ factoryAdmin = 1
    /\ treasury = Treasury
    /\ oldFees = OldFees /\ stranded = 0
    /\ pending = 0 /\ distributed = 0
    /\ driven = 0

Deploy ==
    \/ DeployDriver \/ DeploySplitter \/ Configure \/ TransferOwnership
    \/ DeployWrapper \/ WriteJson \/ DeployFails

MerklNext ==
    \/ Deploy
    \/ CreateSeedVote \/ CreateCampaignVote
    \/ \E i \in DOMAIN proposals : ExecuteVote(i)
    \/ \E k \in Stacks : Trigger(k)
    \/ WithdrawAdminFees \/ HarvestDeprecated \/ Earn
    \/ HandOver \/ CooldownPasses

MerklSpec == MerklInit /\ [][MerklNext]_merklVars

(***************************************************************************)
(* Properties                                                              *)
(***************************************************************************)
MerklTypeOK ==
    /\ step \in 0 .. 5
    /\ json \in 0 .. Len(stacks)
    /\ receiver \in 0 .. Len(stacks)
    /\ treasury \in Nat
    /\ oldFees \in Nat /\ stranded \in 0 .. 1 /\ pending \in Nat /\ distributed \in Nat
    /\ \A k \in Stacks :
           /\ stacks[k].fd \in 0 .. Len(stacks)
           /\ stacks[k].owner \in {"deployer", "DAO"}
           /\ stacks[k].held \in Nat /\ stacks[k].reserve \in Nat

\* Wherever the deploy script stopped, and whichever stack the JSON file names
\* by then, a splitter that a vote installs feeds the FeeDistributor and a
\* driver that the DAO owns.
InstalledStackIsWhole ==
    receiver # FeeDistributor =>
        LET s == stacks[receiver] IN
        s.owner = "DAO" /\ s.configured /\ s.wrapper /\ s.fd = FeeDistributor

\* A stack in the file passes its verification for as long as no vote was
\* executed: the deploy script leaves none half done there.
FreshStackIsVerified ==
    json # 0 /\ (\A i \in DOMAIN proposals : ~Executed(i)) => Verified
=============================================================================
