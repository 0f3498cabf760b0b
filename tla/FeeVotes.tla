------------------------------ MODULE FeeVotes -------------------------------
(***************************************************************************)
(* The schedules of votes that raise the fee of the BTC markets until the  *)
(* price scale of their pools moves, and step it down afterwards           *)
(* (voting/change_btc_fees.py, change_btc_fees_2.py), with the other votes *)
(* that set fees.  A script reads fees and price scales when it runs, and  *)
(* puts them into guards (CallComparator) and calls that are executed      *)
(* weeks later, in whatever order somebody executes them.  When a vote     *)
(* passes does not matter here: it passes as it is executed.               *)
(*                                                                         *)
(* Fees are in hundredths of a percent.  Of a price scale it matters only  *)
(* whether it is what it was: two values.  The clock ticks once per        *)
(* deadline a schedule can meet.                                           *)
(***************************************************************************)
EXTENDS TokenVoting

CONSTANTS
    BTC,           \* the markets of WBTC, cbBTC and tBTC
    WETH,          \* market 6
    NormalFee,     \* of the markets when they were created
    DeadlineA,     \* three weeks
    DeadlineBCD,   \* three and a half
    MaxTime,       \* bound on the clock
    MaxFeeVotes    \* bound on the proposals

FEE_A == 500
FEE_B == 300
FEE_C == 200
FEE_April == 91
AMM_FEE == 150

ASSUME FeeAssumption ==
    /\ BTC # {} /\ WETH \notin BTC
    /\ NormalFee \in 1 .. FEE_C - 1
    /\ DeadlineA \in Nat /\ DeadlineBCD \in Nat /\ DeadlineA < DeadlineBCD
    /\ MaxTime \in Nat
    /\ MaxFeeVotes \in Nat

VARIABLES
    clock,
    owner_kind,   \* of the contract that administers the Factory
    scale,        \* price_scale of each BTC market's pool
    fee,          \* AMM.fee of each market
    rested,       \* the DAO's last call of check_called_after is 60 s ago
    job           \* what a script that is running still has to create

marketVars == <<scale, fee>>
feeVotesVars == <<votingVars, clock, owner_kind, marketVars, rested, job>>

AnyFee == 0   \* no such fee: the vote does not look at the fee

\* A vote of a schedule: guards on the price scale and the fee, what it sets.
\* raise tells the first vote of a schedule, which is for an unmoved price.
Step(raise, from, to, until) ==
    [kind |-> "btc", raise |-> raise, from |-> from, to |-> to,
     scale |-> scale, until |-> clock + until]

To(value) == [m \in BTC |-> value]
Current == [m \in BTC |-> fee[m]]

\* The votes of change_btc_fees and of change_btc_fees_2, in order.
FirstSchedule ==
    <<Step(TRUE, AnyFee, To(FEE_A), DeadlineA),
      Step(FALSE, FEE_A, To(FEE_B), DeadlineBCD),
      Step(FALSE, FEE_B, To(FEE_C), DeadlineBCD),
      Step(FALSE, FEE_C, Current, DeadlineBCD)>>

\* Mutant of SecondSchedule: the two fees swapped.
SecondSchedule_Swapped ==
    <<Step(TRUE, AnyFee, Current, DeadlineA),
      Step(FALSE, FEE_C, To(FEE_B), DeadlineA)>>

SecondSchedule ==
    <<Step(TRUE, AnyFee, To(FEE_B), DeadlineA),
      Step(FALSE, FEE_B, Current, DeadlineA)>>

\* Each vote of a schedule has an account of its own.
Accounts == <<"yb-deployer", "yb-deployer-a", "yb-deployer-b", "yb-deployer-c">>

Idle == [votes |-> <<>>, next |-> 1]
Running == job.next <= Len(job.votes)

(***************************************************************************)
(* The scripts                                                             *)
(***************************************************************************)
FeeRoom == Len(proposals) < MaxFeeVotes

StartSchedule(votes) ==
    /\ ~Running
    /\ Len(proposals) + Len(votes) <= MaxFeeVotes
    /\ job' = [votes |-> votes, next |-> 1]
    /\ UNCHANGED <<votingVars, clock, owner_kind, marketVars, rested>>

ChangeBtcFees == StartSchedule(FirstSchedule)
ChangeBtcFees2 == StartSchedule(SecondSchedule)

CreateNext ==
    /\ Running
    /\ CreateProposal(Accounts[job.next], job.votes[job.next])
    /\ job' = [job EXCEPT !.next = @ + 1]
    /\ UNCHANGED <<clock, owner_kind, marketVars, rested>>

\* The script ends between two votes: an account that is cooling down, a
\* passphrase, the pinning service.  Nothing is remembered.
ScriptFails ==
    /\ Running
    /\ job' = Idle
    /\ UNCHANGED <<votingVars, clock, owner_kind, marketVars, rested>>

ChangeFeesApril ==
    /\ ~Running
    /\ FeeRoom
    /\ CreateProposal("yb-deployer", [kind |-> "april"])
    /\ UNCHANGED <<clock, owner_kind, marketVars, rested, job>>

AdjustWethPool ==
    /\ ~Running
    /\ FeeRoom
    /\ CreateProposal("yb-deployer", [kind |-> "weth"])
    /\ UNCHANGED <<clock, owner_kind, marketVars, rested, job>>

(***************************************************************************)
(* Execution                                                               *)
(***************************************************************************)
\* Mutant of FeeGuard: the fee that a step goes down from is not compared.
FeeGuard_None(v, m) == TRUE
FeeGuard(v, m) == v.from = AnyFee \/ fee[m] = v.from

ScaleGuard(v, m) == v.raise <=> scale[m] = v.scale[m]

\* Mutant of ExecuteStep: a market whose guards fail is left out.
ExecuteStep_EachMarket(v) ==
    LET met == {m \in BTC : ScaleGuard(v, m) /\ FeeGuard(v, m)} IN
    /\ owner_kind = "MigrationFactoryOwner"
    /\ rested
    /\ clock < v.until
    /\ met # {}
    /\ fee' = [m \in DOMAIN fee |-> IF m \in met THEN v.to[m] ELSE fee[m]]
    /\ rested' = FALSE

\* check_called_after(60), check_timestamp_lt, and for each market the guards
\* and lt_set_amm_rate, which only a MigrationFactoryOwner has.
ExecuteStep(v) ==
    /\ owner_kind = "MigrationFactoryOwner"
    /\ rested
    /\ clock < v.until
    /\ \A m \in BTC : ScaleGuard(v, m) /\ FeeGuard(v, m)
    /\ fee' = [m \in DOMAIN fee |-> IF m \in BTC THEN v.to[m] ELSE fee[m]]
    /\ rested' = FALSE

\* lt_set_amm_fee, which only a HybridFactoryOwner has.
ExecuteApril ==
    /\ owner_kind = "HybridFactoryOwner"
    /\ fee' = [m \in DOMAIN fee |-> IF m \in BTC THEN FEE_April ELSE fee[m]]
    /\ UNCHANGED rested

\* lt_set_rate and lt_set_amm_rate for the WETH market.
ExecuteWeth ==
    /\ owner_kind = "MigrationFactoryOwner"
    /\ fee' = [fee EXCEPT ![WETH] = AMM_FEE]
    /\ UNCHANGED rested

ExecuteFeeVote(i) ==
    LET v == proposals[i].vote IN
    /\ PassAndMarkExecuted(i)
    /\ \/ v.kind = "btc" /\ ExecuteStep(v)
       \/ v.kind = "april" /\ ExecuteApril
       \/ v.kind = "weth" /\ ExecuteWeth
    /\ UNCHANGED <<clock, owner_kind, scale, job>>

(***************************************************************************)
(* The world                                                               *)
(***************************************************************************)
PriceScaleMoves(m) ==
    /\ scale' = [scale EXCEPT ![m] = 1 - @]
    /\ UNCHANGED <<votingVars, clock, owner_kind, fee, rested, job>>

\* Days pass: every cooldown is over.
Tick ==
    /\ clock < MaxTime
    /\ clock' = clock + 1
    /\ rested' = TRUE
    /\ cooling' = {}
    /\ UNCHANGED <<proposals, owner_kind, marketVars, job>>

MinutePasses ==
    /\ ~rested
    /\ rested' = TRUE
    /\ UNCHANGED <<votingVars, clock, owner_kind, marketVars, job>>

\* The vote of create_vote_hybrid_factory is executed.
FactoryHandedOver ==
    /\ owner_kind = "MigrationFactoryOwner"
    /\ owner_kind' = "HybridFactoryOwner"
    /\ UNCHANGED <<votingVars, clock, marketVars, rested, job>>

FeeVotesInit ==
    /\ VotingInit
    /\ clock = 0
    /\ owner_kind = "MigrationFactoryOwner"
    /\ scale = [m \in BTC |-> 0]
    /\ fee = [m \in BTC \cup {WETH} |-> NormalFee]
    /\ rested = TRUE
    /\ job = Idle

FeeScripts ==
    \/ ChangeBtcFees \/ ChangeBtcFees2 \/ CreateNext \/ ScriptFails
    \/ ChangeFeesApril \/ AdjustWethPool

FeeVotesNext ==
    \/ FeeScripts
    \/ \E i \in DOMAIN proposals : ExecuteFeeVote(i)
    \/ Tick \/ MinutePasses
    \/ \E m \in BTC : PriceScaleMoves(m)
    \/ FactoryHandedOver

FeeVotesSpec == FeeVotesInit /\ [][FeeVotesNext]_feeVotesVars

(***************************************************************************)
(* Properties                                                              *)
(***************************************************************************)
FeeValues == {NormalFee, FEE_A, FEE_B, FEE_C, FEE_April}

FeeVotesTypeOK ==
    /\ clock \in 0 .. MaxTime
    /\ owner_kind \in {"MigrationFactoryOwner", "HybridFactoryOwner"}
    /\ scale \in [BTC -> 0 .. 1]
    /\ fee \in [BTC \cup {WETH} -> FeeValues \cup {AMM_FEE}]
    /\ rested \in BOOLEAN
    /\ Running => job.next <= Len(Accounts)
    /\ \A i \in DOMAIN proposals : proposals[i].status \in Statuses

IsStep(i, raise) ==
    i \in DOMAIN proposals /\ proposals[i].vote.kind = "btc"
        /\ proposals[i].vote.raise = raise

\* The three markets have the same fee after every vote of every schedule,
\* in whatever order they are executed: a price scale that has moved for some
\* of the pools only stops a vote for all of them.
FeesMoveTogether == \A m, n \in BTC : fee[m] = fee[n]

\* A fee only steps down after a raise has been executed: a step that is
\* executed out of its turn does not find its fee.
StepsFollowARaise ==
    \A i \in DOMAIN proposals :
        IsStep(i, FALSE) /\ Executed(i) =>
            \E j \in DOMAIN proposals : IsStep(j, TRUE) /\ Executed(j)

\* Once the price scales have moved, a schedule only lowers the fees, unless a
\* raise was executed before its script ran: the script takes the fee it finds
\* for the one to restore, and that may be the raised fee of another schedule.
StepsOnlyLower ==
    \A i \in DOMAIN proposals, m \in BTC :
        IsStep(i, FALSE) /\ proposals[i].vote.to[m] >= proposals[i].vote.from =>
            \E j \in 1 .. i - 1 : IsStep(j, TRUE) /\ Executed(j)
=============================================================================
