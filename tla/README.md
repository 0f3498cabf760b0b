# Yield Basis: formal models

TLA+ models of the Yield Basis contracts (`src/contracts/`, Vyper) and of the
scripts that deploy and govern them (`src/scripts/`, Python), TLC configurations
that check them on small instances, and TLAPS proofs about them.

## The system

Two kinds of program make up the repository, and both are modelled.

**The contracts** (`src/contracts/`). Every call is one transaction: it happens
completely or reverts. There is no concurrency inside a call, and all of it
between calls: any account may call any contract in any order within a block and
across blocks, so an invariant that spans several contracts or several calls is
only as good as every handler that touches a part of it.

**The scripts** (`src/scripts/`). An operator deploys contracts and creates DAO
proposals with them, one transaction after another, from what the script reads
of the chain when it runs. A script dies when a node, a web service or the
operator stops it, keeps next to nothing on disk, and is run again. A proposal
passes days later and is executed by anybody, in any order with others: what it
was built on may be stale by then. These scripts are where crashes, retries,
late transactions and stale reads happen.

| Component | State | Operations | Talks to |
|---|---|---|---|
| `AMM.vy` | collateral, debt, rate multiplier, `minted`, `redeemed`, fee, kill switch | exchange, `_deposit`, `_withdraw`, collect_fees, set_rate | LT, price oracle, stablecoin |
| `LT.vy` | shares, staked shares, liquidity values, `stablecoin_allocated` | deposit, withdraw, emergency_withdraw, allocate_stablecoins, distribute_borrower_fees, withdraw_admin_fees | AMM, Curve pool, Factory, GaugeController |
| `Factory.vy` | markets, implementations, admin, fee receiver, allocators | add_market, set_implementations, set_admin, set_fee_receiver, set_allocator | LT, crvUSD minter |
| `MigrationFactoryOwner.vy`, `HybridFactoryOwner.vy`, `LTMigrator.vy` | limit setters, disabled LTs; the owner a migrator is wired to | transfer_ownership_back, set_limit_setter, lt_allocate_stablecoins, migrate | Factory, LT |
| `dao/VotingEscrow.vy` | locks, total and user histories, slope changes, NFT owners | create/increase/extend/toggle/withdraw/transfer, checkpoint | YB, clearance checker |
| `dao/GaugeController.vy`, `dao/YB.vy` | votes, weights, scheduled changes, emission integrals; YB reserve | vote, checkpoint, emit, add_gauge, set_killed | VotingEscrow, gauges |
| `dao/LiquidityGauge.vy` | stakes, reward integrals | deposit, withdraw, claim, deposit_reward | GaugeController, LT |
| `dao/FeeDistributor.vy` | token sets, funds per epoch, claims | fill_epochs, claim, add_token_set, recover | VotingEscrow, escrows |
| `dao/VestingEscrow.vy`, `dao/CliffEscrow.vy` | allocations, claims, disabled amounts; cliff | fund, claim, disable, rug | YB, VotingEscrow, GaugeController |
| `HybridVault.vy` with factory | per-pool allocations, pool limits, required crvUSD | deposit, withdraw, change of crvUSD vault | LT, crvUSD vaults, Factory owner |
| `net_pressure/` | what splitter and driver hold; FastGauge reward integral; PID state | trigger, convert, stake, claim | LT, FeeDistributor, Merkl |
| TokenVoting (Aragon, external) | proposals; who created one in the last day | createProposal, vote, execute | all that the DAO owns |
| `deploy_yb_pools_v3.py` | nothing of its own: the chain | deploy, execute, activate | TokenVoting, Factory, pools |
| `voting/*.py` | nothing of their own | each creates one to four proposals | TokenVoting |
| `deploy_merkl_pid_system.py`, `verify_merkl_pid_deployment.py` | a JSON file | deploy, verify, create the vote | `net_pressure/`, TokenVoting |
| `return_admin_fees/`, `distribution/` | a JSON file | send to a list in batches | `dao/Multisend.vy` |

What makes each of them correct, and hard to test:

- **AMM and LT.** Four counters that no single transaction updates together (the
  AMM's balance, `debt`, `minted`/`redeemed`, `stablecoin_allocated`) imply the
  interest and what is owed to the factory. Interest is collected in part when
  cash is short. Rounding decides who pays on withdrawals. Anyone may reduce the
  allocation towards the admin's limit.
- **VotingEscrow.** The total is one line with slope changes scheduled in
  advance; it must equal the sum over users at all times, after any sequence of
  extensions, toggles, expiries and merges, in the same second or weeks later.
- **GaugeController.** The same bookkeeping per gauge, for votes whose lock goes
  on changing; on top of it, emissions shared at weights recorded at different
  times.
- **FeeDistributor, vesting, escrows.** Nobody is paid twice, and the contract
  holds what it owes, in any order of calls.
- **The rollout.** Six votes that depend on each other, of a script that may die
  and be run again, executed by anybody: every market with its own code, once
  per collateral, and in the end all of them live.
- **Votes about owners and fees.** Each is built on what its script read. In any
  order of execution the Factory must keep its newest owner, that owner the
  rights of the one before, users a migrator, and three markets one fee.
- **Markets, gauges and fees.** Nothing is registered before it exists, and fees
  that are to go to voters do not stay with the DAO.
- **Incentive stack and refunds.** Whatever step a script dies at, nothing half
  done is put into service and nobody is paid twice.

`PROJECT.json` lists the hazards at their lines and the properties that watch
them.

## Modules

| Module | Models | Uses |
|---|---|---|
| `AMM` | `AMM.vy` and the handlers of `LT.vy` that move stablecoins or debt | |
| `MCAMM` | constants for TLC | `AMM` |
| `VeBase` | locks, their slopes and biases | |
| `VeLocks` | abstract VotingEscrow: locks and what they weigh now | `VeBase` |
| `VotingEscrow` | detailed `VotingEscrow.vy`: histories, slope changes, NFTs, tokens | `VeBase`; implements `VeLocks` |
| `MCVotingEscrow` | constants for TLC | `VotingEscrow` |
| `GaugeController` | `GaugeController.vy` with the emissions of `YB.vy` | `VeLocks` |
| `FeeDistributor` | `FeeDistributor.vy` and what the escrow answers about past epochs | `VeLocks` |
| `VestingEscrow` | `VestingEscrow.vy` | |
| `CliffEscrow` | the tokens and the lock of one `CliffEscrow.vy` | `VeLocks` |
| `MCGaugeController`, `MCFeeDistributor`, `MCVestingEscrow`, `MCCliffEscrow` | constants for TLC | the module they are named after |
| `TokenVoting` | proposals, passing, execution, cooldown of the DAO's voting plugin | |
| `V3Rollout`, `MCV3Rollout` | `deploy_yb_pools_v3.py` and the chain it runs against | `TokenVoting` |
| `OwnerVotes` | the votes about owners of the Factory and migrators | `TokenVoting` |
| `FeeVotes`, `MCFeeVotes` | the votes about fees | `TokenVoting` |
| `MarketVotes` | the votes about markets, gauges and the distribution of fees | `TokenVoting` |
| `Refunds`, `MCRefunds` | the refund vote and the scripts that send tokens, on top of `MarketVotes` | `MarketVotes` |
| `MerklSystem` | the incentive stack: deployment, votes, flow of fees | `TokenVoting` |
| `Sums` | the total of a function over the users or gauges | |
| `AMM_proofs` | theorems about `AMM` | `AMM` |
| `Sums_proofs` | lemmas about sums over any finite set | `Sums` |
| `VeLocks_proofs` | lemmas about what operations do to locks | `VeLocks`, `Sums_proofs` |
| `VotingEscrow_proofs` | theorems about `VotingEscrow` | `VotingEscrow`, `Sums_proofs` |
| `GaugeController_proofs` | theorems about `GaugeController` | `GaugeController`, `VeLocks_proofs` |
| `EscrowUsers_proofs` | theorems about `FeeDistributor` and `CliffEscrow` | both, `VeLocks_proofs` |
| `Payouts_proofs` | theorems about `VestingEscrow`, `Refunds` and `MarketVotes` | `VestingEscrow`, `Refunds`, `Sums_proofs` |
| `DaoVotes_proofs` | theorems about `OwnerVotes`, `FeeVotes`, `MerklSystem` and `V3Rollout` | these four |

Modules that one proof module joins have their own names for the initial states,
steps and specification (`RolloutInit`, `RolloutNext`, `RolloutSpec`, `CliffSpec`,
`FeeVotesSpec`, `MerklSpec`, `RefundSpec`) and for the type invariant
(`CliffTypeOK`, `FeeVotesTypeOK`, `MarketTypeOK`, `MerklTypeOK`, `RolloutTypeOK`).

In all of them an action is a whole transaction, or in a script what happens
from one transaction to the next; a `require`, an unsigned underflow and a
division by zero revert, so each is a guard. State variables and actions have the
names of the source.

**AMM.** `stable` holds the ERC20 balances of four holders: the factory, the AMM,
the LT contract and everybody else. `Settle` is the tail of every trade, deposit
and withdrawal: `_collect_fees`, then `_distribute_borrower_fees`, which sends
the interest into the pool. The curve (`get_x0`, safe limits, the test of the
final state of a trade) is the contract's integer arithmetic with 10**18
replaced by `WAD`. Shares are not modelled: what a deposit mints in LP and the
fraction that a withdrawal redeems are drawn from sets. Donations to the AMM and
the crvUSD minter's right to take the factory's funds back are actions of the
environment, as are time and the oracle price, which may jump at any time.

**VotingEscrow.** `point_history` and `user_point_history` are sequences, `Walk`
is the loop of `_checkpoint` over weeks, and the views are those of the
contract, the unrounded start of `total_supply_at` included. `TotalIsSum`
therefore compares two histories: what the contract says the total was, and what
it says each user had. The clearance checker is unset here. The module
implements `VeLocks` with `votes` mapped to `getVotes`: a step of the contract is
a step on locks after which everyone's votes weigh what their lock does.
Deposits are the delicate part of the mapping: the contract rounds the *supply*,
the abstract module the *deposit*.

**GaugeController.** Extends `VeLocks`, so its locks change as the escrow's do;
`EscrowStep` adds the clearance check, which is the controller itself. The record
`gc` holds the weights and emissions, and checkpoints are functions on it because
a ballot runs two per gauge. `Gauge.get_adjustment` may answer anything in
`Adjustments`. The mint of YB, `reserve * (1 - exp(-rate * dt))`, is replaced by
its linear part: the shares of an emission do not depend on its size. Gauges are
added before or after anything was minted, as the code allows. `HeadStarts` is what
`_checkpoint_gauge` leaves unrecorded when it skips its books, and `overcredited` the
history of that; nothing else reads them.

**FeeDistributor.** Extends `VeLocks` with `votes_at`, what `getPastVotes` answers
for the second an epoch begins. Every entry point of the contract begins with
`_fill_epochs`, so `FillEpochs` is a part of three actions: a plain call, a new
token set and a claim. `Owners` are those whose votes may count (the receiver and,
with `use_vest`, their cliff escrow), and `Claim` is the loop over epochs and token
sets: what it adds up per token is a sum over the epochs that are due. The sets
of an epoch are read from the state after the filling, as in the code. `paid`,
`arrived` and `drained` record history; nothing reads them. `ClaimsMissEpochs` is
an assumption about the chain: the second an epoch begins is a multiple of a
week, a block timestamp of Ethereum never is (slots are twelve seconds apart and
their offset is not a multiple of twelve). Were there a claim in that very
second, votes could still change in it and the epoch be overpaid.

**VestingEscrow.** Accounts are users and their cliff escrows: `fund` with a cliff
creates the escrow once (`has_cliff`) and funds it in the place of the user. A
batch of `fund` is a sequence of single fundings, because its checks are per
recipient. `VestedOf` is the contract's `_total_vested_of`, frozen at `disabled_at`;
`Disable` and `Enable` are the two branches of `toggle_disable`.

**CliffEscrow.** One contract among the users of `VeLocks`. What the recipient does
through it is the escrow's operation for that user, paid out of the contract's
balance (`PaidFromBalance`); everybody else locks, and may merge a lock into the
contract's. Voting does not move tokens and is left out.

**TokenVoting.** A proposal is a payload with a status. `CreateProposal` reverts
while its creator cools down; `MarkExecuted` is the plugin's part of `execute`, and
the module that extends it adds the calls of the proposal. All of them succeed or
none (`allowFailureMap=0`). The voters may pass a proposal or let it lie. Modules
in which the time between passing and execution makes no difference take both in
one step (`PassAndMarkExecuted`).

**V3Rollout.** The state is that of the chain (`impl`, `setters`, `markets`, `disabled`,
`limits`) and of the operator (`wallet`, and `script`: what the running process
remembers). `Crash` forgets `script` at any point; there is no file to forget. The
deploy mode reads the market count once (`script.n`) and creates `K + 2` votes,
one per step. `GuardsHold` is what the `CallComparator` calls of a vote require, and
`RolloutVoteEffect` the other calls. `Recent` is the scan for the newest proposals,
`Discovered` the newest market of a collateral. `ForeignVoteAddsMarket` is any
other proposal that adds one, as others in `voting/` do; what the script can promise
when that happens is less, hence `Undisturbed` in two properties.

**OwnerVotes.** Owners and migrators are named by their order of deployment. A
proposal holds the owner that its script read. `ThroughLiveOwner` is why a stale
vote reverts, in `transfer_ownership_back` or `set_admin`; calls on the captured owner
itself do not, and `RegisterMigrator` models them on whichever owner that is.
`gens` counts generations of markets, one asset standing for all. A HybridVaultFactory is
named by the owner that it was deployed with; `Fix` puts the limit setters it reads
into its vote. `Hybrid` may be run whatever owner is live, as its script allows. A
migrator works (`Working`) if the owner it is wired to has it as a limit setter and is
the one the LTs obey. `Redeploy` is `create_vote_redeploy_migrator_owner.py`, which
repairs what a hand-over leaves.

**FeeVotes.** A schedule is a job that creates up to four votes, one per step, and
may fail in between. Each vote holds the fees and price scales of the moment its
script ran. `rested` is the pause of 60 seconds in `check_called_after`, `clock` ticks
once per deadline.

**MarketVotes and Refunds.** A market is named by its place in the Factory; because
the Factory makes a fixed number of CREATE calls per market, so is its gauge's
predicted address. Scripts that read an address which is not there yet put zero in
the vote, as `factory.markets(i)` returns it. `Init` has the three situations that the
scripts were written for: an empty Factory, one before fees are turned on, and
one before v3. `Refunds` composes `MarketVotes` with the vote that returns the first
markets' fees to an account, and the script that pays them out: the file with
the address of the `Multisend` (absent, opened and still empty, written), batches,
transactions in a mempool in order of nonce, the last of which may be lost. The
script of `distribution/deploy_unvested_lp.py` is the same loop with a Multisend
that is there from the start, the second kind of initial state.

**MerklSystem.** `step` is how far the deploy script got; `json` the stack that its
file names. The three votes read the file. `Trigger` is `FeeSplitter.trigger` with
`MerklPIDDriver.trigger` at its end, which may or may not swap. `Verified` is what
`verify_merkl_pid_deployment.py` asks of a stack.

## Runs

| Run | Question | Bounds |
|---|---|---|
| `amm` | do the counters agree, is the allocation covered, debt backed by collateral; are withdrawals fair | WAD 36, two prices, one rate and fee, exits of a third and of all, limits 0 and 60, donations and take-backs |
| `voting_escrow` | do total, slope changes and histories agree with the locks; does it implement `VeLocks` | 2 users, week 2, longest lock 3, time 2..6, history of 6 points |
| `gc_votes` | is a gauge's weight the sum of the votes for it; are votes backed by locks | 2 users, 1 gauge, time 4..7, voting delay 2 |
| `gc_emissions` | is the power in use the sum of votes; can everyone be paid, but for head starts | 1 user, 2 gauges, powers 0 and 1/2 for each, time 4..6, adjustments 1/2 and above 1 |
| `fd` | is everyone paid their share of each epoch, in every token set; is the contract solvent; is an epoch that has begun settled | 2 users, one with a cliff escrow, 2 tokens, arrivals of 5 over 2 epochs at times 3 and 5, time 3..7 with epochs due at 4 and 6, 4 locked in all, the owner acting at 5 and recovering one token |
| `vesting` | is nobody paid from the tokens of others; does vested stay vested | 2 users, each with or without a cliff, vesting from 2 to 5, time 1..5, 8 tokens |
| `cliff` | does nothing leave before the cliff | the contract and another user, time 3..8, longest lock 3 |
| `v3_rollout` | own code, one market per collateral, hybrid vaults served, seeded once; does an undisturbed rollout complete | 2 collaterals, 2 deploy runs, 1 mishap (crash or foreign market) |
| `owner_votes` | does the Factory keep its newest owner, and that one the newest vault factory; do migrations obey the live flags, survive swaps and get repaired | 5 proposals and the repairs |
| `fee_votes` | do fees move together, steps follow a raise and only lower | 2 BTC markets and WETH, 5 proposals, both deadlines |
| `refunds` | is nothing registered ahead of its existence; do fees stay on, none left behind; is everyone paid once | 3 votes, 2 owners after the DAO, 3 holders in 2 batches, 2 mishaps |
| `merkl` | is an installed stack whole; does the file name only stacks that verify | 2 stacks, 2 proposals, 2 units of fees |

Why the bounds are enough. What can go wrong in the ledger depends on the order
of a few handlers and on remainders of divisions; WAD = 36 makes 4/9, 1/16 and
17/32, the constants of the curve, visible in small integers with remainders at
every division. A longest lock that is not a whole number of weeks, as in the
contract, and a clock that passes several week boundaries make a lock start,
expire and be changed before, at and after a boundary. Two users suffice for
sums, merges and interference. The clock, the lengths of histories and the
amounts (`MaxTime`, `MaxEpoch`, `MaxMinted`, `MaxDonated`, `MaxAmount`, `MaxLocked`,
`MaxSets`, `MaxArrived`, `MaxAdded`, `MaxReceived`) and in `FeeDistributor` the times of
arrivals and of the owner's calls (`ArrivalTimes`, `OwnerTimes`) and the tokens that
are recovered (`Recovered`) are
bounded by guards, hence `CHECK_DEADLOCK FALSE`: a behaviour ends at the bound.
The caps of 255 and 500 weeks on loops, and of 50 epochs and token sets on a
claim, are out of reach of these clocks; see the proofs for what the first two mean. An arrival of 5 tokens over 2 epochs
leaves a remainder at both divisions of a claim. Two epochs fall due, and a claim
covers one or two: a user claims at once, late, in pieces and beyond what is due, and
locks that weighed in the first epoch are merged before the second. No lock operation
happens at the last second of the run: no epoch follows in which it would count.

In the modules of the scripts `MaxRuns`, `MaxProposals`, `MaxOwners`, `MaxStacks`,
`MaxEarned`, `MaxMishaps` and the clock of `FeeVotes` are the bounds. What goes wrong
there takes two runs of a script, or two or three votes and an event between
creation and execution; five proposals let a hand-over, a registration, a flag and
their repairs meet. Two collaterals are enough for the market votes to have an
order and for the hybrid limits to move from one market to two; the theorems are
for any number. `MarketVotes` is the same with three votes from each of three
starting points.

Every safety property that a run checks is also a theorem, so the bounds above
limit only what the runs say of liveness. The runs remain the place where the
properties are shown to be about something: each bound lets every action happen.

## Fairness

No contract schedules itself, so there is none in their modules and all their
properties are safety. Two script modules state it.

- `V3Rollout.Fairness`: the voters pass what is proposed, days pass, the account is
  funded, a running script goes on (weak), and the operator starts the execute and
  activate modes again and again (strong, because other modes interleave). The
  docstring of the script lists the modes as steps to be run by hand and calls them
  idempotent; an underfunded activation ends with "Fund the account and re-run". A
  crash needs no fairness and is bounded. Nothing says that anyone executes a vote
  but the script.
- `OwnerVotes`: the script that repairs migrators is run when none works, its vote
  passes and is executed, days pass. No other vote is assumed to pass, ever.

## Where code and comments differ

Not checked by a run, and kept here for a reader of the models.

- `VotingEscrow.vy:533`: `total_supply_at` walks weeks from an unrounded time, so
  `totalVotes` and `getPastTotalSupply` are the sum of all votes only up to the last
  checkpoint; the docstring (line 572) has no such condition. `TotalIsSum` states what
  does hold.
- `GaugeController.vy:180`: "Guaranteed to have no new emissions if same time" is true
  of a gauge that was checkpointed in this block, not of one that was only added in
  it. `add_gauge` sets `time_weight` and no integral. A vote for the gauge in the same
  block, if it is the first call to mint since an earlier block, leaves
  `specific_emissions_per_gauge` where it was, so the gauge shares later in what was
  minted before it had any weight, and the controller owes more than it has. None of
  the scripts that add gauges mints first (`create_vote_add_gauges_v3.py:144-153`,
  `create_vote_migration_stage3.py:102-108`). `EmissionsCovered` says that this head
  start is all that is ever promised without being minted.
- `GaugeController.vy:369`: `set_killed` is documented to stop emissions. It stops
  votes (line 232); a killed gauge with votes goes on receiving what it earns.
- `FeeDistributor.vy:212`: a claim sets `token_balances` to all that the contract
  holds, so a later arrival of a token out of the set counts as distributed and
  `recover_token` (line 283) does not touch it. `Solvent` shows that the error is on
  the safe side.
- `create_vote_migration_stage2_*.py` after a hand-over: they call the Factory as the
  DAO, so they revert once stage 3 was executed; before stage 1 they would make
  markets from the old code. Only the order in which people act prevents it.
- Comments in `deploy_yb_pools_v3.py`, `LTMigrator.vy:188-196` and
  `create_vote_swap_migrator.py:7-9` say that a withdrawal from a hybrid vault flips the
  flag of a disabled LT back. In `HybridFactoryOwner.vy:143-172` as it is here a limit
  setter cannot clear it: line 159 changes the flag for the ADMIN only, and the branch
  that a setter takes sets it to the value tested just before. So no action of a vault
  changes a flag in `OwnerVotes`.
- `LTMigrator.vy:82`: "refuse to migrate INTO a market the DAO has deprecated" is true
  of the flags of one owner. A new owner has only the flags that its vote sets:
  `create_vote_hybrid_factory.py`, run again under a HybridFactoryOwner, would open
  the second generation, and `create_vote_fix_hybrid_owner.py` opens the first.
  `MigrationsObeyLiveFlags` says what is left, that migrations go by the flags of the
  live owner. Vaults of a HybridVaultFactory that a second run of
  `create_vote_hybrid_factory.py` replaces can no longer allocate.

## Proofs

Every invariant and every action property that a run checks is a theorem, for all
users, gauges, accounts, tokens, batches and collaterals, all amounts, times, weeks,
rates and fees that the assumptions of the modules admit. The assumptions say that
numbers are natural and periods not empty, that what is summed over (users, gauges,
accounts, holders) is finite, that `MaxUint` is later than any time that can be
written down, as the largest `uint256` is, and that there is a BTC market to
change the fees of. No theorem uses the bounds of the runs (`MaxTime`,
`MaxProposals`, ...) but as some natural number.

Four results need more, one of two conditions that the code does not guarantee by
itself and that are therefore a hypothesis of the theorem:

- `ClaimsMissEpochs` (`SharesArePaid`, `DistributorStaysSolvent`), about block times;
  see FeeDistributor above.
- `OnTime` (`TotalIsAlwaysSum`, `SlopesAlwaysUnwind`): no checkpoint comes more than
  `CHECKPOINT_WEEKS` weeks after the one before. The loop of `_checkpoint` ends after 255
  weeks; a later checkpoint would leave the total behind, and the comment in the
  code hopes that "this won't get used in 5 years". In the run, whose clock passes a
  few weeks, every behaviour is on time. The other theorems about the escrow do
  not need it: a user's own votes and what was answered about the past are right
  all the same.

One bound of the code is not in the model: `_get_weight` gives up after 500 weeks.
It makes no difference as long as the longest lock is shorter, and four years are:
every vote ends within `MAXTIME` of the checkpoint that it made, so a point that is
carried further has no slope left and no change ahead.

### How sums are reasoned about

`Sums` defines the total of a function over a finite set by a fold, which takes
the terms out in an order that `CHOOSE` picks. `Sums_proofs` shows what does not
depend on the order: a total changes by what one term changes (`TotalUpdate`, which
is the step of a single user), it adds up, splits, scales and compares. The library's induction theorems have an operator as parameter, so
induction is stated over a *set* of those sets that have a property, and rests on
the well-founded order of the subsets of a finite set: first-order, and within the
provers' reach.

### AMM and LT (`AMM_proofs`)

| Theorem | Statement |
|---|---|
| `TypeCorrect` | `[]TypeOK`: no balance, debt or counter underflows |
| `AllocationIsConserved` | `[]AllocationConserved` |
| `InterestIsNonNegative` | `[]InterestNonNegative` |
| `AllocationIsRecoverable` | `[]AllocationRecoverable` |
| `DeallocationIsSafe` | `DeallocationKeepsReserve` |
| `WithdrawalsAreFair` | `WithdrawalIsFair` |
| `DebtIsBacked` | `[]DebtHasCollateral` |

The inductive invariant is `IInv == TypeOK /\ AllocationConserved /\
BookedDebtCovers`. `BookedDebtCovers` (`debt + redeemed >= minted` for the debt as
last *written*) is needed because `InterestNonNegative` speaks of the debt with
interest up to now, which moves with the clock; with `DebtGrows` (accrual never
decreases the debt) it implies it. Every handler is shown to move tokens and
counters by equal amounts (`Books`, `SettleKeepsBooks`), one lemma per handler.
`WithdrawalIsFair` is an inequality between floor and ceiling (`RoundingIsFair`);
`DebtHasCollateral` needs that a trade cannot take the last collateral while debt
remains, because the curve would be worth less (`NoCollateralNoX0`), and that a
withdrawal of all collateral rounds the repaid debt up to all of it. Of the curve
nothing else is used than that `get_x0` is an integer.

### VotingEscrow (`VotingEscrow_proofs`)

| Theorem | Statement |
|---|---|
| `EscrowInvariant` | `[]EscrowInv`, type correctness included |
| `EscrowImplementsVeLocks` | `ImplementsVeLocks`: the contract refines the abstract locks |
| `PastStaysFrozen` | `PastIsFrozen` |
| `TotalIsAlwaysSum` | `OnTime => []TotalIsSum` |
| `SlopesAlwaysUnwind` | `OnTime => []SlopesUnwind` |

`EscrowInv` says that amounts are multiples of `MAXTIME` and ends whole weeks, that
an NFT stands for every lock, that a user's last point was taken of the lock as it
is (so that `getVotes`, which extrapolates that point, weighs the lock: the
refinement), and that points of the total are at most a week apart. The last is
what makes the answers about the past final: `total_supply_at` walks weeks from a
point, and only the point before `t` may be used for `t`.

`SumInv` is what the bookkeeping of the contract means. The last point of the total
is the sum of the users' points there (`LastIsSum`); the slope change scheduled
for a week ahead is that of the locks which end then (`ScheduleIsSum`); no point of
a user is ahead of the total (`UsersBehind`); and from each point of the history to
the next the line of the total is the sum of the users' past votes (`PastIsSum`).
None of the four can be kept without the others: the walk over weeks adds points
whose slopes are right only if the schedule is, and the schedule can be right
after an operation only if the slope that the operation removes is the one which
the lock put there. The proof has one part for the walk, which changes no lock
(`WalkEndsWithSum`: week by week, a line plus the slopes that end), one for the change of
a user's lock at the present moment, and one for merges, which change two.

### GaugeController and emissions (`GaugeController_proofs`)

| Theorem | Statement |
|---|---|
| `ControllerTypeCorrect` | `[]TypeOK` |
| `PowerStaysSumOfVotes` | `[]PowerIsSumOfVotes` |
| `VotesStayBacked` | `[]VotesBacked` |
| `WeightsStaySumOfVotes` | `[]GaugeWeightIsSumOfVotes` |
| `RateFactorAtMostOne` | the rate factor of an emission is at most `WAD` |
| `EmissionsStayCovered` | `[]EmissionsCovered` |

The inductive invariant is `ControllerInv == UserInv /\ SharesOK(gc)`. `UserInv` is
about users: a vote that still weighs something has the share of the lock's slope
that its power says, and ends no later than the lock (`VotesCovered`). It has to
survive what owners do to locks afterwards, and does because a lock can only be
given away, or made finite, when the clearance check finds no votes.
`SharesOK` is about the weights: the two weight sums are sums over gauges, and what
all gauges are still due of what was minted is at most what was not sent yet and the
head starts, those of earlier seconds and of this one: a gauge that is visited again in
its second leaves none, and one that is visited later is credited with it. A
due is a product of two recorded quantities whose quotient was rounded down, so
that solvency is an inequality between one total and another, term by term.
`GaugesAddUp` is added for the weights: for every gauge the point, and each
scheduled change ahead, is the sum over users of the votes for it.

### FeeDistributor and CliffEscrow (`EscrowUsers_proofs`)

| Theorem | Statement |
|---|---|
| `DistributorTypeCorrect` | `[]TypeOK` |
| `EpochsStaySettled` | `EpochsAreSettled` |
| `SharesArePaid` | `ClaimsMissEpochs => []PaidIsShare` |
| `DistributorStaysSolvent` | `ClaimsMissEpochs => []Solvent` |
| `CliffTypeCorrect` | `[]CliffTypeOK` |
| `CliffHolds` | `[]NothingLeavesBeforeCliff` |

`DistributorInv` relates what the contract records twice. The sets of an epoch are
a range of those there are, and a token that funds an epoch is in one of them
(`FundsInSets`), so that the loop over sets meets it; of the two cursors of a user the
one per token is never ahead (`CursorsInStep`). `ShareInv` adds that claims reach only
epochs whose votes are final. Solvency then compares, for each token and epoch,
the sum of the floors that were and can be paid with the funds of the epoch. For
the cliff escrow the invariant adds that nothing is approved before the cliff
(`NothingApproved`), as otherwise somebody could take tokens without a further check.

### VestingEscrow, markets and refunds (`Payouts_proofs`)

| Theorem | Statement |
|---|---|
| `TypeCorrect` | `[]TypeOK` of `VestingEscrow` |
| `AccountsStayWithinAllocation` | `[]WithinAllocation`: `claim` never reverts, and pays nobody from the tokens of others |
| `EscrowStaysSolvent` | `[]Solvent`: to the last token, what is there is what is unallocated or owed |
| `VestedTokensStay` | `VestedStaysVested` |
| `RefundInvariant` | `[](MarketInv /\ RefundInv)` |
| `NothingIsAhead` | `[]NothingRegisteredAhead` |
| `FeesStayWhereTheyGo` | `FeesStayOn` |
| `FeesArePassedOn` | `[]NoFeesLeftBehind` |
| `EverybodyIsPaidOnce` | `[]PaidExactlyOnce` |

In the vesting escrow `FrozenIsUnvested` is needed: what is disabled of an account is
what had not vested when it was. Without it the tokens taken by `rug_disabled`
cannot be compared with those claimed. The proofs rest on `Vested` being monotone
in the time and in the allocation and never above it, which is arithmetic of a
floor.

`MarketInv` says of each vote what its script read and nothing undoes: an address in
it is zero or existed (`Known`), and existence is forever. That fees are passed on
needs that the DAO is not the admin again once they go to the FeeDistributor
(`FeesThroughOwner`). `RefundInv` ties the process, the file and the chain together: the
Multisend in the file is the only one that ever sent, everything in the mempool is
addressed to it whichever start of the script sent it, and a batch before the
current one has been paid or is on its way. `PaidExactlyOnce` follows through any
number of crashes and lost transactions.

### The votes (`DaoVotes_proofs`)

| Theorem | Statement |
|---|---|
| `OwnerInvariant` | `[]OwnerInv` |
| `OwnersNeverMoveBack` | `OwnersOnlyMoveForward` |
| `VaultsKeepAllocating` | `[]LatestVaultsAllocate` |
| `MigrationsSeeLiveFlags` | `MigrationsObeyLiveFlags` |
| `SwapsKeepAMigrator` | `MigrationsSurviveSwaps` |
| `FeeInvariant` | `[]FeeInv` |
| `FeesStayTogether` | `[]FeesMoveTogether` |
| `StepsComeAfterARaise` | `[]StepsFollowARaise` |
| `StepsLowerOrFollow` | `[]StepsOnlyLower` |
| `MerklInvariant` | `[]MerklInv` |
| `InstalledStacksAreWhole` | `[]InstalledStackIsWhole` |
| `FreshStacksAreVerified` | `[]FreshStackIsVerified` |
| `RolloutInvariant` | `[]RolloutInv`, without fairness |
| `RolloutTyped` | `[]RolloutTypeOK` |
| `NewMarketsOwnCode` | `[]NewMarketsRunTheirOwnCode` |
| `NoTwoMarkets` | `[]OneMarketPerCollateral` |
| `HybridVaultsKeepAMarket` | `[]HybridVaultsHaveAMarket` |
| `SeededOnce` | `[]SeededAtMostOnce` |

All four invariants have the same shape: what the chain looks like, and for each
proposal ever made, whatever its status, what it says that is still true when
somebody executes it.

- *Owners* (`OwnerInv`): the owner that a vote installs was deployed after the one
  that it goes through and is of the kind its script deploys, and the limit setters it
  carries are those that the owner read still has (`OwnerVoteOK`): only an owner that
  becomes the admin gets vaults (`OwnerOK`), and it does so once. As a vote through any
  other than the live owner reverts, owners only move forward, and each hand-over
  brings the vault factory of the owner it replaces or a newer one.
- *Fees* (`FeeInv`): until a raise is executed the fees are the usual one or April's,
  which no step goes down from (`RaisedBefore`). So a step that was made before any
  raise cannot take effect before one, in whatever order votes are executed, and
  lowers the fee when it does; one that was made later may find anything.
- *Incentives* (`MerklInv`): step `n` of the deployment comes after step `n - 1` on the
  same stack, the file is written after the last, and votes take their stack from
  the file; no step is ever taken back (`StacksGrow`).
- *Rollout* (`RolloutInv`): every count of markets that a vote or a running script
  remembers is one the Factory had (`CountsOK`); undisturbed, the market of collateral
  `c` is the `c`-th after the count of the votes, which makes a duplicate of a vote
  unexecutable (`Order`); once the old WETH market has lost its limit, all the new
  ones have one (`Switch`). `StepKinds` classifies the many steps of the chain and the
  script, so each part is shown for five kinds and not for sixteen actions.
  `SeededOnce` has an invariant of its own.

### Only model-checked

`RolloutCompletes` and `MigrationsAreRepaired`: liveness under fairness is out of reach
of the provers, as is `ENABLED`. The operators of the curve in `AMM` (`get_x0`, its
integer square root) are evaluated by TLC and not proved to approximate anything.

## Not modelled

- Of the contracts: shares and the split of value in LT (real-valued quotients and
  their clamps), the Curve pool and its refusals (the documented denial of service
  in `_distribute_borrower_fees`), LiquidityGauge, the vaults behind
  HybridVaultFactory, FastGauge and PID, the amounts of a migration (`LTMigrator`
  requires that the old market's allocation exceeds one unit: here a migration is
  the right to make it), `set_allocator` and its allowances, reentrancy (every handler
  of interest is `@nonreentrant`), gas, ERC20 and ERC721 methods, price views and
  lending oracles (formulas without state), and the vendored ERC4626.
- Of the votes: other addresses than the predicted ones in `NothingRegisteredAhead`.
  A vote that registers the zero address, which a script read too early, is let
  through, as by the code.
- Of the incentive stack: crvUSD that anyone sends to the driver, whose `reserve` is its
  balance, and the manager's `set_gains`, either of which could make a stack fail its
  verification; the rate the driver proposes, whose formula is over prices,
  and claims at Merkl.
- Of the scripts: the token launch, a linear deployment on a fresh chain; votes that
  set one number and read nothing; single-use splitters and bribes; demonstrations
  on a fork, and reports. What only prints, verifies source code on a web service or
  pins text to IPFS is left out everywhere, except that it may fail.

## What may follow

`LiquidityGauge` against an abstract emitter; the shares of LT as pure operators over
bounded inputs; `HybridVault` with several vaults on one allocation; the condition
`OnTime` of the escrow as a bound on the seconds between calls.
