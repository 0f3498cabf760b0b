-------------------------------- MODULE AMM --------------------------------
(***************************************************************************)
(* The leveraged AMM of a Yield Basis market (contracts/AMM.vy) together   *)
(* with the handlers of its LT contract (contracts/LT.vy) that move        *)
(* stablecoins or debt.                                                    *)
(*                                                                         *)
(* The factory lends an allocation of stablecoins to the AMM.  The AMM     *)
(* hands them out as debt against LP collateral, takes them back when      *)
(* traders or withdrawing depositors repay, and charges interest on the    *)
(* debt.  Four counters that no single transaction updates together have   *)
(* to stay consistent: the AMM's stablecoin balance, `debt', `minted' /    *)
(* `redeemed' and the LT's `stablecoin_allocated'.                         *)
(*                                                                         *)
(* All handlers are atomic transactions; a require that fails, an unsigned *)
(* underflow or a division by zero reverts, so each is a guard here.       *)
(* Numbers are the contract's own integers with 10**18 replaced by WAD.    *)
(* LP tokens, shares and the price of a share belong to other modules: the *)
(* LP minted for a deposit and the fraction a withdrawal redeems are drawn *)
(* from sets.                                                              *)
(***************************************************************************)
EXTENDS Integers

CONSTANTS
    WAD,          \* 10**18, the fixed-point one
    Prices,       \* values of the LP price oracle (WAD-based)
    Amounts,      \* stablecoin and LP amounts callers use
    Fracs,        \* fractions of the pool a withdrawal redeems (WAD-based)
    Rates,        \* interest rates the admin sets, per unit of time
    Fees,         \* exchange fees the admin sets
    Limits,       \* allocation limits the admin sets
    FactoryFunds, \* stablecoins the factory starts with
    OtherFunds,   \* stablecoins of everybody else (traders, pool, users)
    Pulls,        \* amounts the mint factory takes back from the factory
    MaxTime,      \* bound on the clock
    MaxMinted,    \* bound on `minted' for new debt
    MaxDonated    \* bound on `donated'

ASSUME AMMAssumption ==
    /\ WAD \in Nat /\ WAD > 2
    /\ Prices \subseteq Nat
    /\ Prices # {}
    /\ Amounts \subseteq Nat
    /\ Fracs \subseteq 0..WAD
    /\ Rates \subseteq Nat
    /\ Fees \subseteq 0..WAD
    /\ Limits \subseteq Nat
    /\ FactoryFunds \in Nat
    /\ OtherFunds \in Nat
    /\ Pulls \subseteq Nat
    /\ MaxTime \in Nat
    /\ MaxMinted \in Nat
    /\ MaxDonated \in Nat

VARIABLES
    now,                    \* block.timestamp
    p_o,                    \* what PRICE_ORACLE_CONTRACT answers
    stable,                 \* STABLECOIN.balanceOf, by holder
    collateral_amount, debt, rate, rate_mul, rate_time,
    minted, redeemed, fee, is_killed,
    stablecoin_allocation, stablecoin_allocated,
    donated                 \* history: stablecoins sent to the AMM unasked

vars == <<now, p_o, stable, collateral_amount, debt, rate, rate_mul,
          rate_time, minted, redeemed, fee, is_killed,
          stablecoin_allocation, stablecoin_allocated, donated>>

\* What the allocation, the switches and the environment comprise; most
\* handlers leave them alone.
market == <<collateral_amount, debt, rate, rate_mul, rate_time, minted, redeemed>>
admin == <<rate, fee, is_killed>>
allocation == <<stablecoin_allocation, stablecoin_allocated>>
env == <<now, p_o>>

Holders == {"factory", "amm", "lt", "rest"}

Smaller(a, b) == IF a <= b THEN a ELSE b

\* ERC20 balances after `from' sent x to `to'.
Moved(b, from, to, x) == [b EXCEPT ![from] = @ - x, ![to] = @ + x]

-----------------------------------------------------------------------------
(***************************************************************************)
(* The curve.  LEVERAGE is 2 for every market the factory deploys.         *)
(***************************************************************************)
LEVERAGE == 2 * WAD
LEV_RATIO == (LEVERAGE * LEVERAGE * WAD) \div ((2 * LEVERAGE - WAD) * (2 * LEVERAGE - WAD))
MIN_SAFE_DEBT == (WAD * WAD * WAD) \div (4 * LEVERAGE * LEVERAGE)
MAX_SAFE_DEBT ==
    ((2 * LEVERAGE - WAD) * (2 * LEVERAGE - WAD) * WAD) \div (4 * LEVERAGE * LEVERAGE)
        - (WAD * WAD * WAD) \div (8 * LEVERAGE * LEVERAGE)

isqrt(n) == CHOOSE r \in 0..n : r * r <= n /\ n < (r + 1) * (r + 1)

ceil_div(a, b) == (a + b - 1) \div b

CollValue(p, coll) == (p * coll) \div WAD

\* D, which must not underflow.
Discriminant(p, coll, d) ==
    LET v == CollValue(p, coll) IN v * v - ((4 * v * LEV_RATIO) \div WAD) * d

get_x0(p, coll, d) ==
    LET v == CollValue(p, coll)
    IN  ((v + isqrt(Discriminant(p, coll, d))) * WAD) \div (2 * LEV_RATIO)

SafeLimits(p, coll, d) ==
    /\ d >= (CollValue(p, coll) * MIN_SAFE_DEBT) \div WAD
    /\ d <= (CollValue(p, coll) * MAX_SAFE_DEBT) \div WAD

\* The value of the whole AMM that _deposit and value_oracle report.
Value(x0) == (x0 * WAD) \div (2 * LEVERAGE - WAD)

-----------------------------------------------------------------------------
(***************************************************************************)
(* Interest                                                                *)
(***************************************************************************)

RateMul == (rate_mul * (WAD + rate * (now - rate_time))) \div WAD

Debt == (debt * RateMul) \div rate_mul

\* The interest _collect_fees moves to the LT contract: everything charged and
\* not yet collected, or as much of it as the AMM's balance can pay.
CollectableFees(d, m, r, balance) ==
    IF d + r > m THEN Smaller(d + r - m, balance) ELSE 0

\* _debt_w: the rate is compounded into rate_mul at each touch.
AccrueRate ==
    /\ rate_mul' = RateMul
    /\ rate_time' = now

-----------------------------------------------------------------------------
(***************************************************************************)
(* Exchange.  Outcome of a trade on the curve: what goes out, and the debt *)
(* and collateral that remain.                                             *)
(***************************************************************************)
BuyOut(x_initial, in) ==
    ((collateral_amount - ceil_div(x_initial * collateral_amount, x_initial + in))
        * (WAD - fee)) \div WAD

SellOut(x_initial, in) ==
    ((x_initial - ceil_div(x_initial * collateral_amount, collateral_amount + in))
        * (WAD - fee)) \div WAD

\* coll_vs_debt, with no debt counting as an infinite ratio: is (c1, d1) a
\* strictly smaller ratio than (c2, d2)?
RatioBelow(c1, d1, c2, d2) ==
    IF d1 = 0 THEN FALSE
    ELSE IF d2 = 0 THEN TRUE
    ELSE (p_o * c1) \div d1 < (p_o * c2) \div d2

AboveEquilibrium(c, d) == d = 0 \/ (p_o * c) \div d > 2 * WAD

\* The trade moved the pool towards the equilibrium ratio 2.
Improved(c, d) ==
    IF AboveEquilibrium(c, d)
    THEN RatioBelow(c, d, collateral_amount, Debt)
    ELSE RatioBelow(collateral_amount, Debt, c, d)

\* "Bad final state" and "Unsafe min" / "Unsafe max".
GoodFinalState(c, d, x0) ==
    /\ ~Improved(c, d) => SafeLimits(p_o, c, d)
    /\ Discriminant(p_o, c, d) >= 0
    /\ get_x0(p_o, c, d) >= x0

\* _collect_fees followed by _distribute_borrower_fees, which ends every trade,
\* deposit and withdrawal: interest goes through the LT contract into the pool,
\* with whatever the LT contract held before.
Settle(balances, c, d, m, r) ==
    LET fees == CollectableFees(d, m, r, balances["amm"])
        collected == Moved(balances, "amm", "lt", fees)
    IN  /\ stable' = Moved(collected, "lt", "rest", collected["lt"])
        /\ collateral_amount' = c
        /\ debt' = d
        /\ minted' = m + fees
        /\ redeemed' = r
        /\ AccrueRate
        /\ UNCHANGED <<admin, allocation, env, donated>>

\* exchange(0, 1): a trader repays debt and receives LP collateral.
ExchangeBuy(in) ==
    /\ ~is_killed
    /\ collateral_amount > 0
    /\ Discriminant(p_o, collateral_amount, Debt) >= 0
    /\ LET x0 == get_x0(p_o, collateral_amount, Debt)
           x_initial == x0 - Debt
           out == BuyOut(x_initial, in)
       IN  /\ x_initial >= 0
           /\ x_initial + in > 0
           /\ out >= 0
           /\ in <= Debt
           /\ in <= stable["rest"]
           /\ GoodFinalState(collateral_amount - out, Debt - in, x0)
           /\ Settle(Moved(stable, "rest", "amm", in),
                             collateral_amount - out, Debt - in, minted, redeemed + in)

\* exchange(1, 0): a trader deposits LP collateral and receives new debt.
ExchangeSell(in) ==
    /\ ~is_killed
    /\ collateral_amount > 0
    /\ Discriminant(p_o, collateral_amount, Debt) >= 0
    /\ LET x0 == get_x0(p_o, collateral_amount, Debt)
           x_initial == x0 - Debt
           out == SellOut(x_initial, in)
       IN  /\ x_initial >= 0
           /\ out >= 0
           /\ out <= stable["amm"]
           /\ minted + out <= MaxMinted
           /\ GoodFinalState(collateral_amount + in, Debt + out, x0)
           /\ Settle(Moved(stable, "amm", "rest", out),
                             collateral_amount + in, Debt + out, minted + out, redeemed)

-----------------------------------------------------------------------------
(***************************************************************************)
(* Handlers of the LT contract and of the AMM that move debt or            *)
(* stablecoins.                                                            *)
(***************************************************************************)
\* LT.deposit: the AMM's stablecoins and the user's assets become LP for the
\* AMM.  No deposit may leave the AMM worth more than half of its stablecoins.
\* (When there are shares, LT.deposit also values the pool as it was before and
\* fails where the curve has no solution; shares are not modelled, so such a
\* deposit is allowed here.)
Deposit(d_debt, d_collateral) ==
    /\ ~is_killed
    /\ d_debt <= stable["amm"]
    /\ minted + d_debt <= MaxMinted
    /\ LET d == Debt + d_debt
           c == collateral_amount + d_collateral
       IN  /\ SafeLimits(p_o, c, d)
           /\ Discriminant(p_o, c, d) >= 0
           /\ (stable["amm"] - d_debt + d) \div 2 >= Value(get_x0(p_o, c, d))
           /\ Settle(Moved(stable, "amm", "rest", d_debt),
                         c, d, minted + d_debt, redeemed)

\* Mutants of the two roundings.
WithdrawnCollateral_RoundedUp(frac) == ceil_div(collateral_amount * frac, WAD)
WithdrawnDebt_RoundedDown(frac) == (Debt * frac) \div WAD

\* What AMM._withdraw takes out for a fraction of the pool: the collateral is
\* rounded down, the debt to be repaid is rounded up.
WithdrawnCollateral(frac) == (collateral_amount * frac) \div WAD
WithdrawnDebt(frac) == ceil_div(Debt * frac, WAD)

\* LT.withdraw: the debt is repaid out of the liquidity removed from the pool.
\* It values the pool first, which fails where the curve has no solution.
Withdraw(frac) ==
    LET d_debt == WithdrawnDebt(frac)
    IN  /\ ~is_killed
        /\ Discriminant(p_o, collateral_amount, Debt) >= 0
        /\ d_debt <= Debt
        /\ d_debt <= stable["rest"]
        /\ Settle(Moved(stable, "rest", "amm", d_debt),
                      collateral_amount - WithdrawnCollateral(frac),
                      Debt - d_debt, minted, redeemed + d_debt)

\* Mutant: the repaid debt is not booked as redeemed.
EmergencyWithdraw_NotBooked(frac) ==
    LET d_debt == WithdrawnDebt(frac)
    IN  /\ d_debt <= Debt
        /\ d_debt <= stable["rest"]
        /\ stable' = Moved(stable, "rest", "amm", d_debt)
        /\ collateral_amount' = collateral_amount - WithdrawnCollateral(frac)
        /\ debt' = Debt - d_debt
        /\ AccrueRate
        /\ UNCHANGED <<minted, redeemed, admin, allocation, env, donated>>

\* LT.emergency_withdraw: the same exit without collecting fees, killed or not.
EmergencyWithdraw(frac) ==
    LET d_debt == WithdrawnDebt(frac)
    IN  /\ d_debt <= Debt
        /\ d_debt <= stable["rest"]
        /\ stable' = Moved(stable, "rest", "amm", d_debt)
        /\ collateral_amount' = collateral_amount - WithdrawnCollateral(frac)
        /\ debt' = Debt - d_debt
        /\ redeemed' = redeemed + d_debt
        /\ AccrueRate
        /\ UNCHANGED <<minted, admin, allocation, env, donated>>

\* Mutant: the collected interest is not booked as minted.
CollectFees_NotBooked ==
    LET fees == CollectableFees(Debt, minted, redeemed, stable["amm"])
    IN  /\ ~is_killed
        /\ stable' = Moved(stable, "amm", "lt", fees)
        /\ debt' = Debt
        /\ AccrueRate
        /\ UNCHANGED <<minted, collateral_amount, redeemed, admin, allocation, env,
                       donated>>

\* AMM.collect_fees, callable by anyone: the interest stays with the LT.
CollectFees ==
    LET fees == CollectableFees(Debt, minted, redeemed, stable["amm"])
    IN  /\ ~is_killed
        /\ stable' = Moved(stable, "amm", "lt", fees)
        /\ debt' = Debt
        /\ minted' = minted + fees
        /\ AccrueRate
        /\ UNCHANGED <<collateral_amount, redeemed, admin, allocation, env, donated>>

\* LT.distribute_borrower_fees, callable by anyone.
DistributeBorrowerFees ==
    /\ ~is_killed
    /\ Settle(stable, collateral_amount, Debt, minted, redeemed)

\* LT.set_rate by the admin: the debt is brought up to date first.
SetRate(r) ==
    /\ debt' = Debt
    /\ AccrueRate
    /\ rate' = r
    /\ UNCHANGED <<stable, collateral_amount, minted, redeemed, fee, is_killed,
                   allocation, env, donated>>

SetFee(f) ==
    /\ fee' = f
    /\ UNCHANGED <<market, stable, is_killed, allocation, env, donated>>

SetKilled(k) ==
    /\ is_killed' = k
    /\ UNCHANGED <<market, stable, fee, allocation, env, donated>>

-----------------------------------------------------------------------------
(***************************************************************************)
(* LT.allocate_stablecoins.  The admin names a limit, anyone else moves the *)
(* AMM's funds towards the limit last named.                               *)
(***************************************************************************)
\* The stablecoins the AMM must keep: 3/4 of the value of its collateral.
SafeLowerLimit == ((p_o * collateral_amount * 3) \div 4) \div WAD

Allocate(limit) ==
    /\ limit > stablecoin_allocated
    /\ LET x == Smaller(limit - stablecoin_allocated, stable["factory"])
       IN  /\ stable' = Moved(stable, "factory", "amm", x)
           /\ stablecoin_allocated' = stablecoin_allocated + x

\* Mutant: the safe lower limit is ignored.
Deallocate_Unreserved(limit) ==
    /\ limit < stablecoin_allocated
    /\ LET x == Smaller(stablecoin_allocated - limit, stable["amm"])
       IN  /\ stable' = Moved(stable, "amm", "factory", x)
           /\ stablecoin_allocated' = stablecoin_allocated - x

Deallocate(limit) ==
    /\ limit < stablecoin_allocated
    /\ SafeLowerLimit <= stablecoin_allocated
    /\ LET x == Smaller(Smaller(stablecoin_allocated - limit,
                                stablecoin_allocated - SafeLowerLimit),
                        stable["amm"])
       IN  /\ stable' = Moved(stable, "amm", "factory", x)
           /\ stablecoin_allocated' = stablecoin_allocated - x

KeepAllocated(limit) ==
    /\ limit = stablecoin_allocated
    /\ UNCHANGED <<stable, stablecoin_allocated>>

AllocateTowards(limit) ==
    /\ Allocate(limit) \/ Deallocate(limit) \/ KeepAllocated(limit)
    /\ UNCHANGED <<market, fee, is_killed, env, donated>>

AllocateStablecoinsAdmin(limit) ==
    /\ stablecoin_allocation' = limit
    /\ AllocateTowards(limit)

AllocateStablecoins ==
    /\ AllocateTowards(stablecoin_allocation)
    /\ UNCHANGED stablecoin_allocation

-----------------------------------------------------------------------------
(***************************************************************************)
(* The environment: the clock, the oracle, and ERC20 transfers that bypass *)
(* the contracts.                                                          *)
(***************************************************************************)
Tick ==
    /\ now < MaxTime
    /\ now' = now + 1
    /\ UNCHANGED <<p_o, stable, market, fee, is_killed, allocation, donated>>

PriceMoves(p) ==
    /\ p_o' = p
    /\ UNCHANGED <<now, stable, market, fee, is_killed, allocation, donated>>

Donate(x) ==
    /\ x <= stable["rest"]
    /\ donated + x <= MaxDonated
    /\ stable' = Moved(stable, "rest", "amm", x)
    /\ donated' = donated + x
    /\ UNCHANGED <<market, fee, is_killed, allocation, env>>

\* The crvUSD mint factory holds an unlimited approval on the factory's funds.
TakeBackFunds(x) ==
    /\ x <= stable["factory"]
    /\ stable' = Moved(stable, "factory", "rest", x)
    /\ UNCHANGED <<market, fee, is_killed, allocation, env, donated>>

-----------------------------------------------------------------------------
Init ==
    /\ now = 0
    /\ p_o \in Prices
    /\ stable = [h \in Holders |-> IF h = "factory" THEN FactoryFunds
                                   ELSE IF h = "rest" THEN OtherFunds ELSE 0]
    /\ collateral_amount = 0
    /\ debt = 0
    /\ rate = 0
    /\ rate_mul = WAD
    /\ rate_time = 0
    /\ minted = 0
    /\ redeemed = 0
    /\ fee \in Fees
    /\ is_killed = FALSE
    /\ stablecoin_allocation = 0
    /\ stablecoin_allocated = 0
    /\ donated = 0

Trade == \E in \in Amounts : ExchangeBuy(in) \/ ExchangeSell(in)

Governance ==
    \/ \E r \in Rates : SetRate(r)
    \/ \E f \in Fees : SetFee(f)
    \/ \E k \in BOOLEAN : SetKilled(k)
    \/ \E l \in Limits : AllocateStablecoinsAdmin(l)

Environment ==
    \/ Tick
    \/ \E p \in Prices : PriceMoves(p)
    \/ \E x \in Amounts : Donate(x)
    \/ \E x \in Pulls : TakeBackFunds(x)

Next ==
    \/ Trade
    \/ \E d, c \in Amounts : Deposit(d, c)
    \/ \E f \in Fracs : Withdraw(f) \/ EmergencyWithdraw(f)
    \/ CollectFees
    \/ DistributeBorrowerFees
    \/ AllocateStablecoins
    \/ Governance
    \/ Environment

Spec == Init /\ [][Next]_vars

-----------------------------------------------------------------------------
(***************************************************************************)
(* Properties                                                              *)
(***************************************************************************)
TypeOK ==
    /\ now \in 0..MaxTime
    /\ p_o \in Prices
    /\ stable \in [Holders -> Nat]
    /\ collateral_amount \in Nat
    /\ debt \in Nat
    /\ rate \in Nat
    /\ rate_mul \in Nat \ {0}
    /\ rate_time \in 0..now
    /\ minted \in Nat
    /\ redeemed \in Nat
    /\ fee \in Fees
    /\ is_killed \in BOOLEAN
    /\ stablecoin_allocation \in Nat
    /\ stablecoin_allocated \in Nat
    /\ donated \in Nat

(* Every stablecoin the factory allocated is either still in the AMM or was
   handed out as debt or collected interest and is on the books as minted but
   not redeemed; every handler of AMM.vy and LT.vy moves its tokens and its
   counters by the same amount. *)
AllocationConserved ==
    stable["amm"] + minted - redeemed = stablecoin_allocated + donated

(* What borrowers owe never falls below what the AMM has minted and not got
   back, whatever the order of trades, rate changes and partial collections:
   _collect_fees and accumulated_interest read the difference as interest. *)
InterestNonNegative == Debt + redeemed >= minted

(* Cash and debt of the AMM together always cover the factory's allocation:
   collecting interest never pays out of the allocation. *)
AllocationRecoverable == stable["amm"] + Debt >= stablecoin_allocated

(* An AMM without collateral has no debt: no sequence of trades, rounded
   withdrawals and accruals leaves a debt that nothing backs. *)
DebtHasCollateral == collateral_amount = 0 => debt = 0

(* A withdrawal, rounded as AMM._withdraw does, never leaves the remaining
   depositors with more debt per unit of collateral than they had. *)
WithdrawalIsFair ==
    [][(\E f \in Fracs : Withdraw(f) \/ EmergencyWithdraw(f))
        => debt' * collateral_amount <= Debt * collateral_amount']_vars

(* Reducing the allocation leaves the AMM, after cash and debt are counted,
   with the 3/4 of its collateral's value that allocate_stablecoins calls
   the safe lower limit. *)
DeallocationKeepsReserve ==
    [][stablecoin_allocated' < stablecoin_allocated
        => (stable["amm"] + Debt)' >= SafeLowerLimit']_vars

=============================================================================
