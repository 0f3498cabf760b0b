---------------------------- MODULE VestingEscrow ----------------------------
(***************************************************************************)
(* contracts/dao/VestingEscrow.vy: the owner funds accounts with tokens    *)
(* that vest linearly, may disable an account, which freezes what it has   *)
(* vested, and may take the rest away.  A recipient funded with a cliff    *)
(* gets a CliffEscrow contract, which is funded in their place; what that  *)
(* contract lets out is the subject of module CliffEscrow.                 *)
(***************************************************************************)
EXTENDS Integers, Sums

CONSTANTS
    Users,
    Cliffs,      \* addresses of cliff escrows
    CliffOf,     \* the cliff escrow that fund creates for a user
    START_TIME,
    END_TIME,
    Amounts,     \* of tokens added and of allocations
    StartTime,   \* when the contract is deployed
    MaxTime,     \* bound on the clock
    MaxAdded     \* bound on what the owner adds

ASSUME VestingAssumption ==
    /\ IsFiniteSet(Users)
    /\ IsFiniteSet(Cliffs)
    /\ Users \cap Cliffs = {}
    /\ CliffOf \in [Users -> Cliffs]
    /\ \A u, v \in Users : CliffOf[u] = CliffOf[v] => u = v
    /\ {START_TIME, END_TIME, StartTime, MaxTime, MaxAdded} \subseteq Nat
    /\ 0 < StartTime
    /\ StartTime <= START_TIME
    /\ START_TIME < END_TIME
    /\ StartTime <= MaxTime
    /\ Amounts \subseteq Nat

Accounts == Users \cup Cliffs

VARIABLES
    now,                   \* block.timestamp
    balance,               \* TOKEN held by the contract
    unallocated_supply,
    initial_locked_supply,
    initial_locked,        \* by account
    total_claimed,         \* by account
    has_cliff,             \* users with a recipient_to_cliff
    can_disable,
    disabled_at,           \* by account, 0 if enabled
    disabled_amounts,      \* by account
    disabled_total,
    disabled_rugged        \* by account

supplyVars == <<balance, unallocated_supply, initial_locked_supply>>
accountVars == <<initial_locked, total_claimed, has_cliff>>
disableVars == <<disabled_at, disabled_amounts, disabled_total, disabled_rugged>>
vars == <<now, supplyVars, accountVars, can_disable, disableVars>>

Smaller(a, b) == IF a <= b THEN a ELSE b

\* _total_vested_of
Vested(locked, t) ==
    IF t < START_TIME THEN 0
    ELSE Smaller((locked * (t - START_TIME)) \div (END_TIME - START_TIME), locked)

\* Mutant: a disabled account has vested nothing.
VestingTime_Disabled(r) == IF disabled_at[r] = 0 THEN now ELSE 0

\* The time up to which an account vests.
VestingTime(r) == IF disabled_at[r] = 0 THEN now ELSE disabled_at[r]

VestedOf(r) == Vested(initial_locked[r], VestingTime(r))

-----------------------------------------------------------------------------
AddTokens(amount) ==
    /\ unallocated_supply + initial_locked_supply + amount <= MaxAdded
    /\ unallocated_supply' = unallocated_supply + amount
    /\ balance' = balance + amount
    /\ UNCHANGED <<now, initial_locked_supply, accountVars, can_disable, disableVars>>

MayFund(r) == ~disabled_rugged[r] /\ disabled_at[r] = 0

\* fund, for one recipient: a batch is a sequence of these, and reverts where
\* one of them does.  With a cliff time in the future, a cliff escrow is created
\* and funded in place of the recipient, once.
Fund(recipient, amount, with_cliff) ==
    LET funded == IF with_cliff THEN CliffOf[recipient] ELSE recipient
    IN  /\ with_cliff => recipient \in Users \ has_cliff
        /\ MayFund(funded)
        /\ amount <= unallocated_supply
        /\ initial_locked' = [initial_locked EXCEPT ![funded] = @ + amount]
        /\ initial_locked_supply' = initial_locked_supply + amount
        /\ unallocated_supply' = unallocated_supply - amount
        /\ has_cliff' = IF with_cliff THEN has_cliff \cup {recipient} ELSE has_cliff
        /\ UNCHANGED <<now, balance, total_claimed, can_disable, disableVars>>

\* Mutant: what has vested and was not claimed is taken as well.
LockedOf_Claimed(r) == initial_locked[r] - total_claimed[r]

\* What is taken from an account that is disabled now.
LockedOf(r) == initial_locked[r] - Vested(initial_locked[r], now)

Disable(r) ==
    /\ can_disable
    /\ ~disabled_rugged[r]
    /\ disabled_at[r] = 0
    /\ disabled_at' = [disabled_at EXCEPT ![r] = now]
    /\ disabled_amounts' = [disabled_amounts EXCEPT ![r] = LockedOf(r)]
    /\ disabled_total' = disabled_total + LockedOf(r)
    /\ UNCHANGED <<now, supplyVars, accountVars, can_disable, disabled_rugged>>

MayEnable(r) == ~disabled_rugged[r] /\ disabled_at[r] # 0

Enable(r) ==
    /\ can_disable
    /\ MayEnable(r)
    /\ disabled_amounts[r] <= disabled_total
    /\ disabled_at' = [disabled_at EXCEPT ![r] = 0]
    /\ disabled_total' = disabled_total - disabled_amounts[r]
    /\ disabled_amounts' = [disabled_amounts EXCEPT ![r] = 0]
    /\ UNCHANGED <<now, supplyVars, accountVars, can_disable, disabled_rugged>>

\* Mutant: tokens can be taken from an account more than once.
MayRug_Again(r) == disabled_at[r] # 0

MayRug(r) == disabled_at[r] # 0 /\ ~disabled_rugged[r]

\* rug_disabled: the tokens leave; nothing to take leaves the account as it is.
RugDisabled(r) ==
    LET remainder == disabled_amounts[r]
    IN  /\ MayRug(r)
        /\ remainder <= balance
        /\ balance' = balance - remainder
        /\ disabled_rugged' = [disabled_rugged EXCEPT ![r] = @ \/ remainder > 0]
        /\ UNCHANGED <<now, unallocated_supply, initial_locked_supply, accountVars,
                       can_disable, disabled_at, disabled_amounts, disabled_total>>

DisableCanDisable ==
    /\ can_disable' = FALSE
    /\ UNCHANGED <<now, supplyVars, accountVars, disableVars>>

\* claim, callable by anyone for any account.
Claim(r) ==
    LET claimable == VestedOf(r) - total_claimed[r]
    IN  /\ claimable >= 0
        /\ claimable <= balance
        /\ total_claimed' = [total_claimed EXCEPT ![r] = @ + claimable]
        /\ balance' = balance - claimable
        /\ UNCHANGED <<now, unallocated_supply, initial_locked_supply, initial_locked,
                       has_cliff, can_disable, disableVars>>

Tick ==
    /\ now < MaxTime
    /\ now' = now + 1
    /\ UNCHANGED <<supplyVars, accountVars, can_disable, disableVars>>

Init ==
    /\ now = StartTime
    /\ balance = 0
    /\ unallocated_supply = 0
    /\ initial_locked_supply = 0
    /\ initial_locked = [r \in Accounts |-> 0]
    /\ total_claimed = [r \in Accounts |-> 0]
    /\ has_cliff = {}
    /\ can_disable \in BOOLEAN
    /\ disabled_at = [r \in Accounts |-> 0]
    /\ disabled_amounts = [r \in Accounts |-> 0]
    /\ disabled_total = 0
    /\ disabled_rugged = [r \in Accounts |-> FALSE]

Next ==
    \/ \E amount \in Amounts : AddTokens(amount)
    \/ \E r \in Accounts, amount \in Amounts, c \in BOOLEAN : Fund(r, amount, c)
    \/ \E r \in Accounts : Disable(r) \/ Enable(r) \/ RugDisabled(r) \/ Claim(r)
    \/ DisableCanDisable
    \/ Tick

Spec == Init /\ [][Next]_vars

-----------------------------------------------------------------------------
(***************************************************************************)
(* Properties                                                              *)
(***************************************************************************)
\* What the owner has taken away from an account.
Rugged(r) == IF disabled_rugged[r] THEN disabled_amounts[r] ELSE 0

TypeOK ==
    /\ now \in StartTime..MaxTime
    /\ {balance, unallocated_supply, initial_locked_supply, disabled_total} \subseteq Nat
    /\ initial_locked \in [Accounts -> Nat]
    /\ total_claimed \in [Accounts -> Nat]
    /\ has_cliff \subseteq Users
    /\ can_disable \in BOOLEAN
    /\ disabled_at \in [Accounts -> 0..now]
    /\ disabled_amounts \in [Accounts -> Nat]
    /\ disabled_rugged \in [Accounts -> BOOLEAN]

(* What an account has claimed has vested for it, so that claim never
   reverts, through disabling, enabling and funding; and together with what
   was taken away it is within what the account was given: nobody is paid
   from the tokens of others. *)
WithinAllocation ==
    \A r \in Accounts : /\ total_claimed[r] <= VestedOf(r)
                        /\ VestedOf(r) + Rugged(r) <= initial_locked[r]

(* The contract holds what it still owes and what is not allocated. *)
Solvent ==
    balance = unallocated_supply
                + Total([r \in Accounts |-> initial_locked[r] - total_claimed[r] - Rugged(r)])

(* The docstring of toggle_disable: "It is not possible to block the claim of
   tokens which have already vested."  Nothing that has vested for an account
   ever ceases to. *)
VestedStaysVested == [][\A r \in Accounts : VestedOf(r)' >= VestedOf(r)]_vars
=============================================================================
