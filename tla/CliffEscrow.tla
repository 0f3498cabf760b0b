----------------------------- MODULE CliffEscrow -----------------------------
(***************************************************************************)
(* contracts/dao/CliffEscrow.vy: an account of the VotingEscrow that holds *)
(* the vested YB of a recipient.  The recipient may lock and vote with the *)
(* tokens at once, and take them out after the cliff.  The locks are those *)
(* of module VeLocks, in which the contract is one of the users.           *)
(***************************************************************************)
EXTENDS VeLocks

CONSTANTS
    Cliff,         \* the contract as a user of the VotingEscrow
    UnlockTimes,   \* cliff times the contract may be initialized with
    Amounts,       \* of YB that arrives, is sent or approved
    MaxReceived    \* bound on what the contract receives

ASSUME CliffAssumption ==
    /\ Cliff \in Users
    /\ UnlockTimes \subseteq Nat
    /\ \A t \in UnlockTimes : t > StartTime
    /\ Amounts \subseteq Nat
    /\ MaxReceived \in Nat

VARIABLES
    unlock_time,
    yb,         \* YB balance of the contract
    allowance,  \* of YB, other than that of the VotingEscrow
    received    \* YB and locks that were ever sent to the contract

cliffVars == <<unlock_time, allowance>>
cliffEscrowVars == <<veVars, cliffVars, yb, received>>

CliffIsOver == now >= unlock_time

-----------------------------------------------------------------------------
(***************************************************************************)
(* What the recipient does with the lock.  The VotingEscrow has the        *)
(* contract's unlimited approval and takes what it locks.                  *)
(***************************************************************************)

PaidFromBalance ==
    /\ locked'[Cliff].amount - locked[Cliff].amount <= yb
    /\ yb' = yb + locked[Cliff].amount - locked'[Cliff].amount
    /\ UNCHANGED <<cliffVars, received>>

LockTokens == Locking(Cliff) /\ PaidFromBalance

ToggleLock == InfiniteLockToggle(Cliff) /\ PaidFromBalance

\* VE.withdraw pays to the contract.
WithdrawLock == Withdraw(Cliff) /\ PaidFromBalance

\* Mutant: the NFT can be sent away at any time.
TransferLock_NoCliff(to) ==
    /\ Transfer(Cliff, to)
    /\ UNCHANGED <<cliffVars, yb, received>>

\* transferFrom of the contract's own NFT.
TransferLock(to) ==
    /\ CliffIsOver
    /\ Transfer(Cliff, to)
    /\ UNCHANGED <<cliffVars, yb, received>>

-----------------------------------------------------------------------------
(***************************************************************************)
(* What leaves as tokens                                                   *)
(***************************************************************************)
\* transfer, by the recipient to anyone or by anyone to the recipient.
TransferTokens(amount) ==
    /\ CliffIsOver
    /\ amount <= yb
    /\ yb' = yb - amount
    /\ UNCHANGED <<veVars, cliffVars, received>>

Approve(amount) ==
    /\ CliffIsOver
    /\ allowance' = amount
    /\ UNCHANGED <<veVars, unlock_time, yb, received>>

\* Whom the recipient has approved takes tokens.
TakeApproved(amount) ==
    /\ amount <= allowance
    /\ amount <= yb
    /\ allowance' = allowance - amount
    /\ yb' = yb - amount
    /\ UNCHANGED <<veVars, unlock_time, received>>

-----------------------------------------------------------------------------
(***************************************************************************)
(* The environment                                                         *)
(***************************************************************************)
\* Tokens arrive: claims of the VestingEscrow and transfers by anyone.
ReceiveYB(amount) ==
    /\ received + amount <= MaxReceived
    /\ yb' = yb + amount
    /\ received' = received + amount
    /\ UNCHANGED <<veVars, cliffVars>>

\* Other users lock, and may merge their lock into the contract's.
OthersLock(u) ==
    /\ Locking(u) \/ InfiniteLockToggle(u) \/ Withdraw(u)
    /\ locked'[u].amount <= MaxReceived
    /\ UNCHANGED <<cliffVars, yb, received>>

OthersTransfer(owner, to) ==
    /\ received + locked[owner].amount <= MaxReceived
    /\ Transfer(owner, to)
    /\ received' = received + (IF to = Cliff THEN locked[owner].amount ELSE 0)
    /\ UNCHANGED <<cliffVars, yb>>

CliffInit ==
    /\ VeInit
    /\ unlock_time \in UnlockTimes
    /\ yb = 0
    /\ allowance = 0
    /\ received = 0

CliffNext ==
    \/ LockTokens
    \/ ToggleLock
    \/ WithdrawLock
    \/ \E to \in Users : TransferLock(to)
    \/ \E amount \in Amounts : TransferTokens(amount) \/ Approve(amount)
                                 \/ TakeApproved(amount) \/ ReceiveYB(amount)
    \/ \E u \in Users \ {Cliff} : OthersLock(u) \/ \E to \in Users : OthersTransfer(u, to)
    \/ Tick /\ UNCHANGED <<cliffVars, yb, received>>

CliffSpec == CliffInit /\ [][CliffNext]_cliffEscrowVars

-----------------------------------------------------------------------------
(***************************************************************************)
(* Properties                                                              *)
(***************************************************************************)
CliffTypeOK ==
    /\ now \in StartTime..MaxTime
    /\ locked \in [Users -> Lock]
    /\ unlock_time \in UnlockTimes
    /\ {yb, allowance, received} \subseteq Nat

(* Until the cliff is over everything that was ever sent to the contract is
   in it or in its lock: locking, extending, toggling, expiry, withdrawal and
   merging let nothing out. *)
NothingLeavesBeforeCliff ==
    ~CliffIsOver => yb + locked[Cliff].amount = received
=============================================================================
