------------------------------- MODULE VeBase -------------------------------
(***************************************************************************)
(* Locks of the VotingEscrow (contracts/dao/VotingEscrow.vy) and what they *)
(* weigh.  Shared by the abstract specification VeLocks and by the         *)
(* detailed module VotingEscrow.                                           *)
(***************************************************************************)
EXTENDS Integers

CONSTANTS
    Users,
    WEEK,       \* all unlock times are multiples of WEEK
    MAXTIME,    \* longest lock; not a multiple of WEEK in the contract
    MaxUint,    \* max_value(uint256): the end of an infinite lock
    Values,     \* token amounts that users deposit
    StartTime,  \* when the contracts are deployed
    MaxTime     \* bound on the clock

ASSUME VeAssumption ==
    /\ WEEK \in Nat \ {0}
    /\ MAXTIME \in Nat
    /\ MAXTIME >= WEEK
    /\ StartTime \in Nat
    /\ MaxTime \in Nat
    /\ StartTime <= MaxTime
    /\ MaxUint \in Nat
    /\ MaxUint >= MaxTime + MAXTIME + WEEK
    /\ Values \subseteq Nat

\* Times at which a lock can end, other than never.
Times == 0..(MaxTime + MAXTIME)

Lock == [amount : Nat, end : Times \cup {MaxUint}]
NoLock == [amount |-> 0, end |-> 0]

RoundToWeek(t) == (t \div WEEK) * WEEK

\* The longest lock that can be created at time t.
LongestEnd(t) == RoundToWeek(t + MAXTIME)

Live(lock, t) == lock.end > t /\ lock.amount > 0

\* The slope and the bias _checkpoint computes for a lock at time t.  Infinite
\* locks weigh their full amount and do not decay.
Slope(lock, t) ==
    IF Live(lock, t) /\ lock.end # MaxUint THEN lock.amount \div MAXTIME ELSE 0

Bias(lock, t) ==
    IF Live(lock, t) /\ lock.end = MaxUint
    THEN lock.amount
    ELSE Slope(lock, t) * (lock.end - t)
=============================================================================
