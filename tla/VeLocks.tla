------------------------------ MODULE VeLocks -------------------------------
(***************************************************************************)
(* What the VotingEscrow promises: every user has at most one lock, and    *)
(* their votes are the weight of that lock now.  No histories, no slopes   *)
(* that have to be unwound.  Module VotingEscrow implements it, module     *)
(* GaugeController builds on it.                                           *)
(***************************************************************************)
EXTENDS VeBase

VARIABLES
    now,     \* block.timestamp
    locked,  \* lock of each user
    votes    \* getVotes of each user

veVars == <<now, locked, votes>>

Weighed(locks, t) == [u \in Users |-> Bias(locks[u], t)]

\* Every operation leaves votes in step with the locks.
Becomes(locks) ==
    /\ locked' = locks
    /\ votes' = Weighed(locks, now)
    /\ UNCHANGED now

\* Deposits are rounded down to multiples of MAXTIME.
Rounded(value) == (value \div MAXTIME) * MAXTIME

CreateLock(u, value, unlock_time) ==
    /\ value >= MAXTIME
    /\ locked[u].amount = 0
    /\ RoundToWeek(unlock_time) > now
    /\ RoundToWeek(unlock_time) <= now + MAXTIME
    /\ Becomes([locked EXCEPT ![u] = [amount |-> Rounded(value),
                                      end |-> RoundToWeek(unlock_time)]])

IncreaseAmount(u, value) ==
    /\ value >= MAXTIME
    /\ Live(locked[u], now)
    /\ Becomes([locked EXCEPT ![u].amount = @ + Rounded(value)])

IncreaseUnlockTime(u, unlock_time) ==
    /\ Live(locked[u], now)
    /\ RoundToWeek(unlock_time) > locked[u].end
    /\ RoundToWeek(unlock_time) <= now + MAXTIME
    /\ Becomes([locked EXCEPT ![u].end = RoundToWeek(unlock_time)])

InfiniteLockToggle(u) ==
    /\ Live(locked[u], now)
    /\ Becomes([locked EXCEPT ![u].end = IF @ = MaxUint THEN LongestEnd(now) ELSE MaxUint])

Withdraw(u) ==
    /\ locked[u].amount > 0
    /\ now >= locked[u].end
    /\ Becomes([locked EXCEPT ![u] = NoLock])

\* A lock of maximal length moves into another of the same end.
IsLongest(end) == end = MaxUint \/ RoundToWeek(end) = LongestEnd(now)

CanMerge(owner, to) ==
    /\ owner # to
    /\ IsLongest(locked[owner].end)
    /\ IsLongest(locked[to].end)
    /\ RoundToWeek(locked[owner].end) = RoundToWeek(locked[to].end)

Transfer(owner, to) ==
    /\ locked[owner].amount > 0
    /\ CanMerge(owner, to)
    /\ Becomes([locked EXCEPT ![owner] = NoLock,
                              ![to].amount = @ + locked[owner].amount])

Tick ==
    /\ now < MaxTime
    /\ now' = now + 1
    /\ votes' = Weighed(locked, now + 1)
    /\ UNCHANGED locked

VeInit ==
    /\ now = StartTime
    /\ locked = [u \in Users |-> NoLock]
    /\ votes = [u \in Users |-> 0]

Locking(u) ==
    \/ \E v \in Values, t \in Times : CreateLock(u, v, t)
    \/ \E v \in Values : IncreaseAmount(u, v)
    \/ \E t \in Times : IncreaseUnlockTime(u, t)

VeNext ==
    \/ \E u \in Users : Locking(u) \/ InfiniteLockToggle(u) \/ Withdraw(u)
    \/ \E owner, to \in Users : Transfer(owner, to)
    \/ Tick

VeSpec == VeInit /\ [][VeNext]_veVars
=============================================================================
