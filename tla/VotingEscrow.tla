---------------------------- MODULE VotingEscrow ----------------------------
(***************************************************************************)
(* contracts/dao/VotingEscrow.vy: vote-escrowed tokens whose weight decays *)
(* linearly.  The total weight is kept as one line (bias, slope) that is   *)
(* carried forward week by week, with the slope changes that expiring      *)
(* locks will bring scheduled in advance; histories of the total and of    *)
(* every user answer questions about the past.                             *)
(*                                                                         *)
(* Epochs are indices of histories that start at 0 in the contract and at  *)
(* 1 here.  The transfer clearance checker is not set in this module.      *)
(***************************************************************************)
EXTENDS VeBase, Sums, Sequences, SequencesExt

CONSTANTS
    Funds,             \* tokens each user starts with
    CHECKPOINT_WEEKS,  \* weeks a loop over weeks can cover: 255
    MaxEpoch           \* bound on the length of point_history

ASSUME EscrowAssumption ==
    /\ IsFiniteSet(Users)
    /\ Funds \in Nat
    /\ CHECKPOINT_WEEKS \in Nat \ {0}
    /\ MaxEpoch \in Nat

VARIABLES
    now,                 \* block.timestamp
    locked, supply,
    nft,                 \* users whose token id exists
    wallet,              \* TOKEN.balanceOf, by user
    held,                \* TOKEN.balanceOf(self)
    point_history,       \* point_history[1..epoch+1]
    user_point_history,  \* by user, [1..user_point_epoch+1]
    slope_changes

vars == <<now, locked, supply, nft, wallet, held, point_history,
          user_point_history, slope_changes>>

NoPoint == [bias |-> 0, slope |-> 0, ts |-> 0]

Positive(n) == IF n > 0 THEN n ELSE 0

ceil_div(a, b) == (a + b - 1) \div b

-----------------------------------------------------------------------------
(***************************************************************************)
(* _checkpoint                                                             *)
(***************************************************************************)
\* A point carried forward to time t, where the slope changes by d_slope.
Carried(point, t, d_slope) ==
    [bias |-> Positive(point.bias - point.slope * (t - point.ts)),
     slope |-> Positive(point.slope + d_slope),
     ts |-> t]

LastPoint ==
    IF Len(point_history) > 1 THEN Last(point_history) ELSE [NoPoint EXCEPT !.ts = now]

\* Mutant: a slope change due at this very moment is missed.
Walk_MissesNow ==
    LET start == RoundToWeek(LastPoint.ts)
        weeks == Min({Max({ceil_div(now - start, WEEK), 1}), CHECKPOINT_WEEKS})
        point[k \in 0..weeks] ==
            IF k = 0 THEN LastPoint
            ELSE LET t == start + k * WEEK
                 IN  IF t >= now THEN Carried(point[k - 1], now, 0)
                     ELSE Carried(point[k - 1], t, slope_changes[t])
    IN  [k \in 1..weeks |-> point[k]]

\* The points _checkpoint passes on its way from the last point to now: one at
\* each beginning of a week, and now.
Walk ==
    LET start == RoundToWeek(LastPoint.ts)
        weeks == Min({Max({ceil_div(now - start, WEEK), 1}), CHECKPOINT_WEEKS})
        point[k \in 0..weeks] ==
            IF k = 0 THEN LastPoint
            ELSE LET t == start + k * WEEK
                 IN  IF t > now THEN Carried(point[k - 1], now, 0)
                     ELSE Carried(point[k - 1], t, slope_changes[t])
    IN  [k \in 1..weeks |-> point[k]]

\* checkpoint(), and _checkpoint(empty(address), ...).
CheckpointTotal == point_history' = point_history \o Walk

UserPoint(lock) == [bias |-> Bias(lock, now), slope |-> Slope(lock, now), ts |-> now]

\* The last point of the walk with a user's contribution exchanged.
Exchanged(point, u_old, u_new) ==
    [point EXCEPT !.slope = Positive(@ + u_new.slope - u_old.slope),
                  !.bias = Positive(@ + u_new.bias - u_old.bias)]

\* Mutant: the change scheduled for the old end is left in place.
Rescheduled_OldKept(old_lock, new_lock) ==
    [t \in DOMAIN slope_changes |->
        slope_changes[t] - (IF t = new_lock.end THEN Slope(new_lock, now) ELSE 0)]

\* What old_lock would have taken off the slope when it ends, new_lock will.
Rescheduled(old_lock, new_lock) ==
    [t \in DOMAIN slope_changes |->
        slope_changes[t]
          + (IF t = old_lock.end THEN Slope(old_lock, now) ELSE 0)
          - (IF t = new_lock.end THEN Slope(new_lock, now) ELSE 0)]

\* Mutant: the user's last point is overwritten instead of followed.
Checkpoint_Overwrites(u, old_lock, new_lock) ==
    LET walk == Walk
        u_old == UserPoint(old_lock)
        u_new == UserPoint(new_lock)
    IN  /\ point_history' = point_history \o Front(walk)
                                \o <<Exchanged(Last(walk), u_old, u_new)>>
        /\ slope_changes' = Rescheduled(old_lock, new_lock)
        /\ user_point_history' = [user_point_history EXCEPT ![u] =
               (IF Len(@) > 1 THEN Front(@) ELSE @) \o <<u_new>>]

Checkpoint(u, old_lock, new_lock) ==
    LET walk == Walk
        u_old == UserPoint(old_lock)
        u_new == UserPoint(new_lock)
    IN  /\ point_history' = point_history \o Front(walk)
                                \o <<Exchanged(Last(walk), u_old, u_new)>>
        /\ slope_changes' = Rescheduled(old_lock, new_lock)
        /\ user_point_history' = [user_point_history EXCEPT ![u] = Append(@, u_new)]

-----------------------------------------------------------------------------
(***************************************************************************)
(* Locks                                                                   *)
(***************************************************************************)

\* _deposit_for: the total supply, not the deposit, is rounded to a multiple of
\* MAXTIME, so that slopes are exact.
DepositFor(payer, u, value, unlock_time) ==
    LET new_supply == ((supply + value) \div MAXTIME) * MAXTIME
        rounded_value == new_supply - supply
        new_lock == [amount |-> locked[u].amount + rounded_value,
                     end |-> IF unlock_time # 0 THEN unlock_time ELSE locked[u].end]
    IN  /\ rounded_value <= wallet[payer]
        /\ supply' = new_supply
        /\ locked' = [locked EXCEPT ![u] = new_lock]
        /\ Checkpoint(u, locked[u], new_lock)
        /\ wallet' = [wallet EXCEPT ![payer] = @ - rounded_value]
        /\ held' = held + rounded_value
        /\ UNCHANGED now

CreateLock(u, value, unlock_time) ==
    LET end == RoundToWeek(unlock_time)
    IN  /\ value >= MAXTIME
        /\ locked[u].amount = 0
        /\ end > now
        /\ end <= now + MAXTIME
        /\ DepositFor(u, u, value, end)
        /\ u \notin nft
        /\ nft' = nft \cup {u}

IncreaseAmount(payer, u, value) ==
    /\ value >= MAXTIME
    /\ locked[u].amount > 0
    /\ locked[u].end > now
    /\ DepositFor(payer, u, value, 0)
    /\ UNCHANGED nft

IncreaseUnlockTime(u, unlock_time) ==
    LET end == RoundToWeek(unlock_time)
    IN  /\ locked[u].amount > 0
        /\ locked[u].end > now
        /\ end > locked[u].end
        /\ end <= now + MAXTIME
        /\ DepositFor(u, u, 0, end)
        /\ UNCHANGED nft

InfiniteLockToggle(u) ==
    /\ locked[u].end > now
    /\ locked[u].amount > 0
    /\ DepositFor(u, u, 0, IF locked[u].end = MaxUint THEN LongestEnd(now) ELSE MaxUint)
    /\ UNCHANGED nft

Withdraw(u) ==
    LET value == locked[u].amount
    IN  /\ now >= locked[u].end
        /\ value <= supply
        /\ value <= held
        /\ locked' = [locked EXCEPT ![u] = NoLock]
        /\ supply' = supply - value
        /\ Checkpoint(u, locked[u], NoLock)
        /\ u \in nft
        /\ nft' = nft \ {u}
        /\ wallet' = [wallet EXCEPT ![u] = @ + value]
        /\ held' = held - value
        /\ UNCHANGED now

IsLongest(end) == end = MaxUint \/ RoundToWeek(end) = LongestEnd(now)

VeTransferAllowed(owner, to) ==
    /\ owner # to
    /\ IsLongest(locked[owner].end)
    /\ IsLongest(locked[to].end)
    /\ RoundToWeek(locked[owner].end) = RoundToWeek(locked[to].end)

\* Mutant: the user who gives the lock away keeps the last point.
MergePositions_GiverKeeps(owner, to) ==
    LET merged == [locked[to] EXCEPT !.amount = @ + locked[owner].amount]
    IN  /\ locked' = [locked EXCEPT ![owner] = NoLock, ![to] = merged]
        /\ user_point_history' =
               [user_point_history EXCEPT ![to] = Append(@, UserPoint(merged))]
        /\ CheckpointTotal

\* The total should not change because the lock moves between users: the slope
\* changes stay as they are and the users' points are replaced.
MergePositions(owner, to) ==
    LET merged == [locked[to] EXCEPT !.amount = @ + locked[owner].amount]
    IN  /\ locked' = [locked EXCEPT ![owner] = NoLock, ![to] = merged]
        /\ user_point_history' =
               [user_point_history EXCEPT
                    ![owner] = Append(@, [NoPoint EXCEPT !.ts = now]),
                    ![to] = Append(@, UserPoint(merged))]
        /\ CheckpointTotal

\* transferFrom and safeTransferFrom.
Transfer(owner, to) ==
    /\ owner \in nft
    /\ VeTransferAllowed(owner, to)
    /\ MergePositions(owner, to)
    /\ nft' = nft \ {owner}
    /\ UNCHANGED <<now, supply, wallet, held, slope_changes>>

CheckpointCall ==
    /\ CheckpointTotal
    /\ UNCHANGED <<now, locked, supply, nft, wallet, held, user_point_history,
                   slope_changes>>

Tick ==
    /\ now < MaxTime
    /\ now' = now + 1
    /\ UNCHANGED <<locked, supply, nft, wallet, held, point_history,
                   user_point_history, slope_changes>>

-----------------------------------------------------------------------------
(***************************************************************************)
(* Views                                                                   *)
(***************************************************************************)
\* What the binary searches find: the last of the points not later than t.
LastAt(history, t) ==
    history[Max({i \in DOMAIN history : history[i].ts <= t})]

getVotes(u) ==
    LET p == Last(user_point_history[u])
    IN  Positive(p.bias - p.slope * (now - p.ts))

getPastVotes(u, t) ==
    LET p == LastAt(user_point_history[u], t)
    IN  Positive(p.bias - p.slope * (t - p.ts))

\* The total is carried on from the last point before t in steps of a week,
\* counted from that point and not from the beginning of a week.
total_supply_at(t) ==
    LET point == LastAt(point_history, t)
        steps == Min({(t - point.ts - 1) \div WEEK, CHECKPOINT_WEEKS})
        line[k \in 0..Positive(steps)] ==
            IF k = 0 THEN point
            ELSE LET ts == point.ts + k * WEEK
                 IN  [bias |-> line[k - 1].bias - line[k - 1].slope * WEEK,
                      slope |-> line[k - 1].slope + slope_changes[ts],
                      ts |-> ts]
        end == line[Positive(steps)]
    IN  IF Len(point_history) = 1 \/ t < point_history[1].ts
        THEN 0
        ELSE Positive(end.bias - end.slope * (t - end.ts))

-----------------------------------------------------------------------------
Init ==
    /\ now = StartTime
    /\ locked = [u \in Users |-> NoLock]
    /\ supply = 0
    /\ nft = {}
    /\ wallet = [u \in Users |-> Funds]
    /\ held = 0
    /\ point_history = <<[NoPoint EXCEPT !.ts = StartTime]>>
    /\ user_point_history = [u \in Users |-> <<NoPoint>>]
    /\ slope_changes = [t \in Times \cup {MaxUint} |-> 0]

Operation ==
    \/ \E u \in Users, v \in Values, t \in Times : CreateLock(u, v, t)
    \/ \E p, u \in Users, v \in Values : IncreaseAmount(p, u, v)
    \/ \E u \in Users, t \in Times : IncreaseUnlockTime(u, t)
    \/ \E u \in Users : InfiniteLockToggle(u) \/ Withdraw(u)
    \/ \E owner, to \in Users : Transfer(owner, to)
    \/ CheckpointCall

Next ==
    \/ Operation /\ Len(point_history') <= MaxEpoch
    \/ Tick

Spec == Init /\ [][Next]_vars

-----------------------------------------------------------------------------
(***************************************************************************)
(* Properties                                                              *)
(***************************************************************************)
Point == [bias : Nat, slope : Nat, ts : 0..now]

TypeOK ==
    /\ now \in 0..MaxTime
    /\ locked \in [Users -> Lock]
    /\ supply \in Nat
    /\ nft \subseteq Users
    /\ wallet \in [Users -> Nat]
    /\ held \in Nat
    /\ point_history \in Seq(Point)
    /\ user_point_history \in [Users -> Seq(Point)]
    /\ slope_changes \in [Times \cup {MaxUint} -> Int]

(* At every time up to the last checkpoint, the total read from the history
   is the sum of what the users' histories give: no creation, extension,
   toggle, expiry or merge leaves the total line off. *)
TotalIsSum ==
    \A t \in 0..LastPoint.ts :
        total_supply_at(t) = Total([u \in Users |-> getPastVotes(u, t)])

(* The slope changes still scheduled take the total slope down to zero and
   never below: what _checkpoint guards with "This cannot happen - just in
   case" does not happen. *)
SlopesUnwind ==
    LET ahead(t) == {s \in Times : LastPoint.ts < s /\ s <= t}
        remaining(t) == LastPoint.slope + Total([s \in ahead(t) |-> slope_changes[s]])
    IN  /\ \A t \in Times : remaining(t) >= 0
        /\ remaining(MaxTime + MAXTIME) = 0

(* Answers about the past are final: no later operation changes a user's
   votes before now, or the total before the last checkpoint. *)
PastIsFrozen ==
    [][/\ \A u \in Users, t \in 0..(now - 1) : getPastVotes(u, t)' = getPastVotes(u, t)
       /\ \A t \in 0..(LastPoint.ts - 1) : total_supply_at(t)' = total_supply_at(t)]_vars

(* The contract implements VeLocks: the votes read from the last point of a
   user are the weight of their lock. *)
Locks == INSTANCE VeLocks WITH votes <- [u \in Users |-> getVotes(u)]
ImplementsVeLocks == Locks!VeSpec
=============================================================================
