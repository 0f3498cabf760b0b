----------------------- MODULE GaugeController_proofs -----------------------
(***************************************************************************)
(* Proofs about module GaugeController, for any users, gauges, weeks and   *)
(* rates: first about the votes of the users and their locks, then about   *)
(* the emissions that the gauges share, last that the weight of a gauge is *)
(* the sum of the votes for it.                                            *)
(***************************************************************************)
EXTENDS GaugeController, VeLocks_proofs

-----------------------------------------------------------------------------
(***************************************************************************)
(* Induction hypothesis about users                                        *)
(***************************************************************************)
UserTypeOK ==
    /\ now \in StartTime..MaxTime
    /\ locked \in [Users -> Lock]
    /\ votes \in [Users -> Nat]
    /\ vote_user_slopes \in [Users -> [Gauges -> Vote]]
    /\ vote_user_power \in [Users -> 0..BPS]
    /\ last_user_vote \in [Users -> [Gauges -> 0..now]]
    /\ is_killed \in [Gauges -> BOOLEAN]

\* An empty lock has no end; others end with a week, no later than they can.
LockOK(lock) ==
    /\ lock.amount = 0 => lock.end = 0
    /\ lock.end # MaxUint => RoundToWeek(lock.end) = lock.end /\ lock.end <= now + MAXTIME

\* A vote that still weighs something has the share of the lock's slope (or of
\* its amount, if it does not decay) that its power says, and ends before the
\* lock.
VoteCovered(vote, lock) ==
    /\ vote.power = 0 => vote.slope = 0 /\ vote.bias = 0
    /\ vote.end = MaxUint => vote.slope = 0
    /\ vote.end # MaxUint => RoundToWeek(vote.end) = vote.end
    /\ vote.power > 0 /\ vote.end > now =>
          /\ vote.end <= lock.end
          /\ vote.slope * BPS <= vote.power * (lock.amount \div MAXTIME)
          /\ vote.end = MaxUint => vote.bias * BPS <= vote.power * lock.amount
          /\ vote.end # MaxUint => vote.end - now <= MAXTIME

LocksOK == \A u \in Users : LockOK(locked[u])
VotesFollowLocks == votes = Weighed(locked, now)
VotesCovered == \A u \in Users, g \in Gauges : VoteCovered(vote_user_slopes[u][g], locked[u])

UserInv ==
    /\ UserTypeOK
    /\ LocksOK
    /\ VotesFollowLocks
    /\ PowerIsSumOfVotes
    /\ VotesCovered

-----------------------------------------------------------------------------
(***************************************************************************)
(* Locks                                                                   *)
(***************************************************************************)
(* The constants are numbers and finite sets. *)
LEMMA ControllerConstants ==
    /\ IsFiniteSet(Users)
    /\ IsFiniteSet(Gauges)
    /\ WAD \in Nat \ {0}
    /\ BPS \in Nat \ {0}
    /\ Weights \subseteq 0..BPS
    /\ Adjustments \subseteq Nat
    /\ RATE \in Nat
    /\ RESERVE \in Nat
    /\ StartTime \in Nat \ {0}
    /\ MaxUint > MaxTime + MAXTIME
  BY ControllerAssumption, VeAssumption, SMT

(* Locking more or for longer: a lock only grows, unless there was none. *)
LEMMA LockingGrows ==
    ASSUME UserTypeOK, LocksOK, NEW u \in Users, Locking(u)
    PROVE  /\ LockOK(locked'[u])
           /\ \/ locked[u].amount = 0
              \/ locked'[u].amount >= locked[u].amount /\ locked'[u].end >= locked[u].end
<1>1. /\ locked[u].amount \in Nat /\ locked[u].end \in Nat /\ now \in Nat
      /\ locked[u] \in Lock /\ LockOK(locked[u])
  BY VeConstants, SMT DEF UserTypeOK, Lock, Times, LocksOK
<1>2. CASE \E v \in Values, t \in Times : CreateLock(u, v, t)
  <2>1. PICK v \in Values, t \in Times : CreateLock(u, v, t)
    BY <1>2
  <2>2. locked'[u] = [amount |-> Rounded(v), end |-> RoundToWeek(t)] /\ v >= MAXTIME
    BY <2>1 DEF CreateLock, Becomes, UserTypeOK
  <2>3. v \in Nat /\ t \in Nat
    BY VeConstants, SMT DEF Times
  <2>4. Rounded(v) # 0
    <3> DEFINE q == v \div MAXTIME
    <3>1. q \in Nat /\ v < q * MAXTIME + MAXTIME
      BY <2>3, VeConstants, DivBounds
    <3> HIDE DEF q
    <3>2. q # 0
      BY <2>2, <2>3, <3>1, VeConstants, SMT
    <3>3. q * MAXTIME # 0
      BY <3>1, <3>2, VeConstants, SMT
    <3> QED
      BY <3>3 DEF Rounded, q
  <2>5. RoundToWeek(RoundToWeek(t)) = RoundToWeek(t)
    BY <2>3, RoundedAgain
  <2> QED
    BY <2>1, <2>2, <2>4, <2>5 DEF LockOK, CreateLock
<1>3. CASE \E v \in Values : IncreaseAmount(u, v)
  <2>1. PICK v \in Values : IncreaseAmount(u, v)
    BY <1>3
  <2>2. /\ locked'[u].amount = locked[u].amount + Rounded(v)
        /\ locked'[u].end = locked[u].end
        /\ locked[u].amount > 0
    BY <1>1, <2>1 DEF IncreaseAmount, Becomes, UserTypeOK, Lock, Live
  <2>3. Rounded(v) \in Nat
    BY VeConstants, RoundedDeposit
  <2> QED
    BY <1>1, <2>2, <2>3, SMT DEF LockOK
<1>4. CASE \E t \in Times : IncreaseUnlockTime(u, t)
  <2>1. PICK t \in Times : IncreaseUnlockTime(u, t)
    BY <1>4
  <2>2. /\ locked'[u].amount = locked[u].amount
        /\ locked'[u].end = RoundToWeek(t)
        /\ RoundToWeek(t) > locked[u].end
        /\ RoundToWeek(t) <= now + MAXTIME
        /\ locked[u].amount > 0
    BY <1>1, <2>1 DEF IncreaseUnlockTime, Becomes, UserTypeOK, Lock, Live
  <2>3. t \in Nat
    BY VeConstants, SMT DEF Times
  <2>4. RoundToWeek(RoundToWeek(t)) = RoundToWeek(t) /\ RoundToWeek(t) \in 0..t
    BY <2>3, RoundedAgain, RoundedTime
  <2> QED
    BY <1>1, <2>2, <2>3, <2>4, SMT DEF LockOK
<1> QED
  BY <1>2, <1>3, <1>4 DEF Locking

(* Making a lock infinite makes it longer; making it finite leaves it whole. *)
LEMMA ToggleGrows ==
    ASSUME UserTypeOK, LocksOK, NEW u \in Users, InfiniteLockToggle(u)
    PROVE  /\ LockOK(locked'[u])
           /\ locked[u].end # MaxUint =>
                 locked'[u].amount >= locked[u].amount /\ locked'[u].end >= locked[u].end
<1>1. /\ locked[u].amount \in Nat /\ locked[u].end \in Nat /\ now \in Nat
      /\ locked[u].end # MaxUint => locked[u].end <= MaxTime + MAXTIME
  BY VeConstants, SMT DEF UserTypeOK, Lock, Times
<1>2. /\ locked'[u].amount = locked[u].amount
      /\ locked'[u].end = IF locked[u].end = MaxUint THEN LongestEnd(now) ELSE MaxUint
      /\ locked[u].amount > 0
  BY <1>1 DEF InfiniteLockToggle, Becomes, UserTypeOK, Lock, Live
<1>3. now + MAXTIME \in Nat
  BY <1>1, VeConstants, SMT
<1>4. RoundToWeek(LongestEnd(now)) = LongestEnd(now) /\ LongestEnd(now) \in 0..(now + MAXTIME)
  BY <1>3, RoundedAgain, RoundedTime DEF LongestEnd
<1>5. LockOK(locked'[u])
  BY <1>1, <1>2, <1>4, SMT DEF LockOK
<1> QED
  BY <1>1, <1>2, <1>5, ControllerConstants, VeConstants, SMT

(* A transfer empties one lock and adds to another. *)
LEMMA TransferGrows ==
    ASSUME UserTypeOK, LocksOK, NEW owner \in Users, NEW to \in Users, Transfer(owner, to)
    PROVE  /\ LockOK(locked'[owner])
           /\ LockOK(locked'[to])
           /\ locked'[to].amount >= locked[to].amount
           /\ locked'[to].end = locked[to].end
<1>1. /\ locked[owner].amount \in Nat /\ locked[to].amount \in Nat
      /\ locked[owner].amount > 0
      /\ owner # to
      /\ LockOK(locked[to])
  BY DEF UserTypeOK, Lock, LocksOK, Transfer, CanMerge
<1>2. /\ locked' = [locked EXCEPT ![owner] = NoLock, ![to].amount = @ + locked[owner].amount]
  BY DEF Transfer, Becomes
<1>3. locked'[owner] = NoLock
  BY <1>1, <1>2 DEF UserTypeOK
<1>4. /\ locked'[to].amount = locked[to].amount + locked[owner].amount
      /\ locked'[to].end = locked[to].end
  BY <1>1, <1>2 DEF UserTypeOK, Lock
<1>5. RoundToWeek(0) = 0 /\ 0 <= now + MAXTIME
  <2>1. RoundToWeek(0) \in 0..0 /\ now \in StartTime..MaxTime
    BY RoundedTime DEF UserTypeOK
  <2> QED
    BY <2>1, ControllerConstants, VeConstants, SMT
<1> QED
  BY <1>1, <1>3, <1>4, <1>5, SMT DEF LockOK, NoLock

\* What a step of the VotingEscrow may do to the lock of a user.
Safe(u) ==
    \/ locked'[u].amount >= locked[u].amount /\ locked'[u].end >= locked[u].end
    \/ locked[u].amount = 0
    \/ vote_user_power[u] = 0
    \/ now >= locked[u].end

(* A user's votes stay covered through such a step. *)
LEMMA CoverKept ==
    ASSUME UserInv, NEW u \in Users, NEW g \in Gauges, Safe(u), locked'[u] \in Lock,
           now' = now \/ now' = now + 1,
           vote_user_slopes' = vote_user_slopes
    PROVE  VoteCovered(vote_user_slopes[u][g], locked[u])'
<1> DEFINE vote == vote_user_slopes[u][g]
           p == vote.power
           a == locked[u].amount
           b == locked'[u].amount
<1>1. /\ VoteCovered(vote, locked[u])
      /\ vote \in Vote /\ vote' = vote
      /\ locked[u] \in Lock /\ LockOK(locked[u])
      /\ now \in Nat
  BY VeConstants, SMT DEF UserInv, UserTypeOK, VotesCovered, LocksOK
<1>2. /\ a \in Nat /\ b \in Nat
      /\ locked[u].end \in Nat /\ locked'[u].end \in Nat
      /\ vote.end \in Nat /\ p \in Nat /\ vote.slope \in Nat /\ vote.bias \in Nat
  BY <1>1, ControllerConstants, VeConstants, SMT DEF Lock, Vote, Times
<1>3. vote_user_power[u] = 0 => p = 0
  <2> DEFINE f == [h \in Gauges |-> vote_user_slopes[u][h].power]
  <2>1. f \in [Gauges -> Nat] /\ f[g] = p
    BY ControllerConstants, SMT DEF UserInv, UserTypeOK, Vote
  <2>2. vote_user_power[u] = Total(f)
    BY DEF UserInv, PowerIsSumOfVotes
  <2> HIDE DEF f
  <2>3. f[g] <= Total(f)
    BY <2>1, ControllerConstants, TotalTerm
  <2> QED
    BY <1>2, <2>1, <2>2, <2>3, SMT
<1> SUFFICES ASSUME p > 0, vote.end > now'
             PROVE  /\ vote.end <= locked'[u].end
                    /\ vote.slope * BPS <= p * (b \div MAXTIME)
                    /\ vote.end = MaxUint => vote.bias * BPS <= p * b
                    /\ vote.end # MaxUint => vote.end - now' <= MAXTIME
  BY <1>1, Zenon DEF VoteCovered
<1>4. vote.end > now
  BY <1>1, <1>2, SMT
<1>5. /\ vote.end <= locked[u].end
      /\ vote.slope * BPS <= p * (a \div MAXTIME)
      /\ vote.end = MaxUint => vote.bias * BPS <= p * a
      /\ vote.end # MaxUint => vote.end - now <= MAXTIME
  BY <1>1, <1>4 DEF VoteCovered
<1>6. ~(now >= locked[u].end) /\ a # 0 /\ p # 0
  BY <1>1, <1>2, <1>4, <1>5, SMT DEF LockOK
<1>7. a <= b /\ locked[u].end <= locked'[u].end
  BY <1>2, <1>3, <1>6, SMT DEF Safe
<1>8. a \div MAXTIME <= b \div MAXTIME /\ a \div MAXTIME \in Nat /\ b \div MAXTIME \in Nat
  BY <1>2, <1>7, VeConstants, DivMonotone, DivBounds
<1> DEFINE s == a \div MAXTIME
           t == b \div MAXTIME
<1>9. p * s <= p * t /\ p * a <= p * b /\ p * s \in Nat /\ p * t \in Nat /\ p * a \in Nat /\ p * b \in Nat
  <2>1. s \in Nat /\ t \in Nat /\ s <= t
    BY <1>8
  <2> HIDE DEF s, t, p, a, b
  <2> QED
    BY <1>2, <1>7, <2>1, ProductMonotone, SMT
<1>10. vote.slope * BPS \in Nat /\ vote.bias * BPS \in Nat
  BY <1>2, ControllerConstants, SMT
<1>11. vote.slope * BPS <= p * t
  <2> HIDE DEF p, a, b
  <2> QED
    BY <1>5, <1>9, <1>10, SMT
<1>12. vote.end = MaxUint => vote.bias * BPS <= p * b
  <2> DEFINE x == vote.bias * BPS
  <2>1. x \in Nat /\ (vote.end = MaxUint => x <= p * a)
    BY <1>5, <1>10
  <2> HIDE DEF x, p, a, b
  <2>2. vote.end = MaxUint => x <= p * b
    BY <1>9, <2>1, SMT
  <2> QED
    BY <2>2 DEF x
<1>13. vote.end # MaxUint => vote.end - now' <= MAXTIME
  BY <1>1, <1>2, <1>5, VeConstants, SMT
<1>14. vote.end <= locked'[u].end
  BY <1>2, <1>5, <1>7, SMT
<1> QED
  BY <1>11, <1>12, <1>13, <1>14

(* Every operation of the VotingEscrow that the controller lets through is
   safe for every user's votes. *)
LEMMA EscrowIsSafe ==
    ASSUME UserInv, EscrowStep
    PROVE  /\ locked' \in [Users -> Lock]
           /\ \A u \in Users : LockOK(locked'[u]) /\ Safe(u)
           /\ now' \in StartTime..MaxTime
           /\ now' = now \/ now' = now + 1
           /\ votes' = Weighed(locked', now')
<1>1. /\ UserTypeOK /\ LocksOK
      /\ now \in StartTime..MaxTime
      /\ locked \in [Users -> Lock]
      /\ \A u \in Users : LockOK(locked[u])
  BY DEF UserInv, UserTypeOK, LocksOK
<1>2. \A u \in Users : locked[u].amount \in Nat /\ locked[u].end \in Nat
  BY <1>1, LockType
<1>3. \A u \in Users : locked'[u] = locked[u] => LockOK(locked'[u]) /\ Safe(u)
  BY <1>1, <1>2, SMT DEF Safe
<1>4. ASSUME NEW u \in Users, Locking(u) \/ Withdraw(u) \/ InfiniteLockToggle(u),
             LockOK(locked'[u]) /\ Safe(u)
      PROVE  /\ locked' \in [Users -> Lock]
             /\ \A other \in Users : LockOK(locked'[other]) /\ Safe(other)
             /\ now' = now
             /\ votes' = Weighed(locked', now')
  <2>1. /\ locked' \in [Users -> Lock]
        /\ \A other \in Users \ {u} : locked'[other] = locked[other]
        /\ now' = now
    BY <1>1, <1>4, LockingType
  <2>2. \E locks : Becomes(locks)
    <3>1. CASE Locking(u)
      BY <3>1 DEF Locking, CreateLock, IncreaseAmount, IncreaseUnlockTime
    <3>2. CASE Withdraw(u)
      BY <3>2 DEF Withdraw
    <3>3. CASE InfiniteLockToggle(u)
      BY <3>3 DEF InfiniteLockToggle
    <3> QED
      BY <1>4, <3>1, <3>2, <3>3
  <2>3. votes' = Weighed(locked', now')
    BY <2>1, <2>2 DEF Becomes
  <2> QED
    BY <1>3, <1>4, <2>1, <2>3
<1>5. ASSUME NEW u \in Users, Locking(u) PROVE LockOK(locked'[u]) /\ Safe(u)
  BY <1>1, <1>5, LockingGrows DEF Safe
<1>6. ASSUME NEW u \in Users, Withdraw(u) PROVE LockOK(locked'[u]) /\ Safe(u)
  <2>1. locked'[u] = NoLock /\ now >= locked[u].end
    BY <1>1, <1>6 DEF Withdraw, Becomes
  <2>2. RoundToWeek(0) = 0
    <3>1. RoundToWeek(0) \in 0..0
      BY RoundedTime
    <3> QED
      BY <3>1, SMT
  <2>3. now + MAXTIME >= 0
    BY <1>1, ControllerConstants, VeConstants, SMT
  <2> QED
    BY <2>1, <2>2, <2>3 DEF LockOK, Safe, NoLock
<1>7. ASSUME NEW u \in Users, InfiniteLockToggle(u),
             locked[u].end = MaxUint => ve_transfer_allowed(u)
      PROVE  LockOK(locked'[u]) /\ Safe(u)
  BY <1>1, <1>7, ToggleGrows DEF Safe, ve_transfer_allowed
<1>8. ASSUME NEW owner \in Users, NEW to \in Users, ve_transfer_allowed(owner), Transfer(owner, to)
      PROVE  /\ locked' \in [Users -> Lock]
             /\ \A u \in Users : LockOK(locked'[u]) /\ Safe(u)
             /\ now' = now
             /\ votes' = Weighed(locked', now')
  <2>1. /\ locked' \in [Users -> Lock]
        /\ \A other \in Users \ {owner, to} : locked'[other] = locked[other]
        /\ now' = now
    BY <1>1, <1>8, TransferType
  <2>2. LockOK(locked'[owner]) /\ Safe(owner)
    BY <1>1, <1>8, TransferGrows DEF Safe, ve_transfer_allowed
  <2>3. LockOK(locked'[to]) /\ Safe(to)
    <3>1. /\ LockOK(locked'[to])
          /\ locked'[to].amount >= locked[to].amount
          /\ locked'[to].end = locked[to].end
      BY <1>1, <1>8, TransferGrows
    <3> QED
      BY <1>2, <3>1, SMT DEF Safe
  <2>4. votes' = Weighed(locked', now')
    BY <1>8, <2>1 DEF Transfer, Becomes
  <2> QED
    BY <1>3, <2>1, <2>2, <2>3, <2>4
<1>9. CASE Tick
  <2>1. now' = now + 1 /\ locked' = locked /\ votes' = Weighed(locked', now') /\ now < MaxTime
    BY <1>9 DEF Tick
  <2>2. now' \in StartTime..MaxTime
    BY <1>1, <2>1, VeConstants, SMT
  <2> QED
    BY <1>1, <1>3, <2>1, <2>2
<1> QED
  BY <1>1, <1>4, <1>5, <1>6, <1>7, <1>8, <1>9 DEF EscrowStep

(* The VotingEscrow keeps the induction hypothesis about users. *)
LEMMA EscrowKeepsUsers ==
    ASSUME UserInv, EscrowStep
    PROVE  UserInv'
<1>1. /\ locked' \in [Users -> Lock]
      /\ \A u \in Users : LockOK(locked'[u]) /\ Safe(u)
      /\ now' \in StartTime..MaxTime
      /\ now' = now \/ now' = now + 1
      /\ votes' = Weighed(locked', now')
  BY EscrowIsSafe
<1>2. UNCHANGED <<vote_user_slopes, vote_user_power, last_user_vote, is_killed>>
  BY DEF EscrowStep, userVars
<1>3. now \in Nat /\ now' \in Nat
  BY <1>1, ControllerConstants, SMT DEF UserInv, UserTypeOK
<1>4. UserTypeOK'
  <2>1. votes' \in [Users -> Nat]
    BY <1>1, <1>3, WeighedType
  <2>2. 0..now \subseteq 0..now'
    BY <1>1, <1>3, SMT
  <2>3. last_user_vote' \in [Users -> [Gauges -> 0..now']]
    BY <1>2, <2>2 DEF UserInv, UserTypeOK
  <2> QED
    BY <1>1, <1>2, <2>1, <2>3 DEF UserInv, UserTypeOK
<1>5. LocksOK' /\ VotesFollowLocks'
  <2>1. ASSUME NEW u \in Users PROVE LockOK(locked[u])'
    <3>1. locked'[u].end \in Nat /\ LockOK(locked'[u])
      BY <1>1, LockType
    <3> QED
      BY <1>1, <1>3, <3>1, VeConstants, SMT DEF LockOK
  <2> QED
    BY <1>1, <2>1 DEF LocksOK, VotesFollowLocks
<1>6. PowerIsSumOfVotes'
  BY <1>2 DEF UserInv, PowerIsSumOfVotes
<1>7. VotesCovered'
  <2>1. \A u \in Users, g \in Gauges : VoteCovered(vote_user_slopes[u][g], locked[u])'
    BY <1>1, <1>2, CoverKept
  <2> QED
    BY <2>1 DEF VotesCovered
<1> QED
  BY <1>4, <1>5, <1>6, <1>7 DEF UserInv

-----------------------------------------------------------------------------
(***************************************************************************)
(* Ballots                                                                 *)
(***************************************************************************)
(* A vote has the part of the lock that its power says: so much of its slope,
   or of its amount. *)
LEMMA NewVoteCovered ==
    ASSUME UserInv, NEW u \in Users, NEW weight \in 0..BPS, locked[u].end > now
    PROVE  /\ NewVote(u, weight) \in Vote
           /\ VoteCovered(NewVote(u, weight), locked[u])
           /\ NewVote(u, weight).power = weight
<1> DEFINE lock == locked[u]
           s == lock.amount \div MAXTIME
           slope == (Slope(lock, now) * weight) \div BPS
           bias == IF lock.end = MaxUint THEN (votes[u] * weight) \div BPS
                   ELSE slope * (lock.end - now)
           vote == NewVote(u, weight)
<1>1. /\ lock \in Lock /\ LockOK(lock)
      /\ lock.amount \in Nat /\ lock.end \in Nat /\ now \in Nat /\ now <= MaxTime
      /\ votes[u] = Bias(lock, now)
      /\ lock.end \in Times \cup {MaxUint}
      /\ weight \in Nat /\ weight <= BPS
  BY LockType, ControllerConstants, VeConstants, SMT
     DEF UserInv, UserTypeOK, LocksOK, VotesFollowLocks, Weighed, Lock
<1>2. lock.amount > 0 /\ now < lock.end /\ now < MaxUint
  BY <1>1, ControllerConstants, VeConstants, SMT DEF LockOK
<1>3. /\ s \in Nat /\ s * MAXTIME <= lock.amount
      /\ lock.end = MaxUint => Slope(lock, now) = 0 /\ votes[u] = lock.amount
      /\ lock.end # MaxUint => Slope(lock, now) = s
  BY <1>1, <1>2, BiasOfLock DEF Slope
<1>4. vote = [slope |-> slope, bias |-> bias, power |-> weight, end |-> lock.end]
  BY DEF NewVote
<1> HIDE DEF s, vote
<1>5. /\ slope \in Nat
      /\ slope * BPS <= weight * s
      /\ lock.end = MaxUint => slope = 0
      /\ weight = 0 => slope = 0
  <2>1. CASE lock.end = MaxUint
    <3>1. slope = 0
      <4>1. Slope(lock, now) * weight = 0
        BY <1>1, <1>3, <2>1, SMT
      <4>2. 0 \div BPS = 0
        BY ControllerConstants, SMT
      <4> QED
        BY <4>1, <4>2
    <3>2. 0 * BPS = 0 /\ 0 <= weight * s
      BY <1>1, <1>3, ControllerConstants, SMT
    <3> QED
      BY <3>1, <3>2
  <2>2. CASE lock.end # MaxUint
    <3>1. slope = (s * weight) \div BPS /\ s * weight = weight * s /\ s * weight \in Nat
      BY <1>1, <1>3, <2>2, SMT
    <3>2. slope \in Nat /\ slope * BPS <= weight * s
      BY <3>1, ControllerConstants, DivBounds
    <3>3. weight = 0 => slope = 0
      <4>1. weight = 0 => s * weight = 0
        BY <1>3, SMT
      <4>2. 0 \div BPS = 0
        BY ControllerConstants, SMT
      <4> QED
        BY <3>1, <4>1, <4>2
    <3> QED
      BY <2>2, <3>2, <3>3
  <2> QED
    BY <2>1, <2>2
<1> HIDE DEF slope
<1>6. /\ bias \in Nat
      /\ lock.end = MaxUint => bias * BPS <= weight * lock.amount
      /\ weight = 0 => bias = 0
  <2>1. CASE lock.end = MaxUint
    <3>1. bias = (lock.amount * weight) \div BPS
      BY <1>3, <2>1
    <3>2. lock.amount * weight \in Nat /\ lock.amount * weight = weight * lock.amount
      BY <1>1, SMT
    <3>3. bias \in Nat /\ bias * BPS <= weight * lock.amount
      <4> HIDE DEF lock
      <4> QED
        BY <3>1, <3>2, ControllerConstants, DivBounds
    <3>4. weight = 0 => bias = 0
      <4>1. weight = 0 => lock.amount * weight = 0
        BY <1>1, SMT
      <4>2. 0 \div BPS = 0
        BY ControllerConstants, SMT
      <4> QED
        BY <3>1, <4>1, <4>2
    <3> QED
      BY <3>3, <3>4
  <2>2. CASE lock.end # MaxUint
    <3>1. bias = slope * (lock.end - now) /\ lock.end - now \in Nat
      BY <1>1, <1>2, <2>2, SMT
    <3>2. bias \in Nat
      BY <1>5, <3>1, SMT
    <3>3. weight = 0 => bias = 0
      BY <1>5, <3>1, SMT
    <3> QED
      BY <2>2, <3>2, <3>3
  <2> QED
    BY <2>1, <2>2
<1> HIDE DEF bias
<1>7. vote \in Vote
  BY <1>1, <1>4, <1>5, <1>6 DEF Vote
<1>8. lock.end # MaxUint => lock.end - now <= MAXTIME
  BY <1>1, VeConstants, SMT DEF LockOK
<1> QED
  BY <1>1, <1>4, <1>5, <1>6, <1>7, <1>8 DEF VoteCovered, s, vote, LockOK

(* A ballot names gauges, none of them twice. *)
LEMMA BallotType ==
    ASSUME NEW b \in Ballots
    PROVE  /\ Len(b) \in Nat
           /\ DOMAIN b = 1..Len(b)
           /\ \A i \in 1..Len(b) : b[i] \in Gauges
           /\ \A i, j \in 1..Len(b) : i # j => b[i] # b[j]
           /\ Chosen(b) \subseteq Gauges
<1>1. PICK n \in 1..Cardinality(Gauges) : b \in [1..n -> Gauges]
  BY DEF Ballots
<1>2. n \in Nat
  BY ControllerConstants, FS_CardinalityType, SMT
<1>3. Len(b) = n
  BY <1>1, <1>2
<1>4. \A i, j \in DOMAIN b : i # j => b[i] # b[j]
  BY DEF Ballots
<1> QED
  BY <1>1, <1>2, <1>3, <1>4 DEF Chosen

(* A ballot keeps the induction hypothesis about users. *)
LEMMA BallotKeepsUsers ==
    ASSUME UserInv, NEW u \in Users, NEW b \in Ballots,
           NEW w \in [Chosen(b) -> Weights], NEW a \in [Chosen(b) -> Adjustments],
           VoteForGaugeWeights(u, b, w, a)
    PROVE  UserInv'
<1> DEFINE chosen == Chosen(b)
           old == [g \in Gauges |-> vote_user_slopes[u][g].power]
           new == [g \in Gauges |-> vote_user_slopes'[u][g].power]
           power_used == vote_user_power[u] + Total([g \in chosen |-> w[g]])
                            - Total([g \in chosen |-> vote_user_slopes[u][g].power])
<1>1. chosen \subseteq Gauges
  BY BallotType
<1>2. /\ locked[u].end > now
      /\ power_used <= BPS
      /\ vote_user_power' = [vote_user_power EXCEPT ![u] = power_used]
      /\ vote_user_slopes' = [vote_user_slopes EXCEPT ![u] =
             [g \in Gauges |-> IF g \in chosen THEN NewVote(u, w[g]) ELSE @[g]]]
      /\ last_user_vote' = [last_user_vote EXCEPT ![u] =
             [g \in Gauges |-> IF g \in chosen THEN now ELSE @[g]]]
      /\ UNCHANGED <<now, locked, votes, is_killed>>
  BY DEF VoteForGaugeWeights, veVars
<1> HIDE DEF chosen
<1>3. \A g \in chosen : w[g] \in 0..BPS /\ w[g] \in Nat
  <2>1. \A g \in chosen : w[g] \in Weights
    BY DEF chosen
  <2>2. Weights \subseteq 0..BPS /\ \A x \in 0..BPS : x \in Nat
    BY ControllerConstants
  <2> QED
    BY <2>1, <2>2
<1>4. \A g \in chosen : /\ NewVote(u, w[g]) \in Vote
                        /\ VoteCovered(NewVote(u, w[g]), locked[u])
                        /\ NewVote(u, w[g]).power = w[g]
  BY <1>2, <1>3, NewVoteCovered
<1>5. /\ vote_user_slopes' \in [Users -> [Gauges -> Vote]]
      /\ \A v \in Users \ {u} : vote_user_slopes'[v] = vote_user_slopes[v]
      /\ \A g \in Gauges : vote_user_slopes'[u][g] = IF g \in chosen THEN NewVote(u, w[g])
                                                     ELSE vote_user_slopes[u][g]
  BY <1>2, <1>4 DEF UserInv, UserTypeOK
<1>6. old \in [Gauges -> Nat] /\ new \in [Gauges -> Nat]
  BY <1>5, ControllerConstants, SMT DEF UserInv, UserTypeOK, Vote
<1>7. power_used = Total(new)
  <2>1. /\ Total(old) = Total([g \in chosen |-> old[g]]) + Total([g \in Gauges \ chosen |-> old[g]])
        /\ Total(new) = Total([g \in chosen |-> new[g]]) + Total([g \in Gauges \ chosen |-> new[g]])
    <3>1. ASSUME NEW f \in [Gauges -> Nat]
          PROVE  Total(f) = Total([g \in chosen |-> f[g]]) + Total([g \in Gauges \ chosen |-> f[g]])
      <4>1. chosen \in SUBSET Gauges /\ IsFiniteSet(Gauges)
        BY <1>1, ControllerConstants
      <4> HIDE DEF old, new
      <4> QED
        BY <4>1, TotalSplit, Zenon
    <3> HIDE DEF old, new
    <3> QED
      BY <1>6, <3>1
  <2>2. [g \in chosen |-> new[g]] = [g \in chosen |-> w[g]]
    BY <1>1, <1>4, <1>5
  <2>3. [g \in chosen |-> old[g]] = [g \in chosen |-> vote_user_slopes[u][g].power]
    BY <1>1
  <2>4. [g \in Gauges \ chosen |-> new[g]] = [g \in Gauges \ chosen |-> old[g]]
    BY <1>5
  <2>5. vote_user_power[u] = Total(old)
    BY DEF UserInv, PowerIsSumOfVotes
  <2>6. IsFiniteSet(chosen) /\ IsFiniteSet(Gauges \ chosen)
    BY <1>1, ControllerConstants, FS_Subset
  <2> DEFINE x == [g \in chosen |-> w[g]]
             y == [g \in chosen |-> vote_user_slopes[u][g].power]
             z == [g \in Gauges \ chosen |-> old[g]]
  <2>7. x \in [chosen -> Nat] /\ y \in [chosen -> Nat] /\ z \in [Gauges \ chosen -> Nat]
    BY <1>1, <1>3, <1>6
  <2>8. Total(old) = Total(y) + Total(z) /\ Total(new) = Total(x) + Total(z)
    BY <2>1, <2>2, <2>3, <2>4, Zenon
  <2>9. power_used = Total(old) + Total(x) - Total(y)
    BY <2>5
  <2> HIDE DEF x, y, z, old, new, power_used
  <2>10. Total(x) \in Nat /\ Total(y) \in Nat /\ Total(z) \in Nat
    BY <2>6, <2>7, TotalType
  <2> QED
    BY <2>8, <2>9, <2>10, SMT
<1>8. power_used \in 0..BPS
  <2>1. Total(new) \in Nat
    <3> HIDE DEF new
    <3> QED
      BY <1>6, ControllerConstants, TotalType
  <2> HIDE DEF new, power_used
  <2> QED
    BY <1>2, <1>7, <2>1, ControllerConstants, SMT
<1> HIDE DEF power_used
<1>9. UserTypeOK'
  <2>1. vote_user_power' \in [Users -> 0..BPS]
    BY <1>2, <1>8 DEF UserInv, UserTypeOK
  <2>2. now \in 0..now
    BY ControllerConstants, SMT DEF UserInv, UserTypeOK
  <2>3. last_user_vote' \in [Users -> [Gauges -> 0..now]]
    BY <1>2, <2>2 DEF UserInv, UserTypeOK
  <2> QED
    BY <1>2, <1>5, <2>1, <2>3 DEF UserInv, UserTypeOK
<1>10. LocksOK' /\ VotesFollowLocks'
  BY <1>2 DEF UserInv, LocksOK, VotesFollowLocks, LockOK
<1>11. PowerIsSumOfVotes'
  <2> SUFFICES ASSUME NEW v \in Users
               PROVE  vote_user_power'[v] = Total([g \in Gauges |-> vote_user_slopes'[v][g].power])
    BY DEF PowerIsSumOfVotes
  <2>1. CASE v = u
    BY <1>2, <1>7, <2>1 DEF UserInv, UserTypeOK
  <2>2. CASE v # u
    BY <1>2, <1>5, <2>2 DEF UserInv, UserTypeOK, PowerIsSumOfVotes
  <2> QED
    BY <2>1, <2>2
<1>12. VotesCovered'
  <2> SUFFICES ASSUME NEW v \in Users, NEW g \in Gauges
               PROVE  VoteCovered(vote_user_slopes[v][g], locked[v])'
    BY DEF VotesCovered
  <2>1. VoteCovered(vote_user_slopes[v][g], locked[v])
    BY DEF UserInv, VotesCovered
  <2>2. VoteCovered(vote_user_slopes'[v][g], locked[v])
    BY <1>4, <1>5, <2>1
  <2> QED
    BY <1>2, <2>2 DEF VoteCovered
<1> QED
  BY <1>9, <1>10, <1>11, <1>12 DEF UserInv

(* Nobody has a lock or a vote at first. *)
LEMMA InitUsers == Init => UserInv
<1> SUFFICES ASSUME Init PROVE UserInv
  OBVIOUS
<1>1. NoLock \in Lock /\ now = StartTime /\ now \in StartTime..MaxTime
  BY VeConstants, VeAssumption, SMT DEF Init, VeInit, NoLock, Lock, Times
<1>2. NoVote \in Vote
  BY ControllerConstants, VeConstants, SMT DEF NoVote, Vote, Times
<1>3. 0 \in 0..BPS /\ 0 \in 0..now
  BY <1>1, ControllerConstants, SMT
<1>4. UserTypeOK
  BY <1>1, <1>2, <1>3 DEF Init, VeInit, UserTypeOK
<1>5. RoundToWeek(0) = 0
  <2>1. RoundToWeek(0) \in 0..0
    BY RoundedTime
  <2> QED
    BY <2>1, SMT
<1>6. LocksOK
  <2>1. 0 <= now + MAXTIME
    BY <1>1, ControllerConstants, VeConstants, SMT
  <2> QED
    BY <1>5, <2>1 DEF Init, VeInit, LocksOK, LockOK, NoLock
<1>7. VotesFollowLocks
  <2>1. Bias(NoLock, now) = 0
    <3>1. Slope(NoLock, now) = 0 /\ ~Live(NoLock, now)
      BY DEF Slope, Live, NoLock
    <3>2. 0 * (0 - now) = 0
      BY <1>1, ControllerConstants, SMT
    <3> QED
      BY <3>1, <3>2 DEF Bias, NoLock
  <2> QED
    BY <2>1 DEF Init, VeInit, VotesFollowLocks, Weighed
<1>8. PowerIsSumOfVotes
  <2> DEFINE zero == [g \in Gauges |-> 0]
  <2>1. zero \in [Gauges -> Nat] /\ \A g \in Gauges : zero[g] = 0
    OBVIOUS
  <2>2. \A u \in Users : [g \in Gauges |-> vote_user_slopes[u][g].power] = zero
    BY DEF Init, NoVote
  <2> HIDE DEF zero
  <2>3. Total(zero) = 0
    BY <2>1, ControllerConstants, TotalZero
  <2> QED
    BY <2>2, <2>3 DEF Init, PowerIsSumOfVotes
<1>9. VotesCovered
  <2>1. 0 # MaxUint
    BY VeConstants, VeAssumption, SMT
  <2> QED
    BY <1>5, <2>1 DEF Init, VotesCovered, VoteCovered, NoVote
<1> QED
  BY <1>4, <1>6, <1>7, <1>8, <1>9 DEF UserInv

(* One step, or none. *)
LEMMA NextKeepsUsers == UserInv /\ [Next]_vars => UserInv'
<1> SUFFICES ASSUME UserInv, [Next]_vars PROVE UserInv'
  OBVIOUS
<1>1. CASE EscrowStep
  BY <1>1, EscrowKeepsUsers
<1>2. CASE \E u \in Users, b \in Ballots :
              \E w \in [Chosen(b) -> Weights], a \in [Chosen(b) -> Adjustments] :
                  VoteForGaugeWeights(u, b, w, a)
  BY <1>2, BallotKeepsUsers
<1>3. CASE \/ \E g \in Gauges : \/ AddGauge(g)
                                \/ SetKilled(g, ~is_killed[g])
                                \/ \E a \in Adjustments : Checkpoint(g, a) \/ Emit(g, a)
           \/ StartEmissions
           \/ UNCHANGED vars
  <2>1. UNCHANGED <<now, locked, votes, vote_user_slopes, vote_user_power, last_user_vote>>
    BY <1>3 DEF AddGauge, SetKilled, Checkpoint, Emit, StartEmissions, vars, veVars, userVars
  <2>2. is_killed' \in [Gauges -> BOOLEAN]
    BY <1>3 DEF AddGauge, SetKilled, Checkpoint, Emit, StartEmissions, vars, UserInv, UserTypeOK
  <2> QED
    BY <2>1, <2>2 DEF UserInv, UserTypeOK, LocksOK, LockOK, VotesFollowLocks, PowerIsSumOfVotes,
                      VotesCovered, VoteCovered
<1> QED
  BY <1>1, <1>2, <1>3 DEF Next, ControllerStep

(* The induction hypothesis about users holds always. *)
LEMMA UsersKept == Spec => []UserInv
  BY InitUsers, NextKeepsUsers, PTL DEF Spec

-----------------------------------------------------------------------------
(***************************************************************************)
(* What votes weigh                                                        *)
(***************************************************************************)
(* A vote weighs at most the part of the lock that its power says. *)
LEMMA VoteWithinLock ==
    ASSUME UserInv, NEW u \in Users, NEW g \in Gauges
    PROVE  /\ VoteBias(vote_user_slopes[u][g]) \in Nat
           /\ BPS * VoteBias(vote_user_slopes[u][g]) <= votes[u] * vote_user_slopes[u][g].power
<1> DEFINE vote == vote_user_slopes[u][g]
           lock == locked[u]
           p == vote.power
           s == lock.amount \div MAXTIME
           d == vote.end - now
           weight == VoteBias(vote)
<1>1. /\ VoteCovered(vote, lock)
      /\ vote \in Vote
      /\ lock \in Lock /\ LockOK(lock)
      /\ votes[u] = Bias(lock, now) /\ votes[u] \in Nat
      /\ now \in StartTime..MaxTime
  BY DEF UserInv, UserTypeOK, VotesCovered, LocksOK, VotesFollowLocks, Weighed
<1>2. /\ vote.slope \in Nat /\ vote.bias \in Nat /\ vote.end \in Nat /\ p \in Nat
      /\ now \in Nat /\ now < MaxUint
      /\ lock.amount \in Nat /\ lock.end \in Nat
  BY <1>1, LockType, ControllerConstants, VeConstants, SMT DEF Vote, Times
<1>3. votes[u] * p \in Nat /\ votes[u] * p = p * votes[u]
  BY <1>1, <1>2, SMT
<1>4. ASSUME weight = 0
      PROVE  weight \in Nat /\ BPS * weight <= votes[u] * p
  <2>1. BPS * 0 = 0
    BY ControllerConstants, SMT
  <2> QED
    BY <1>3, <1>4, <2>1, SMT
<1>5. CASE p = 0
  <2>1. vote.slope = 0 /\ vote.bias = 0
    BY <1>1, <1>5 DEF VoteCovered
  <2>2. weight = 0
    BY <1>2, <2>1, SMT DEF VoteBias, Larger
  <2> QED
    BY <1>4, <2>2
<1>6. CASE vote.end <= now
  <2>1. vote.end # MaxUint
    BY <1>2, <1>6, SMT
  <2>2. weight = vote.slope * (now - now)
    BY <1>2, <1>6, <2>1, SMT DEF VoteBias, Larger
  <2>3. weight = 0
    BY <1>2, <2>2, SMT
  <2> QED
    BY <1>4, <2>3
<1>7. CASE p # 0 /\ ~(vote.end <= now)
  <2>1. /\ vote.end <= lock.end
        /\ vote.slope * BPS <= p * s
        /\ vote.end = MaxUint => vote.bias * BPS <= p * lock.amount
        /\ vote.end # MaxUint => d <= MAXTIME
    BY <1>1, <1>2, <1>7, SMT DEF VoteCovered
  <2>2. lock.amount > 0 /\ now < lock.end
    BY <1>1, <1>2, <1>7, <2>1, SMT DEF LockOK
  <2>3. s \in Nat /\ s * MAXTIME <= lock.amount
    BY <1>1, BiasOfLock
  <2>4. lock.end = MaxUint => votes[u] = lock.amount
    BY <1>1, <1>2, <2>2, BiasOfLock
  <2>5. lock.end # MaxUint => votes[u] = s * (lock.end - now)
    BY <1>1, <1>2, <2>2, BiasOfLock
  <2>6. CASE vote.end = MaxUint
    <3>1. weight = vote.bias
      BY <2>6 DEF VoteBias
    <3>2. lock.end = MaxUint
      BY <1>1, <1>2, <2>1, <2>6, ControllerConstants, VeConstants, SMT DEF Lock, Times
    <3>3. vote.bias * BPS <= p * votes[u] /\ vote.bias * BPS = BPS * vote.bias
      BY <1>2, <2>1, <2>4, <2>6, <3>2, ControllerConstants, SMT
    <3> QED
      BY <1>2, <1>3, <3>1, <3>3
  <2>7. CASE vote.end # MaxUint
    <3>1. weight = vote.slope * d /\ d \in Nat /\ d <= MAXTIME
      BY <1>2, <1>7, <2>1, <2>7, SMT DEF VoteBias, Larger
    <3> HIDE DEF weight, d, s, p
    <3>2. weight \in Nat
      BY <1>2, <3>1, SMT
    <3>3. BPS * weight = (vote.slope * BPS) * d
      BY <1>2, <3>1, ControllerConstants, SMT
    <3>4. (vote.slope * BPS) * d <= (p * s) * d
      <4>1. vote.slope * BPS \in Nat /\ p * s \in Nat
        BY <1>2, <2>3, ControllerConstants, SMT
      <4> QED
        BY <2>1, <3>1, <4>1, ProductMonotone
    <3>5. (p * s) * d = p * (s * d) /\ s * d \in Nat /\ (p * s) * d \in Nat
      BY <1>2, <2>3, <3>1, SMT
    <3>6. s * d <= votes[u]
      <4>1. CASE lock.end = MaxUint
        <5>1. s * d <= s * MAXTIME /\ s * MAXTIME \in Nat
          BY <2>3, <3>1, VeConstants, ProductMonotone, SMT
        <5> QED
          BY <1>2, <2>3, <2>4, <3>5, <4>1, <5>1, SMT
      <4>2. CASE lock.end # MaxUint
        <5>1. lock.end - now \in Nat /\ d <= lock.end - now
          BY <1>2, <2>1, <2>2, <3>1, SMT DEF d
        <5>2. s * d <= s * (lock.end - now)
          BY <2>3, <3>1, <5>1, ProductMonotone
        <5> QED
          BY <2>5, <4>2, <5>2
      <4> QED
        BY <4>1, <4>2
    <3>7. p * (s * d) <= p * votes[u]
      BY <1>1, <1>2, <3>5, <3>6, ProductMonotone DEF p
    <3>8. BPS * weight \in Nat /\ p * votes[u] \in Nat /\ (vote.slope * BPS) * d \in Nat
      BY <1>1, <1>2, <3>1, <3>2, <3>3, ControllerConstants, SMT DEF p
    <3>9. BPS * weight <= p * votes[u]
      BY <3>3, <3>4, <3>5, <3>7, <3>8, SMT
    <3> QED
      BY <1>3, <3>2, <3>9 DEF weight, p
  <2> QED
    BY <2>6, <2>7
<1> QED
  BY <1>5, <1>6, <1>7

(* All votes of a user together weigh at most what the lock does. *)
LEMMA UserVotesBacked == UserInv => VotesBacked
<1> SUFFICES ASSUME UserInv, NEW u \in Users
             PROVE  Total([g \in Gauges |-> VoteBias(vote_user_slopes[u][g])]) <= votes[u]
  BY DEF VotesBacked
<1> DEFINE f == [g \in Gauges |-> VoteBias(vote_user_slopes[u][g])]
           p == [g \in Gauges |-> vote_user_slopes[u][g].power]
           h == [g \in Gauges |-> BPS * f[g]]
           k == [g \in Gauges |-> votes[u] * p[g]]
           v == votes[u]
<1>1. v \in Nat /\ BPS \in Nat \ {0} /\ IsFiniteSet(Gauges)
  BY ControllerConstants DEF UserInv, UserTypeOK
<1>2. f \in [Gauges -> Nat]
  BY VoteWithinLock
<1>3. p \in [Gauges -> Nat]
  BY ControllerConstants, SMT DEF UserInv, UserTypeOK, Vote
<1>4. \A g \in Gauges : h[g] = BPS * f[g] /\ k[g] = v * p[g]
  OBVIOUS
<1>5. \A g \in Gauges : h[g] <= k[g]
  BY VoteWithinLock
<1>6. vote_user_power[u] = Total(p) /\ vote_user_power[u] \in 0..BPS
  BY DEF UserInv, UserTypeOK, PowerIsSumOfVotes
<1>7. h \in [Gauges -> Nat] /\ k \in [Gauges -> Nat]
  <2>1. \A g \in Gauges : BPS * f[g] \in Nat /\ v * p[g] \in Nat
    <3> HIDE DEF f, p, v
    <3> QED
      BY <1>1, <1>2, <1>3, SMT
  <2> QED
    BY <2>1
<1> HIDE DEF f, p, h, k, v
<1>8. Total(h) = BPS * Total(f)
  BY <1>1, <1>2, <1>4, <1>7, TotalScaled
<1>9. Total(k) = v * Total(p)
  BY <1>1, <1>3, <1>4, <1>7, TotalScaled
<1>10. Total(h) <= Total(k)
  BY <1>1, <1>5, <1>7, TotalMonotone
<1>11. Total(f) \in Nat /\ Total(p) \in Nat /\ Total(p) <= BPS
  BY <1>1, <1>2, <1>6, TotalType
<1>12. v * Total(p) <= v * BPS /\ v * Total(p) \in Nat /\ v * BPS \in Nat
  BY <1>1, <1>11, ProductMonotone, SMT
<1>13. Total(f) * BPS = BPS * Total(f) /\ Total(f) * BPS \in Nat
  BY <1>1, <1>11, SMT
<1>14. Total(f) * BPS <= v * BPS
  BY <1>8, <1>9, <1>10, <1>12, <1>13, SMT
<1>15. Total(f) <= v
  BY <1>1, <1>11, <1>14, FactorOut
<1> QED
  BY <1>15 DEF f, v

-----------------------------------------------------------------------------
(***************************************************************************)
(* Weeks since a checkpoint                                                *)
(***************************************************************************)
(* Whole weeks come in the order of their numbers. *)
LEMMA WeekOrder ==
    ASSUME NEW e \in Nat, RoundToWeek(e) = e, NEW q \in Nat, q * WEEK < e
    PROVE  (q + 1) * WEEK <= e
<1> DEFINE m == e \div WEEK
<1>1. m \in Nat /\ e = m * WEEK
  BY VeConstants, DivBounds DEF RoundToWeek
<1> HIDE DEF m
<1>2. m > q
  <2> SUFFICES ASSUME m <= q PROVE FALSE
    BY <1>1, SMT
  <2>1. m * WEEK <= q * WEEK /\ m * WEEK \in Nat /\ q * WEEK \in Nat
    BY <1>1, VeConstants, ProductMonotone
  <2> QED
    BY <1>1, <2>1, SMT
<1>3. q + 1 <= m
  BY <1>1, <1>2, SMT
<1> QED
  BY <1>1, <1>3, VeConstants, ProductMonotone

(* GetWeight looks at times from the last checkpoint up to now, one after
   the other, and no lock ends between two of them. *)
LEMMA WeekTimes ==
    ASSUME now \in Nat, NEW t \in 0..now
    PROVE  /\ WeeksSince(t) \in Nat
           /\ \A k \in 0..WeeksSince(t) : TimeAt(t, k) \in 0..now
           /\ \A k \in 1..WeeksSince(t) : TimeAt(t, k - 1) < TimeAt(t, k)
           /\ \A k \in 1..WeeksSince(t), e \in Nat :
                 RoundToWeek(e) = e /\ TimeAt(t, k - 1) < e => TimeAt(t, k) <= e
           /\ \A e \in Nat : RoundToWeek(e) = e /\ TimeAt(t, WeeksSince(t)) < e => now < e
<1> DEFINE p == t \div WEEK
           q == now \div WEEK
           n == WeeksSince(t)
<1>1. /\ p \in Nat /\ p * WEEK <= t /\ t < p * WEEK + WEEK
      /\ q \in Nat /\ q * WEEK <= now /\ now < q * WEEK + WEEK
      /\ p <= q /\ t \in Nat /\ t <= now
  BY VeConstants, DivBounds, DivMonotone
<1>2. RoundToWeek(t) = p * WEEK /\ RoundToWeek(now) = q * WEEK
  BY DEF RoundToWeek
<1>3. n = q - p /\ n \in Nat
  <2>1. n = (q * WEEK - p * WEEK) \div WEEK
    BY <1>2 DEF WeeksSince
  <2> HIDE DEF p, q, n
  <2>2. q * WEEK - p * WEEK = (q - p) * WEEK /\ q - p \in Nat
    BY <1>1, VeConstants, SMT
  <2>3. ((q - p) * WEEK) \div WEEK = q - p
    BY <2>2, VeConstants, MultipleDiv
  <2> QED
    BY <2>1, <2>2, <2>3
<1>4. \A k \in Nat : TimeAt(t, k) = IF k = 0 THEN t ELSE p * WEEK + k * WEEK
  BY <1>2 DEF TimeAt
<1> HIDE DEF p, q, n
<1>5. \A k \in Nat : p * WEEK + k * WEEK = (p + k) * WEEK /\ (p + k) * WEEK \in Nat
  BY <1>1, VeConstants, SMT
<1>6. \A k \in Nat : (p + k) * WEEK <= TimeAt(t, k) /\ TimeAt(t, k) \in Nat
  <2> SUFFICES ASSUME NEW k \in Nat
               PROVE  (p + k) * WEEK <= TimeAt(t, k) /\ TimeAt(t, k) \in Nat
    OBVIOUS
  <2>1. CASE k = 0
    <3>1. (p + k) * WEEK = p * WEEK
      BY <1>1, <2>1, SMT
    <3> QED
      BY <1>1, <1>4, <2>1, <3>1
  <2>2. CASE k # 0
    <3>1. TimeAt(t, k) = (p + k) * WEEK /\ (p + k) * WEEK \in Nat
      BY <1>4, <1>5, <2>2
    <3> QED
      BY <3>1, SMT
  <2> QED
    BY <2>1, <2>2
<1>7. ASSUME NEW k \in 0..n PROVE TimeAt(t, k) \in 0..now
  <2>1. k \in Nat /\ p + k \in Nat /\ p + k <= q
    BY <1>1, <1>3, SMT
  <2>2. (p + k) * WEEK <= q * WEEK /\ (p + k) * WEEK \in Nat /\ q * WEEK \in Nat
    BY <1>1, <2>1, VeConstants, ProductMonotone
  <2>3. TimeAt(t, k) = IF k = 0 THEN t ELSE (p + k) * WEEK
    BY <1>4, <1>5, <2>1
  <2> QED
    BY <1>1, <2>2, <2>3, SMT
<1>8. ASSUME NEW k \in 1..n
      PROVE  /\ k - 1 \in Nat /\ k \in Nat /\ (p + (k - 1)) + 1 = p + k
             /\ TimeAt(t, k) = (p + k) * WEEK
             /\ (p + (k - 1)) * WEEK \in Nat /\ (p + k) * WEEK = (p + (k - 1)) * WEEK + WEEK
             /\ TimeAt(t, k - 1) < TimeAt(t, k)
  <2>1. k - 1 \in Nat /\ k \in Nat /\ k # 0 /\ (p + (k - 1)) + 1 = p + k
    BY <1>1, <1>3, SMT
  <2>2. TimeAt(t, k) = (p + k) * WEEK
    BY <1>4, <1>5, <2>1
  <2>3. (p + (k - 1)) * WEEK \in Nat /\ (p + k) * WEEK = (p + (k - 1)) * WEEK + WEEK
    <3> DEFINE j == p + (k - 1)
    <3>1. j \in Nat /\ p + k = j + 1
      BY <1>1, <2>1, SMT
    <3> HIDE DEF j
    <3>2. j * WEEK \in Nat /\ (j + 1) * WEEK = j * WEEK + WEEK
      BY <3>1, VeConstants, SMT
    <3> QED
      BY <3>1, <3>2 DEF j
  <2>4. TimeAt(t, k - 1) < TimeAt(t, k)
    <3>1. CASE k = 1
      <4>1. TimeAt(t, k - 1) = t
        BY <1>4, <2>1, <3>1
      <4>2. (p + k) * WEEK = p * WEEK + WEEK
        BY <1>1, <3>1, VeConstants, SMT
      <4> QED
        BY <1>1, <2>2, <4>1, <4>2
    <3>2. CASE k # 1
      <4>1. k - 1 # 0
        BY <2>1, <3>2, SMT
      <4>2. TimeAt(t, k - 1) = (p + (k - 1)) * WEEK
        BY <1>4, <1>5, <2>1, <4>1
      <4> QED
        BY <2>2, <2>3, <4>2, VeConstants, SMT
    <3> QED
      BY <3>1, <3>2
  <2> QED
    BY <2>1, <2>2, <2>3, <2>4
<1>9. ASSUME NEW k \in 1..n, NEW e \in Nat, RoundToWeek(e) = e, TimeAt(t, k - 1) < e
      PROVE  TimeAt(t, k) <= e
  <2> DEFINE j == p + (k - 1)
  <2>1. j \in Nat /\ j + 1 = p + k /\ j * WEEK <= TimeAt(t, k - 1) /\ TimeAt(t, k - 1) \in Nat
    BY <1>1, <1>6, <1>8, SMT
  <2>2. TimeAt(t, k) = (p + k) * WEEK /\ j * WEEK \in Nat
    BY <1>8
  <2> HIDE DEF j
  <2>3. j * WEEK < e
    BY <1>9, <2>1, <2>2, SMT
  <2>4. (j + 1) * WEEK <= e
    BY <1>9, <2>1, <2>3, WeekOrder
  <2> QED
    BY <2>1, <2>2, <2>4
<1>10. ASSUME NEW e \in Nat, RoundToWeek(e) = e, TimeAt(t, n) < e
       PROVE  now < e
  <2>1. p + n = q
    BY <1>1, <1>3, SMT
  <2>2. q * WEEK <= TimeAt(t, n) /\ TimeAt(t, n) \in Nat /\ q * WEEK \in Nat
    BY <1>3, <1>5, <1>6, <2>1
  <2>3. q * WEEK < e
    BY <1>10, <2>2, SMT
  <2>4. (q + 1) * WEEK <= e
    BY <1>1, <1>10, <2>3, WeekOrder
  <2>5. (q + 1) * WEEK = q * WEEK + WEEK
    BY <1>1, VeConstants, SMT
  <2> QED
    BY <1>1, <2>2, <2>4, <2>5, VeConstants, SMT
<1> QED
  BY <1>3, <1>7, <1>8, <1>9, <1>10 DEF n

-----------------------------------------------------------------------------
(***************************************************************************)
(* The point of a gauge, week by week                                      *)
(***************************************************************************)
\* The point a week on.
PointAfter(pt, changes, t, k) ==
    Decayed(pt, TimeAt(t, k) - TimeAt(t, k - 1), changes[TimeAt(t, k)])

\* r is the recursive function of GetWeight.
IsRun(r, p, changes, t, n) ==
    r = [k \in 0..n |-> IF k = 0 THEN p ELSE PointAfter(r[k - 1], changes, t, k)]

(* There is such a function. *)
LEMMA RunExists ==
    ASSUME NEW p, NEW changes, NEW t, NEW n \in Nat
    PROVE  \E r : IsRun(r, p, changes, t, n)
<1> DEFINE G == {m \in Nat : \E r : IsRun(r, p, changes, t, m)}
<1>1. 0 \in G
  <2> DEFINE r == [k \in 0..0 |-> p]
  <2>1. r = [k \in 0..0 |-> IF k = 0 THEN p ELSE PointAfter(r[k - 1], changes, t, k)]
    OBVIOUS
  <2> HIDE DEF r
  <2> QED
    BY <2>1 DEF IsRun
<1>2. ASSUME NEW m \in Nat, m \in G PROVE m + 1 \in G
  <2>1. PICK r : IsRun(r, p, changes, t, m)
    BY <1>2
  <2> DEFINE x == [k \in 0..(m + 1) |-> IF k <= m THEN r[k] ELSE PointAfter(r[m], changes, t, k)]
  <2>2. ASSUME NEW k \in 0..(m + 1)
        PROVE  x[k] = IF k = 0 THEN p ELSE PointAfter(x[k - 1], changes, t, k)
    <3>1. CASE k = 0
      <4>1. x[k] = r[k] /\ k \in 0..m
        BY <3>1
      <4> QED
        BY <2>1, <3>1, <4>1 DEF IsRun
    <3>2. CASE k # 0 /\ k <= m
      <4>1. x[k] = r[k] /\ k \in 0..m /\ k - 1 \in 0..m /\ x[k - 1] = r[k - 1]
        BY <3>2
      <4>2. r[k] = PointAfter(r[k - 1], changes, t, k)
        BY <2>1, <3>2, <4>1 DEF IsRun
      <4> QED
        BY <3>2, <4>1, <4>2
    <3>3. CASE k = m + 1
      <4>1. k - 1 = m /\ k # 0 /\ ~(k <= m)
        BY <3>3
      <4>2. x[m] = r[m] /\ x[k] = PointAfter(r[m], changes, t, k)
        BY <4>1
      <4> QED
        BY <4>1, <4>2
    <3> QED
      BY <3>1, <3>2, <3>3
  <2>3. x = [k \in 0..(m + 1) |-> x[k]]
    OBVIOUS
  <2> HIDE DEF x
  <2>4. IsRun(x, p, changes, t, m + 1)
    BY <2>2, <2>3 DEF IsRun
  <2> QED
    BY <2>4
<1>3. n \in G
  <2> HIDE DEF G
  <2> QED
    BY <1>1, <1>2, StepInduction
<1> QED
  BY <1>3

(* GetWeight follows it up to the last week, and from there to now. *)
LEMMA GetWeightIsRun ==
    ASSUME NEW s, NEW g, WeeksSince(s.time_weight[g]) \in Nat
    PROVE  \E r : LET t == s.time_weight[g]
                      n == WeeksSince(t)
                      changes == s.changes_weight[g]
                  IN  /\ IsRun(r, s.point_weight[g], changes, t, n)
                      /\ GetWeight(s, g) =
                            IF ~Added(s, g) THEN [bias |-> 0, slope |-> 0]
                            ELSE IF now = TimeAt(t, n) THEN r[n]
                            ELSE Decayed(r[n], now - TimeAt(t, n), changes[now])
<1> DEFINE t == s.time_weight[g]
           n == WeeksSince(t)
           p == s.point_weight[g]
           changes == s.changes_weight[g]
           run == CHOOSE r : IsRun(r, p, changes, t, n)
<1>1. GetWeight(s, g) =
         IF ~Added(s, g) THEN [bias |-> 0, slope |-> 0]
         ELSE IF now = TimeAt(t, n) THEN run[n]
         ELSE Decayed(run[n], now - TimeAt(t, n), changes[now])
  BY DEF GetWeight, IsRun, PointAfter
<1>2. \E r : IsRun(r, p, changes, t, n)
  <2> HIDE DEF p, changes, t
  <2> QED
    BY RunExists DEF t
<1>3. IsRun(run, p, changes, t, n)
  <2> HIDE DEF p, changes, t, n
  <2> QED
    BY <1>2
<1> HIDE DEF run
<1> QED
  BY <1>1, <1>3

(* Decay leaves a point. *)
LEMMA DecayedType ==
    ASSUME NEW pt \in WeightPoint, NEW dt \in Nat, NEW change \in Nat
    PROVE  Decayed(pt, dt, change) \in WeightPoint
<1>1. pt.bias \in Nat /\ pt.slope \in Nat
  BY DEF WeightPoint
<1>2. pt.slope * dt \in Nat
  BY <1>1, SMT
<1>3. pt.bias - Smaller(pt.slope * dt, pt.bias) \in Nat
  <2> DEFINE x == pt.slope * dt
  <2>1. x \in Nat
    BY <1>2
  <2> HIDE DEF x
  <2>2. pt.bias - Smaller(x, pt.bias) \in Nat
    BY <1>1, <2>1, SMT DEF Smaller
  <2> QED
    BY <2>2 DEF x
<1>4. pt.slope - Smaller(change, pt.slope) \in Nat
  BY <1>1, SMT DEF Smaller
<1> QED
  BY <1>3, <1>4 DEF Decayed, WeightPoint

\* No week starts between a and b.
SameWeek(a, b) ==
    /\ a \in 0..now /\ b \in 0..now /\ a < b
    /\ \A e \in Nat : RoundToWeek(e) = e /\ a < e => b <= e

(* What is true of the point at the last checkpoint, and stays true of a point
   that decays within a week, is true of the point now.  K holds the points
   of which it is true, with their times. *)
LEMMA GetWeightInduction ==
    ASSUME now \in Nat, NEW s, NEW g, s.time_weight[g] \in 0..now, Added(s, g), NEW K,
           <<s.point_weight[g], s.time_weight[g]>> \in K,
           \A pt, a, b : <<pt, a>> \in K /\ SameWeek(a, b) =>
               <<Decayed(pt, b - a, s.changes_weight[g][b]), b>> \in K
    PROVE  <<GetWeight(s, g), now>> \in K
<1> DEFINE t == s.time_weight[g]
           n == WeeksSince(t)
           p == s.point_weight[g]
           changes == s.changes_weight[g]
<1>1. /\ n \in Nat
      /\ \A k \in 0..n : TimeAt(t, k) \in 0..now
      /\ \A k \in 1..n : TimeAt(t, k - 1) < TimeAt(t, k)
      /\ \A k \in 1..n, e \in Nat : RoundToWeek(e) = e /\ TimeAt(t, k - 1) < e => TimeAt(t, k) <= e
      /\ \A e \in Nat : RoundToWeek(e) = e /\ TimeAt(t, n) < e => now < e
  BY WeekTimes
<1>2. PICK r : /\ IsRun(r, p, changes, t, n)
               /\ GetWeight(s, g) = IF now = TimeAt(t, n) THEN r[n]
                                    ELSE Decayed(r[n], now - TimeAt(t, n), changes[now])
  BY <1>1, GetWeightIsRun
<1>3. TimeAt(t, 0) = t
  BY DEF TimeAt
<1>4. \A pt, a, b : <<pt, a>> \in K /\ SameWeek(a, b) => <<Decayed(pt, b - a, changes[b]), b>> \in K
  OBVIOUS
<1>5. <<p, t>> \in K
  OBVIOUS
<1> HIDE DEF n, p, changes, t
<1> DEFINE G == {m \in Nat : m <= n => <<r[m], TimeAt(t, m)>> \in K}
<1>6. 0 \in G
  <2>1. r[0] = p
    BY <1>1, <1>2 DEF IsRun
  <2> QED
    BY <1>3, <1>5, <2>1
<1>7. ASSUME NEW m \in Nat, m \in G PROVE m + 1 \in G
  <2> SUFFICES ASSUME m + 1 <= n PROVE <<r[m + 1], TimeAt(t, m + 1)>> \in K
    OBVIOUS
  <2> DEFINE k == m + 1
  <2>1. k \in 1..n /\ k \in 0..n /\ k - 1 = m /\ k # 0 /\ m \in 0..n /\ m <= n
    BY <1>1, SMT
  <2> HIDE DEF k
  <2>2. r[k] = Decayed(r[m], TimeAt(t, k) - TimeAt(t, m), changes[TimeAt(t, k)])
    BY <1>2, <2>1 DEF IsRun, PointAfter
  <2>3. SameWeek(TimeAt(t, m), TimeAt(t, k))
    <3>1. TimeAt(t, m) \in 0..now /\ TimeAt(t, k) \in 0..now
      BY <1>1, <2>1
    <3>2. TimeAt(t, m) < TimeAt(t, k)
      BY <1>1, <2>1
    <3>3. \A e \in Nat : RoundToWeek(e) = e /\ TimeAt(t, m) < e => TimeAt(t, k) <= e
      BY <1>1, <2>1
    <3> QED
      BY <3>1, <3>2, <3>3 DEF SameWeek
  <2>4. <<r[m], TimeAt(t, m)>> \in K
    BY <1>7, <2>1
  <2> QED
    BY <1>4, <2>2, <2>3, <2>4 DEF k
<1>8. n \in G
  <2> HIDE DEF G
  <2> QED
    BY <1>1, <1>6, <1>7, StepInduction
<1>9. <<r[n], TimeAt(t, n)>> \in K
  BY <1>1, <1>8
<1>10. CASE now = TimeAt(t, n)
  BY <1>2, <1>9, <1>10
<1>11. CASE now # TimeAt(t, n)
  <2>1. TimeAt(t, n) \in 0..now /\ now \in 0..now
    BY <1>1
  <2>2. TimeAt(t, n) < now
    BY <1>11, <2>1, SMT
  <2>3. \A e \in Nat : RoundToWeek(e) = e /\ TimeAt(t, n) < e => now <= e
    BY <1>1
  <2>4. SameWeek(TimeAt(t, n), now)
    BY <2>1, <2>2, <2>3 DEF SameWeek
  <2> QED
    BY <1>2, <1>4, <1>9, <1>11, <2>4
<1> QED
  BY <1>10, <1>11

(* The weight of a gauge is a number. *)
LEMMA GetWeightType ==
    ASSUME UserInv, NEW s \in GcState(now), NEW g \in Gauges
    PROVE  GetWeight(s, g) \in WeightPoint
<1>1. now \in Nat /\ now <= MaxTime /\ 0..now \subseteq Times
  BY ControllerConstants, VeConstants, SMT DEF UserInv, UserTypeOK, Times
<1>2. /\ s.point_weight[g] \in WeightPoint
      /\ s.changes_weight[g] \in [Times \cup {MaxUint} -> Nat]
      /\ s.time_weight[g] \in 0..now
  BY DEF GcState
<1>3. CASE ~Added(s, g)
  <2>1. GetWeight(s, g) = [bias |-> 0, slope |-> 0]
    BY <1>3 DEF GetWeight
  <2> QED
    BY <2>1 DEF WeightPoint
<1>4. CASE Added(s, g)
  <2> DEFINE K == WeightPoint \X Nat
  <2>1. <<s.point_weight[g], s.time_weight[g]>> \in K
    BY <1>2
  <2>2. ASSUME NEW pt, NEW a, NEW b, <<pt, a>> \in K, SameWeek(a, b)
        PROVE  <<Decayed(pt, b - a, s.changes_weight[g][b]), b>> \in K
    <3>1. pt \in WeightPoint /\ b \in 0..now /\ b - a \in Nat /\ b \in Nat
      BY <1>1, <2>2, SMT DEF SameWeek
    <3>2. s.changes_weight[g][b] \in Nat
      BY <1>1, <1>2, <3>1
    <3> QED
      BY <3>1, <3>2, DecayedType
  <2> HIDE DEF K
  <2>3. <<GetWeight(s, g), now>> \in K
    BY <1>1, <1>2, <1>4, <2>1, <2>2, GetWeightInduction
  <2> QED
    BY <2>3 DEF K
<1> QED
  BY <1>3, <1>4

-----------------------------------------------------------------------------
(***************************************************************************)
(* Checkpoints of a gauge                                                  *)
(***************************************************************************)
\* The new values of a checkpoint.
PointOf(s, g) == GetWeight(s, g)
AdjustedOf(s, g, a) == AdjustedWeight(PointOf(s, g).bias, a)
SpecificOf(s) ==
    s.specific_emissions + unsafe_div(Emission(s) * WAD, s.adjusted_gauge_weight_sum)

(* What a checkpoint writes. *)
LEMMA CheckpointFields ==
    ASSUME NEW s \in GcState(now), NEW g \in Gauges, NEW a
    PROVE  LET first == now > s.time_weight[g]
           IN  CheckpointGauge(s, g, a) =
                   [point_weight |-> [s.point_weight EXCEPT ![g] = PointOf(s, g)],
                    changes_weight |-> s.changes_weight,
                    time_weight |-> [s.time_weight EXCEPT ![g] = now],
                    gauge_weight |-> [s.gauge_weight EXCEPT ![g] = PointOf(s, g).bias],
                    gauge_weight_sum |-> s.gauge_weight_sum + PointOf(s, g).bias - s.gauge_weight[g],
                    adjusted_gauge_weight |->
                        [s.adjusted_gauge_weight EXCEPT ![g] = AdjustedOf(s, g, a)],
                    adjusted_gauge_weight_sum |->
                        s.adjusted_gauge_weight_sum + AdjustedOf(s, g, a) - s.adjusted_gauge_weight[g],
                    specific_emissions |-> SpecificOf(s),
                    specific_emissions_per_gauge |->
                        IF first THEN [s.specific_emissions_per_gauge EXCEPT ![g] = SpecificOf(s)]
                        ELSE s.specific_emissions_per_gauge,
                    weighted_emissions_per_gauge |->
                        IF first THEN [s.weighted_emissions_per_gauge EXCEPT
                                           ![g] = @ + Credit(s, g, SpecificOf(s))]
                        ELSE s.weighted_emissions_per_gauge,
                    sent_emissions_per_gauge |-> s.sent_emissions_per_gauge,
                    sent |-> s.sent,
                    minted |-> s.minted + Emission(s),
                    last_minted |-> IF s.last_minted = 0 THEN 0 ELSE now]
<1> DEFINE pt == PointOf(s, g)
           aw == AdjustedOf(s, g, a)
           d == Emission(s)
           specific == SpecificOf(s)
           credit == Credit(s, g, specific)
           w == WeighedGauge(s, g, pt, aw)
           minted == [w EXCEPT
            !.minted = @ + d,
            !.last_minted = IF @ = 0 THEN 0 ELSE now,
            !.time_weight[g] = now,
            !.specific_emissions = specific]
           A == [s.point_weight EXCEPT ![g] = pt]
           B == [s.gauge_weight EXCEPT ![g] = pt.bias]
           C == s.gauge_weight_sum + pt.bias - s.gauge_weight[g]
           D == [s.adjusted_gauge_weight EXCEPT ![g] = aw]
           E == s.adjusted_gauge_weight_sum + aw - s.adjusted_gauge_weight[g]
           F == s.minted + d
           G == IF s.last_minted = 0 THEN 0 ELSE now
           H == [s.time_weight EXCEPT ![g] = now]
           I == [s.weighted_emissions_per_gauge EXCEPT ![g] = @ + credit]
           J == [s.specific_emissions_per_gauge EXCEPT ![g] = specific]
<1>1. CheckpointGauge(s, g, a) =
        IF now > s.time_weight[g]
        THEN [minted EXCEPT !.weighted_emissions_per_gauge[g] = @ + credit,
                            !.specific_emissions_per_gauge[g] = specific]
        ELSE minted
  BY DEF CheckpointGauge, PointOf, AdjustedOf, SpecificOf
<1> HIDE DEF credit, pt, aw, specific, d
<1>2. w = [s EXCEPT !.point_weight = A, !.gauge_weight = B, !.gauge_weight_sum = C,
                    !.adjusted_gauge_weight = D, !.adjusted_gauge_weight_sum = E]
  BY DEF WeighedGauge, GcState
<1> HIDE DEF w
<1>3. s = [point_weight |-> s.point_weight,
           changes_weight |-> s.changes_weight,
           time_weight |-> s.time_weight,
           gauge_weight |-> s.gauge_weight,
           gauge_weight_sum |-> s.gauge_weight_sum,
           adjusted_gauge_weight |-> s.adjusted_gauge_weight,
           adjusted_gauge_weight_sum |-> s.adjusted_gauge_weight_sum,
           specific_emissions |-> s.specific_emissions,
           specific_emissions_per_gauge |-> s.specific_emissions_per_gauge,
           weighted_emissions_per_gauge |-> s.weighted_emissions_per_gauge,
           sent_emissions_per_gauge |-> s.sent_emissions_per_gauge,
           sent |-> s.sent,
           minted |-> s.minted,
           last_minted |-> s.last_minted]
  BY DEF GcState
<1>4. w = [point_weight |-> A,
           changes_weight |-> s.changes_weight,
           time_weight |-> s.time_weight,
           gauge_weight |-> B,
           gauge_weight_sum |-> C,
           adjusted_gauge_weight |-> D,
           adjusted_gauge_weight_sum |-> E,
           specific_emissions |-> s.specific_emissions,
           specific_emissions_per_gauge |-> s.specific_emissions_per_gauge,
           weighted_emissions_per_gauge |-> s.weighted_emissions_per_gauge,
           sent_emissions_per_gauge |-> s.sent_emissions_per_gauge,
           sent |-> s.sent,
           minted |-> s.minted,
           last_minted |-> s.last_minted]
  <2> HIDE DEF A, B, C, D, E
  <2> QED
    BY <1>2, <1>3
<1>5. minted = [w EXCEPT !.minted = F, !.last_minted = G, !.time_weight = H,
                         !.specific_emissions = specific]
  <2> HIDE DEF A, B, C, D, E
  <2> QED
    BY <1>4
<1> HIDE DEF minted
<1>6. minted = [point_weight |-> A,
                changes_weight |-> s.changes_weight,
                time_weight |-> H,
                gauge_weight |-> B,
                gauge_weight_sum |-> C,
                adjusted_gauge_weight |-> D,
                adjusted_gauge_weight_sum |-> E,
                specific_emissions |-> specific,
                specific_emissions_per_gauge |-> s.specific_emissions_per_gauge,
                weighted_emissions_per_gauge |-> s.weighted_emissions_per_gauge,
                sent_emissions_per_gauge |-> s.sent_emissions_per_gauge,
                sent |-> s.sent,
                minted |-> F,
                last_minted |-> G]
  <2> HIDE DEF A, B, C, D, E, F, G, H
  <2> QED
    BY <1>4, <1>5
<1>7. CASE now > s.time_weight[g]
  <2>1. CheckpointGauge(s, g, a) = [minted EXCEPT !.weighted_emissions_per_gauge = I,
                                                  !.specific_emissions_per_gauge = J]
    <3> HIDE DEF A, B, C, D, E, F, G, H
    <3> QED
      BY <1>1, <1>6, <1>7
  <2> HIDE DEF A, B, C, D, E, F, G, H, I, J
  <2>2. CheckpointGauge(s, g, a) =
               [point_weight |-> A,
                changes_weight |-> s.changes_weight,
                time_weight |-> H,
                gauge_weight |-> B,
                gauge_weight_sum |-> C,
                adjusted_gauge_weight |-> D,
                adjusted_gauge_weight_sum |-> E,
                specific_emissions |-> specific,
                specific_emissions_per_gauge |-> J,
                weighted_emissions_per_gauge |-> I,
                sent_emissions_per_gauge |-> s.sent_emissions_per_gauge,
                sent |-> s.sent,
                minted |-> F,
                last_minted |-> G]
    BY <1>6, <2>1
  <2> QED
    BY <1>7, <2>2, Zenon DEF A, B, C, D, E, F, G, H, I, J, pt, aw, d, specific, credit
<1>8. CASE ~(now > s.time_weight[g])
  <2>1. CheckpointGauge(s, g, a) = minted
    BY <1>1, <1>8
  <2> QED
    BY <1>6, <1>8, <2>1, Zenon DEF A, B, C, D, E, F, G, H, pt, aw, d, specific, credit
<1> QED
  BY <1>7, <1>8

-----------------------------------------------------------------------------
(***************************************************************************)
(* Induction hypothesis about emissions                                    *)
(***************************************************************************)
\* What a gauge will be credited with for its present weight, its head start
\* apart, in units of 1 / WAD.
Pending(s, g) ==
    IF s.time_weight[g] = now THEN 0
    ELSE (s.specific_emissions - s.specific_emissions_per_gauge[g]) * s.adjusted_gauge_weight[g]

\* What is due to a gauge: what it was credited with and not sent, and that.
Due(s, g) ==
    (s.weighted_emissions_per_gauge[g] - s.sent_emissions_per_gauge[g]) * WAD + Pending(s, g)

Dues(s) == [g \in Gauges |-> Due(s, g)]

\* What is subtracted from is never smaller.
GaugeOK(s, g) ==
    /\ s.adjusted_gauge_weight[g] <= s.gauge_weight[g]
    /\ s.specific_emissions_per_gauge[g] <= s.specific_emissions
    /\ s.sent_emissions_per_gauge[g] <= s.weighted_emissions_per_gauge[g]

\* The sums over the gauges are in step with them, and what is due to them is
\* within what was minted for them, but for the head starts of the past.
SharesOK(s) ==
    /\ s \in GcState(now)
    /\ \A g \in Gauges : GaugeOK(s, g)
    /\ s.gauge_weight_sum = Total(s.gauge_weight)
    /\ s.adjusted_gauge_weight_sum = Total(s.adjusted_gauge_weight)
    /\ s.last_minted = 0 => s.specific_emissions = 0
    /\ s.sent <= s.minted
    /\ s.minted <= RESERVE
    /\ overcredited \in Nat
    /\ Total(Dues(s)) <= (s.minted - s.sent) * WAD + overcredited

(* A state of the controller is made of numbers. *)
LEMMA GcTypes ==
    ASSUME NEW s, s \in GcState(now)
    PROVE  /\ s.gauge_weight \in [Gauges -> Nat]
           /\ s.adjusted_gauge_weight \in [Gauges -> Nat]
           /\ s.specific_emissions_per_gauge \in [Gauges -> Nat]
           /\ s.weighted_emissions_per_gauge \in [Gauges -> Nat]
           /\ s.sent_emissions_per_gauge \in [Gauges -> Nat]
           /\ s.time_weight \in [Gauges -> 0..now]
           /\ s.point_weight \in [Gauges -> WeightPoint]
           /\ s.changes_weight \in [Gauges -> [Times \cup {MaxUint} -> Nat]]
           /\ s.gauge_weight_sum \in Nat
           /\ s.adjusted_gauge_weight_sum \in Nat
           /\ s.specific_emissions \in Nat
           /\ s.sent \in Nat
           /\ s.minted \in Nat
           /\ s.last_minted \in 0..now
  BY DEF GcState

(* Division by zero, as in the EVM. *)
LEMMA UnsafeDivBounds ==
    ASSUME NEW a \in Nat, NEW b \in Nat
    PROVE  /\ unsafe_div(a, b) \in Nat
           /\ unsafe_div(a, b) * b <= a
<1>1. CASE b = 0
  BY <1>1, SMT DEF unsafe_div
<1>2. CASE b # 0
  BY <1>2, DivBounds DEF unsafe_div
<1> QED
  BY <1>1, <1>2

(* What is due to a gauge is a number. *)
LEMMA DuesType ==
    ASSUME NEW s, s \in GcState(now), \A g \in Gauges : GaugeOK(s, g)
    PROVE  Dues(s) \in [Gauges -> Nat]
<1> SUFFICES ASSUME NEW g \in Gauges PROVE Due(s, g) \in Nat
  BY DEF Dues
<1> DEFINE x == s.weighted_emissions_per_gauge[g] - s.sent_emissions_per_gauge[g]
           y == s.specific_emissions - s.specific_emissions_per_gauge[g]
           aw == s.adjusted_gauge_weight[g]
<1>1. /\ s.weighted_emissions_per_gauge[g] \in Nat /\ s.sent_emissions_per_gauge[g] \in Nat
      /\ s.specific_emissions \in Nat /\ s.specific_emissions_per_gauge[g] \in Nat
      /\ aw \in Nat
  BY GcTypes
<1>2. x \in Nat /\ y \in Nat
  BY <1>1, SMT DEF GaugeOK
<1>3. Due(s, g) = x * WAD + IF s.time_weight[g] = now THEN 0 ELSE y * aw
  BY DEF Due, Pending
<1> HIDE DEF x, y, aw
<1>4. x * WAD \in Nat /\ y * aw \in Nat
  BY <1>1, <1>2, ControllerConstants, SMT
<1> QED
  BY <1>3, <1>4, SMT

(* What is minted is within the reserve, and nothing is in the block of the
   last mint or before emissions start. *)
LEMMA EmissionType ==
    ASSUME UserInv, NEW s, SharesOK(s)
    PROVE  /\ Emission(s) \in Nat
           /\ s.minted + Emission(s) <= RESERVE
           /\ s.last_minted = 0 \/ s.last_minted = now => Emission(s) = 0
<1> DEFINE factor == unsafe_div(s.adjusted_gauge_weight_sum * WAD, s.gauge_weight_sum)
           dt == now - s.last_minted
           e == (RATE * dt * factor) \div WAD
<1>1. /\ now \in Nat /\ s.last_minted \in Nat /\ s.last_minted <= now
      /\ s.minted \in Nat /\ s.minted <= RESERVE /\ RESERVE \in Nat
      /\ s.adjusted_gauge_weight_sum \in Nat /\ s.gauge_weight_sum \in Nat
  BY GcTypes, ControllerConstants, SMT DEF UserInv, UserTypeOK, SharesOK
<1>2. factor \in Nat
  <2>1. s.adjusted_gauge_weight_sum * WAD \in Nat
    BY <1>1, ControllerConstants, SMT
  <2> QED
    BY <1>1, <2>1, UnsafeDivBounds
<1>3. dt \in Nat
  BY <1>1, SMT
<1>4. Emission(s) = IF s.last_minted = 0 THEN 0 ELSE Smaller(e, RESERVE - s.minted)
  BY DEF Emission, rate_factor
<1> HIDE DEF factor
<1>5. RATE * dt * factor \in Nat
  <2> HIDE DEF dt
  <2> QED
    BY <1>2, <1>3, ControllerConstants, SMT
<1>6. e \in Nat
  BY <1>5, ControllerConstants, DivBounds
<1>7. s.last_minted = now => e = 0
  <2>1. s.last_minted = now => dt = 0
    BY <1>1, SMT
  <2>2. RATE * 0 * factor = 0 /\ 0 \div WAD = 0
    BY <1>2, ControllerConstants, SMT
  <2> QED
    BY <2>1, <2>2
<1> HIDE DEF e
<1> QED
  BY <1>1, <1>4, <1>6, <1>7, SMT DEF Smaller

(* The gauges share no more than what is minted. *)
LEMMA EmissionShared ==
    ASSUME UserInv, NEW s, SharesOK(s)
    PROVE  /\ SpecificOf(s) \in Nat
           /\ SpecificOf(s) >= s.specific_emissions
           /\ (SpecificOf(s) - s.specific_emissions) * s.adjusted_gauge_weight_sum <= Emission(s) * WAD
           /\ Emission(s) * WAD \in Nat
           /\ s.last_minted = 0 \/ s.last_minted = now => SpecificOf(s) = s.specific_emissions
<1> DEFINE d == Emission(s) * WAD
           x == unsafe_div(d, s.adjusted_gauge_weight_sum)
<1>1. Emission(s) \in Nat /\ (s.last_minted = 0 \/ s.last_minted = now => Emission(s) = 0)
  BY EmissionType
<1>2. d \in Nat /\ (Emission(s) = 0 => d = 0)
  BY <1>1, ControllerConstants, SMT
<1>3. s.adjusted_gauge_weight_sum \in Nat /\ s.specific_emissions \in Nat
  BY GcTypes DEF SharesOK
<1>4. SpecificOf(s) = s.specific_emissions + x
  BY DEF SpecificOf
<1> HIDE DEF d
<1>5. x \in Nat /\ x * s.adjusted_gauge_weight_sum <= d
  BY <1>2, <1>3, UnsafeDivBounds
<1>6. d = 0 => x = 0
  <2>1. s.adjusted_gauge_weight_sum # 0 => 0 \div s.adjusted_gauge_weight_sum = 0
    BY <1>3, SMT
  <2> QED
    BY <2>1 DEF unsafe_div
<1> HIDE DEF x
<1>7. SpecificOf(s) - s.specific_emissions = x
  BY <1>3, <1>4, <1>5, SMT
<1>8. SpecificOf(s) \in Nat /\ SpecificOf(s) >= s.specific_emissions
  BY <1>3, <1>4, <1>5, SMT
<1>9. s.last_minted = 0 \/ s.last_minted = now => SpecificOf(s) = s.specific_emissions
  BY <1>1, <1>2, <1>3, <1>4, <1>6, SMT
<1> QED
  BY <1>2, <1>5, <1>7, <1>8, <1>9 DEF d

(* An adjusted weight is within the weight. *)
LEMMA AdjustedType ==
    ASSUME NEW bias \in Nat, NEW a \in Nat
    PROVE  AdjustedWeight(bias, a) \in Nat /\ AdjustedWeight(bias, a) <= bias
<1> DEFINE m == Smaller(a, WAD)
<1>1. m \in Nat /\ m <= WAD /\ WAD \in Nat \ {0}
  BY ControllerConstants, SMT DEF Smaller
<1>2. AdjustedWeight(bias, a) = (bias * m) \div WAD
  BY DEF AdjustedWeight
<1> HIDE DEF m
<1>3. bias * m \in Nat /\ bias * WAD \in Nat /\ bias * m <= bias * WAD
  BY <1>1, ProductMonotone, SMT
<1>4. (bias * m) \div WAD \in Nat /\ (bias * m) \div WAD <= (bias * WAD) \div WAD
  BY <1>1, <1>3, DivBounds, DivMonotone
<1>5. (bias * WAD) \div WAD = bias
  BY <1>1, MultipleDiv
<1> QED
  BY <1>2, <1>4, <1>5

(* What a gauge is credited with is within what was due to it. *)
LEMMA CreditBounds ==
    ASSUME NEW s, s \in GcState(now), NEW g \in Gauges, NEW specific \in Nat,
           s.specific_emissions_per_gauge[g] <= specific
    PROVE  /\ Credit(s, g, specific) \in Nat
           /\ Credit(s, g, specific) * WAD
                 <= (specific - s.specific_emissions_per_gauge[g]) * s.adjusted_gauge_weight[g]
<1> DEFINE x == (specific - s.specific_emissions_per_gauge[g]) * s.adjusted_gauge_weight[g]
<1>1. x \in Nat
  <2>1. s.specific_emissions_per_gauge[g] \in Nat /\ s.adjusted_gauge_weight[g] \in Nat
    BY GcTypes
  <2>2. specific - s.specific_emissions_per_gauge[g] \in Nat
    BY <2>1, SMT
  <2> QED
    BY <2>1, <2>2, SMT
<1>2. Credit(s, g, specific) = x \div WAD
  BY DEF Credit
<1> HIDE DEF x
<1>3. x \div WAD \in Nat /\ (x \div WAD) * WAD <= x
  BY <1>1, ControllerConstants, DivBounds
<1> QED
  BY <1>2, <1>3 DEF x

(* A checkpoint keeps the sums in step, and shares what it mints. *)
LEMMA CheckpointKeepsShares ==
    ASSUME UserInv, NEW s, SharesOK(s), NEW g \in Gauges, NEW a \in Nat
    PROVE  SharesOK(CheckpointGauge(s, g, a))
<1> DEFINE c == CheckpointGauge(s, g, a)
           pt == PointOf(s, g)
           bias == pt.bias
           aw == AdjustedOf(s, g, a)
           d == Emission(s)
           specific == SpecificOf(s)
           credit == Credit(s, g, specific)
           first == now > s.time_weight[g]
<1>1. s \in GcState(now) /\ (\A h \in Gauges : GaugeOK(s, h)) /\ now \in Nat
  BY ControllerConstants, SMT DEF SharesOK, UserInv, UserTypeOK
<1>2. pt \in WeightPoint /\ bias \in Nat
  BY <1>1, GetWeightType DEF PointOf, WeightPoint
<1>3. aw \in Nat /\ aw <= bias
  BY <1>2, AdjustedType DEF AdjustedOf
<1>4. /\ specific \in Nat /\ specific >= s.specific_emissions
      /\ s.last_minted = 0 \/ s.last_minted = now => specific = s.specific_emissions
      /\ d \in Nat /\ s.minted + d <= RESERVE
      /\ s.last_minted = 0 \/ s.last_minted = now => d = 0
  BY EmissionShared, EmissionType
<1>5. /\ s.time_weight \in [Gauges -> 0..now]
      /\ s.gauge_weight \in [Gauges -> Nat]
      /\ s.adjusted_gauge_weight \in [Gauges -> Nat]
      /\ s.weighted_emissions_per_gauge \in [Gauges -> Nat]
      /\ s.sent_emissions_per_gauge \in [Gauges -> Nat]
      /\ s.specific_emissions_per_gauge \in [Gauges -> Nat]
      /\ s.specific_emissions \in Nat /\ s.minted \in Nat /\ s.sent \in Nat
  BY <1>1, GcTypes
<1>6. \A h \in Gauges : s.specific_emissions_per_gauge[h] <= specific
  BY <1>1, <1>4, <1>5, SMT DEF GaugeOK
<1>7. credit \in Nat
  BY <1>1, <1>4, <1>6, CreditBounds
<1>8. /\ c.point_weight = [s.point_weight EXCEPT ![g] = pt]
      /\ c.changes_weight = s.changes_weight
      /\ c.time_weight = [s.time_weight EXCEPT ![g] = now]
      /\ c.gauge_weight = [s.gauge_weight EXCEPT ![g] = bias]
      /\ c.gauge_weight_sum = s.gauge_weight_sum + bias - s.gauge_weight[g]
      /\ c.adjusted_gauge_weight = [s.adjusted_gauge_weight EXCEPT ![g] = aw]
      /\ c.adjusted_gauge_weight_sum = s.adjusted_gauge_weight_sum + aw - s.adjusted_gauge_weight[g]
      /\ c.specific_emissions = specific
      /\ c.specific_emissions_per_gauge =
            IF first THEN [s.specific_emissions_per_gauge EXCEPT ![g] = specific]
            ELSE s.specific_emissions_per_gauge
      /\ c.weighted_emissions_per_gauge =
            IF first THEN [s.weighted_emissions_per_gauge EXCEPT ![g] = @ + credit]
            ELSE s.weighted_emissions_per_gauge
      /\ c.sent_emissions_per_gauge = s.sent_emissions_per_gauge
      /\ c.sent = s.sent
      /\ c.minted = s.minted + d
      /\ c.last_minted = IF s.last_minted = 0 THEN 0 ELSE now
  BY <1>1, CheckpointFields
<1> HIDE DEF pt, aw, d, specific, credit
<1>9. c = [point_weight |-> c.point_weight,
           changes_weight |-> c.changes_weight,
           time_weight |-> c.time_weight,
           gauge_weight |-> c.gauge_weight,
           gauge_weight_sum |-> c.gauge_weight_sum,
           adjusted_gauge_weight |-> c.adjusted_gauge_weight,
           adjusted_gauge_weight_sum |-> c.adjusted_gauge_weight_sum,
           specific_emissions |-> c.specific_emissions,
           specific_emissions_per_gauge |-> c.specific_emissions_per_gauge,
           weighted_emissions_per_gauge |-> c.weighted_emissions_per_gauge,
           sent_emissions_per_gauge |-> c.sent_emissions_per_gauge,
           sent |-> c.sent,
           minted |-> c.minted,
           last_minted |-> c.last_minted]
  BY <1>1, CheckpointFields
<1> HIDE DEF c, bias, first
<1>10. /\ c.gauge_weight \in [Gauges -> Nat]
       /\ c.gauge_weight_sum = Total(c.gauge_weight)
       /\ c.gauge_weight_sum \in Nat
  <2>1. /\ c.gauge_weight \in [Gauges -> Nat] /\ c.gauge_weight[g] = bias
        /\ \A h \in Gauges \ {g} : c.gauge_weight[h] = s.gauge_weight[h]
    BY <1>2, <1>5, <1>8
  <2>2. Total(c.gauge_weight) = Total(s.gauge_weight) - s.gauge_weight[g] + c.gauge_weight[g]
    BY <1>5, <2>1, ControllerConstants, TotalUpdate
  <2>3. Total(c.gauge_weight) \in Nat /\ Total(s.gauge_weight) \in Nat /\ s.gauge_weight[g] \in Nat
    BY <1>5, <2>1, ControllerConstants, TotalType
  <2>4. s.gauge_weight_sum = Total(s.gauge_weight)
    BY DEF SharesOK
  <2> QED
    BY <1>2, <1>8, <2>1, <2>2, <2>3, <2>4, SMT
<1>11. /\ c.adjusted_gauge_weight \in [Gauges -> Nat]
       /\ c.adjusted_gauge_weight_sum = Total(c.adjusted_gauge_weight)
       /\ c.adjusted_gauge_weight_sum \in Nat
  <2>1. /\ c.adjusted_gauge_weight \in [Gauges -> Nat] /\ c.adjusted_gauge_weight[g] = aw
        /\ \A h \in Gauges \ {g} : c.adjusted_gauge_weight[h] = s.adjusted_gauge_weight[h]
    BY <1>3, <1>5, <1>8
  <2>2. Total(c.adjusted_gauge_weight)
          = Total(s.adjusted_gauge_weight) - s.adjusted_gauge_weight[g] + c.adjusted_gauge_weight[g]
    BY <1>5, <2>1, ControllerConstants, TotalUpdate
  <2>3. /\ Total(c.adjusted_gauge_weight) \in Nat /\ Total(s.adjusted_gauge_weight) \in Nat
        /\ s.adjusted_gauge_weight[g] \in Nat
    BY <1>5, <2>1, ControllerConstants, TotalType
  <2>4. s.adjusted_gauge_weight_sum = Total(s.adjusted_gauge_weight)
    BY DEF SharesOK
  <2> QED
    BY <1>3, <1>8, <2>1, <2>2, <2>3, <2>4, SMT
<1>12. c \in GcState(now)
  <2>1. c.point_weight \in [Gauges -> WeightPoint] /\ c.changes_weight \in [Gauges -> [Times \cup {MaxUint} -> Nat]]
    <3>1. s.point_weight \in [Gauges -> WeightPoint] /\ s.changes_weight \in [Gauges -> [Times \cup {MaxUint} -> Nat]]
      BY <1>1, GcTypes
    <3>2. c.point_weight = [s.point_weight EXCEPT ![g] = pt] /\ c.changes_weight = s.changes_weight
      BY <1>8
    <3> QED
      BY <1>2, <3>1, <3>2
  <2>2. c.time_weight \in [Gauges -> 0..now]
    <3>1. now \in 0..now
      BY <1>1, SMT
    <3> QED
      BY <1>5, <1>8, <3>1
  <2>3. c.specific_emissions_per_gauge \in [Gauges -> Nat]
    BY <1>4, <1>5, <1>8
  <2>4. c.weighted_emissions_per_gauge \in [Gauges -> Nat]
    <3>1. s.weighted_emissions_per_gauge[g] + credit \in Nat
      BY <1>5, <1>7, SMT
    <3> QED
      BY <1>5, <1>8, <3>1
  <2>5. c.minted \in Nat /\ c.last_minted \in 0..now /\ c.sent \in Nat
    BY <1>1, <1>4, <1>5, <1>8, SMT
  <2>6. c.specific_emissions \in Nat /\ c.sent_emissions_per_gauge \in [Gauges -> Nat]
    BY <1>4, <1>5, <1>8
  <2> QED
    BY <1>9, <1>10, <1>11, <2>1, <2>2, <2>3, <2>4, <2>5, <2>6 DEF GcState
<1>13. ASSUME NEW h \in Gauges
       PROVE  /\ GaugeOK(c, h)
              /\ Due(c, h) <= Due(s, h) + (specific - s.specific_emissions) * s.adjusted_gauge_weight[h]
  <2> DEFINE x == s.weighted_emissions_per_gauge[h] - s.sent_emissions_per_gauge[h]
             y == s.specific_emissions - s.specific_emissions_per_gauge[h]
             z == specific - s.specific_emissions
             v == s.adjusted_gauge_weight[h]
  <2>1. /\ GaugeOK(s, h)
        /\ s.weighted_emissions_per_gauge[h] \in Nat /\ s.sent_emissions_per_gauge[h] \in Nat
        /\ s.specific_emissions_per_gauge[h] \in Nat
        /\ v \in Nat
    BY <1>1, <1>5
  <2>2. x \in Nat /\ y \in Nat /\ z \in Nat /\ specific - s.specific_emissions_per_gauge[h] = y + z
    BY <1>4, <1>5, <2>1, SMT DEF GaugeOK
  <2>3. /\ Due(s, h) = x * WAD + Pending(s, h)
        /\ s.time_weight[h] = now => Pending(s, h) = 0
        /\ s.time_weight[h] # now => Pending(s, h) = y * v
    BY Zenon DEF Due, Pending
  <2>4. x * WAD \in Nat /\ y * v \in Nat /\ z * v \in Nat /\ (y + z) * v = y * v + z * v
    <3> HIDE DEF x, y, z, v
    <3> QED
      BY <2>1, <2>2, ControllerConstants, SMT
  <2>5. CASE h # g
    <3>1. /\ c.gauge_weight[h] = s.gauge_weight[h]
          /\ c.adjusted_gauge_weight[h] = v
          /\ c.time_weight[h] = s.time_weight[h]
          /\ c.specific_emissions_per_gauge[h] = s.specific_emissions_per_gauge[h]
          /\ c.weighted_emissions_per_gauge[h] = s.weighted_emissions_per_gauge[h]
          /\ c.sent_emissions_per_gauge[h] = s.sent_emissions_per_gauge[h]
      BY <1>5, <1>8, <2>5
    <3>2. GaugeOK(c, h)
      BY <1>4, <1>5, <1>6, <1>8, <2>1, <3>1 DEF GaugeOK
    <3>3. /\ Due(c, h) = x * WAD + Pending(c, h)
          /\ s.time_weight[h] = now => Pending(c, h) = 0
          /\ s.time_weight[h] # now =>
                Pending(c, h) = (specific - s.specific_emissions_per_gauge[h]) * v
      BY <1>8, <3>1, Zenon DEF Due, Pending
    <3>4. s.time_weight[h] # now => Pending(c, h) = (y + z) * v
      BY <2>2, <3>3
    <3> HIDE DEF x, y, z, v
    <3>5. Due(c, h) <= Due(s, h) + z * v
      BY <2>3, <2>4, <3>3, <3>4, SMT
    <3> QED
      BY <3>2, <3>5 DEF z, v
  <2>6. CASE h = g /\ first
    <3>1. /\ c.gauge_weight[h] = bias
          /\ c.adjusted_gauge_weight[h] = aw
          /\ c.specific_emissions_per_gauge[h] = specific
          /\ c.weighted_emissions_per_gauge[h] = s.weighted_emissions_per_gauge[h] + credit
          /\ c.sent_emissions_per_gauge[h] = s.sent_emissions_per_gauge[h]
          /\ c.time_weight[h] = now
      BY <1>5, <1>8, <2>6
    <3>0. s.time_weight[h] # now
      BY <1>1, <2>6, SMT DEF first
    <3>2. GaugeOK(c, h)
      <4>1. c.sent_emissions_per_gauge[h] <= c.weighted_emissions_per_gauge[h]
        BY <1>7, <2>1, <3>1, SMT DEF GaugeOK
      <4>2. c.specific_emissions_per_gauge[h] <= c.specific_emissions
        BY <1>4, <1>8, <3>1, SMT
      <4> QED
        BY <1>3, <1>8, <3>1, <4>1, <4>2 DEF GaugeOK
    <3>3. Due(c, h) = ((s.weighted_emissions_per_gauge[h] + credit) - s.sent_emissions_per_gauge[h]) * WAD + 0
      BY <3>1, Zenon DEF Due, Pending
    <3>4. (s.weighted_emissions_per_gauge[h] + credit) - s.sent_emissions_per_gauge[h] = x + credit
      BY <1>7, <2>1, SMT
    <3>5. credit * WAD <= (specific - s.specific_emissions_per_gauge[h]) * v
      BY <1>1, <1>4, <1>6, <2>6, CreditBounds DEF credit
    <3>6. credit * WAD <= y * v + z * v
      BY <2>2, <2>4, <3>5
    <3> HIDE DEF x, y, z, v
    <3>7. (x + credit) * WAD = x * WAD + credit * WAD /\ credit * WAD \in Nat
      BY <1>7, <2>2, ControllerConstants, SMT
    <3>8. Due(c, h) = (x + credit) * WAD + 0
      BY <3>3, <3>4
    <3>9. Due(c, h) <= Due(s, h) + z * v
      BY <2>3, <2>4, <3>0, <3>6, <3>7, <3>8, SMT
    <3> QED
      BY <3>2, <3>9 DEF z, v
  <2>7. CASE h = g /\ ~first
    <3>1. /\ c.gauge_weight[h] = bias
          /\ c.adjusted_gauge_weight[h] = aw
          /\ c.specific_emissions_per_gauge[h] = s.specific_emissions_per_gauge[h]
          /\ c.weighted_emissions_per_gauge[h] = s.weighted_emissions_per_gauge[h]
          /\ c.sent_emissions_per_gauge[h] = s.sent_emissions_per_gauge[h]
          /\ c.time_weight[h] = now
      BY <1>5, <1>8, <2>7
    <3>2. s.time_weight[h] = now
      <4>1. s.time_weight[h] \in 0..now
        BY <1>5
      <4> QED
        BY <1>1, <2>7, <4>1, SMT DEF first
    <3>3. GaugeOK(c, h)
      <4>1. c.specific_emissions_per_gauge[h] <= c.specific_emissions
        BY <1>6, <1>8, <3>1
      <4>2. c.sent_emissions_per_gauge[h] <= c.weighted_emissions_per_gauge[h]
        BY <2>1, <3>1 DEF GaugeOK
      <4> QED
        BY <1>3, <3>1, <4>1, <4>2 DEF GaugeOK
    <3>4. Due(c, h) = x * WAD + 0
      BY <3>1, Zenon DEF Due, Pending
    <3> HIDE DEF x, y, z, v
    <3>5. Due(c, h) <= Due(s, h) + z * v
      BY <2>3, <2>4, <3>2, <3>4, SMT
    <3> QED
      BY <3>3, <3>5 DEF z, v
  <2> QED
    BY <2>5, <2>6, <2>7
<1>14. Total(Dues(c)) <= (c.minted - c.sent) * WAD + overcredited
  <2> DEFINE z == specific - s.specific_emissions
             e == [h \in Gauges |-> z * s.adjusted_gauge_weight[h]]
             f == [h \in Gauges |-> Due(s, h) + z * s.adjusted_gauge_weight[h]]
             n == s.minted - s.sent
             o == Dues(s)
             q == Dues(c)
  <2>1. o \in [Gauges -> Nat] /\ q \in [Gauges -> Nat]
    BY <1>1, <1>12, <1>13, DuesType
  <2>2. z \in Nat /\ n \in Nat /\ s.sent <= s.minted
    BY <1>4, <1>5, SMT DEF SharesOK
  <2>3. \A h \in Gauges : z * s.adjusted_gauge_weight[h] \in Nat
    <3> HIDE DEF z
    <3> QED
      BY <1>5, <2>2, SMT
  <2>4. e \in [Gauges -> Nat]
    BY <2>3
  <2>5. \A h \in Gauges : o[h] = Due(s, h) /\ q[h] = Due(c, h)
    BY DEF Dues
  <2>6. f \in [Gauges -> Nat] /\ \A h \in Gauges : f[h] = o[h] + e[h]
    <3>1. \A h \in Gauges : o[h] \in Nat /\ e[h] \in Nat
      BY <2>1, <2>4
    <3>2. \A h \in Gauges : o[h] + e[h] \in Nat
      BY <3>1
    <3>3. \A h \in Gauges : Due(s, h) + z * s.adjusted_gauge_weight[h] = o[h] + e[h]
      BY <2>5
    <3> HIDE DEF e, o
    <3> QED
      BY <3>2, <3>3
  <2>7. \A h \in Gauges : q[h] <= f[h]
    BY <1>13, <2>5
  <2>8. \A h \in Gauges : e[h] = z * s.adjusted_gauge_weight[h]
    OBVIOUS
  <2>9. Total(o) <= n * WAD + overcredited /\ overcredited \in Nat
    BY DEF SharesOK
  <2>10. z * s.adjusted_gauge_weight_sum <= d * WAD /\ d * WAD \in Nat
    BY EmissionShared DEF d, specific
  <2>11. c.minted - c.sent = n + d
    BY <1>4, <1>5, <1>8, SMT
  <2>12. s.adjusted_gauge_weight_sum = Total(s.adjusted_gauge_weight)
    BY DEF SharesOK
  <2> HIDE DEF e, f, n, o, q, z
  <2>13. Total(f) = Total(o) + Total(e)
    BY <2>1, <2>4, <2>6, ControllerConstants, TotalPlus
  <2>14. Total(e) = z * Total(s.adjusted_gauge_weight)
    BY <1>5, <2>2, <2>4, <2>8, ControllerConstants, TotalScaled
  <2>15. Total(q) <= Total(f)
    BY <2>1, <2>6, <2>7, ControllerConstants, TotalMonotone
  <2>16. Total(o) \in Nat /\ Total(e) \in Nat /\ Total(q) \in Nat /\ Total(f) \in Nat
    BY <2>1, <2>4, <2>6, ControllerConstants, TotalType
  <2>17. (n + d) * WAD = n * WAD + d * WAD /\ n * WAD \in Nat
    BY <1>4, <2>2, ControllerConstants, SMT
  <2>18. Total(e) <= d * WAD
    BY <2>10, <2>12, <2>14
  <2>19. Total(q) <= n * WAD + d * WAD + overcredited
    BY <2>9, <2>10, <2>13, <2>15, <2>16, <2>17, <2>18, SMT
  <2> QED
    BY <2>9, <2>11, <2>17, <2>19 DEF q
<1>15. /\ c.last_minted = 0 => c.specific_emissions = 0
       /\ c.sent <= c.minted
       /\ c.minted <= RESERVE
  <2>1. /\ s.last_minted = 0 => s.specific_emissions = 0
        /\ s.sent <= s.minted
    BY DEF SharesOK
  <2>2. now # 0
    BY ControllerConstants, SMT DEF UserInv, UserTypeOK
  <2> QED
    BY <1>4, <1>5, <1>8, <2>1, <2>2, SMT
<1> QED
  BY <1>10, <1>11, <1>12, <1>13, <1>14, <1>15 DEF SharesOK, c

-----------------------------------------------------------------------------
(***************************************************************************)
(* Replacing a vote                                                        *)
(***************************************************************************)
\* The point and the scheduled changes of a gauge after a vote was replaced.
ReplacedPoint(pt, old, new) ==
    [bias |-> Larger(pt.bias + new.bias, VoteBias(old)) - VoteBias(old),
     slope |-> IF old.end > now THEN Larger(pt.slope + new.slope, old.slope) - old.slope
               ELSE pt.slope + new.slope]

Cancelled(changes, old) ==
    IF old.end > now THEN [changes EXCEPT ![old.end] = @ - old.slope] ELSE changes

ReplacedChanges(changes, old, new) ==
    [Cancelled(changes, old) EXCEPT ![new.end] = @ + new.slope]

PointsReplaced(s, g, old, new) ==
    [s.point_weight EXCEPT ![g] = ReplacedPoint(s.point_weight[g], old, new)]

ChangesReplaced(s, g, old, new) ==
    [s.changes_weight EXCEPT ![g] = ReplacedChanges(s.changes_weight[g], old, new)]

(* A vote is made of numbers, and so is what it weighs. *)
LEMMA VoteType ==
    ASSUME now \in Nat, NEW vote \in Vote
    PROVE  /\ vote.slope \in Nat /\ vote.bias \in Nat /\ vote.end \in Nat /\ vote.power \in Nat
           /\ vote.end \in Times \cup {MaxUint}
           /\ VoteBias(vote) \in Nat
<1>1. /\ vote.slope \in Nat /\ vote.bias \in Nat /\ vote.end \in Nat /\ vote.power \in Nat
      /\ vote.end \in Times \cup {MaxUint}
  BY ControllerConstants, VeConstants, SMT DEF Vote, Times
<1>2. Larger(vote.end, now) - now \in Nat
  BY <1>1, SMT DEF Larger
<1>3. vote.slope * (Larger(vote.end, now) - now) \in Nat
  <2> DEFINE d == Larger(vote.end, now) - now
  <2> HIDE DEF d
  <2>1. vote.slope * d \in Nat
    BY <1>1, <1>2, SMT DEF d
  <2> QED
    BY <2>1 DEF d
<1> QED
  BY <1>1, <1>3 DEF VoteBias

(* What replacing a vote writes. *)
LEMMA ReplacedFields ==
    ASSUME NEW s \in GcState(now), NEW g \in Gauges, NEW old, NEW new
    PROVE  Replaced(s, g, old, new) =
               [point_weight |-> PointsReplaced(s, g, old, new),
                changes_weight |-> ChangesReplaced(s, g, old, new),
                time_weight |-> s.time_weight,
                gauge_weight |-> s.gauge_weight,
                gauge_weight_sum |-> s.gauge_weight_sum,
                adjusted_gauge_weight |-> s.adjusted_gauge_weight,
                adjusted_gauge_weight_sum |-> s.adjusted_gauge_weight_sum,
                specific_emissions |-> s.specific_emissions,
                specific_emissions_per_gauge |-> s.specific_emissions_per_gauge,
                weighted_emissions_per_gauge |-> s.weighted_emissions_per_gauge,
                sent_emissions_per_gauge |-> s.sent_emissions_per_gauge,
                sent |-> s.sent,
                minted |-> s.minted,
                last_minted |-> s.last_minted]
<1> DEFINE p == ReplacedPoint(s.point_weight[g], old, new)
           c == ReplacedChanges(s.changes_weight[g], old, new)
<1>1. s.point_weight \in [Gauges -> WeightPoint] /\ DOMAIN s.changes_weight = Gauges
  BY GcTypes
<1>2. Replaced(s, g, old, new) = [s EXCEPT !.point_weight[g] = p, !.changes_weight[g] = c]
  BY Zenon DEF Replaced, ReplacedPoint, ReplacedChanges, Cancelled
<1> HIDE DEF p, c
<1> DEFINE P == [s.point_weight EXCEPT ![g] = p]
           C == [s.changes_weight EXCEPT ![g] = c]
<1>3. Replaced(s, g, old, new) = [s EXCEPT !.point_weight = P, !.changes_weight = C]
  BY <1>1, <1>2 DEF GcState
<1> HIDE DEF P, C
<1>4. Replaced(s, g, old, new) =
               [point_weight |-> P,
                changes_weight |-> C,
                time_weight |-> s.time_weight,
                gauge_weight |-> s.gauge_weight,
                gauge_weight_sum |-> s.gauge_weight_sum,
                adjusted_gauge_weight |-> s.adjusted_gauge_weight,
                adjusted_gauge_weight_sum |-> s.adjusted_gauge_weight_sum,
                specific_emissions |-> s.specific_emissions,
                specific_emissions_per_gauge |-> s.specific_emissions_per_gauge,
                weighted_emissions_per_gauge |-> s.weighted_emissions_per_gauge,
                sent_emissions_per_gauge |-> s.sent_emissions_per_gauge,
                sent |-> s.sent,
                minted |-> s.minted,
                last_minted |-> s.last_minted]
  BY <1>3 DEF GcState
<1> QED
  BY <1>4 DEF p, c, P, C, PointsReplaced, ChangesReplaced

(* A replaced vote leaves a point and changes that are numbers. *)
LEMMA ReplacedType ==
    ASSUME now \in Nat, NEW pt \in WeightPoint, NEW changes \in [Times \cup {MaxUint} -> Nat],
           NEW old \in Vote, NEW new \in Vote,
           old.end > now => changes[old.end] >= old.slope
    PROVE  /\ ReplacedPoint(pt, old, new) \in WeightPoint
           /\ ReplacedChanges(changes, old, new) \in [Times \cup {MaxUint} -> Nat]
<1>1. /\ old.slope \in Nat /\ old.end \in Times \cup {MaxUint} /\ VoteBias(old) \in Nat /\ old.end \in Nat
      /\ new.slope \in Nat /\ new.bias \in Nat /\ new.end \in Times \cup {MaxUint}
  BY VoteType
<1>2. pt.bias \in Nat /\ pt.slope \in Nat
  BY DEF WeightPoint
<1>3. Larger(pt.bias + new.bias, VoteBias(old)) - VoteBias(old) \in Nat
  BY <1>1, <1>2, SMT DEF Larger
<1>4. /\ Larger(pt.slope + new.slope, old.slope) - old.slope \in Nat
      /\ pt.slope + new.slope \in Nat
  BY <1>1, <1>2, SMT DEF Larger
<1>5. ReplacedPoint(pt, old, new) \in WeightPoint
  BY <1>3, <1>4 DEF ReplacedPoint, WeightPoint
<1>6. Cancelled(changes, old) \in [Times \cup {MaxUint} -> Nat]
  <2>1. CASE old.end > now
    <3>1. changes[old.end] - old.slope \in Nat
      BY <1>1, <2>1, SMT
    <3> QED
      BY <1>1, <2>1, <3>1 DEF Cancelled
  <2>2. CASE ~(old.end > now)
    BY <2>2 DEF Cancelled
  <2> QED
    BY <2>1, <2>2
<1>7. Cancelled(changes, old)[new.end] + new.slope \in Nat
  BY <1>1, <1>6, SMT
<1> QED
  BY <1>1, <1>5, <1>6, <1>7 DEF ReplacedChanges

(* Replacing a vote moves no sum and no emission. *)
LEMMA ReplacedKeepsShares ==
    ASSUME UserInv, NEW s, SharesOK(s), NEW g \in Gauges, NEW old \in Vote, NEW new \in Vote,
           old.end > now => s.changes_weight[g][old.end] >= old.slope
    PROVE  SharesOK(Replaced(s, g, old, new))
<1> DEFINE r == Replaced(s, g, old, new)
           A == PointsReplaced(s, g, old, new)
           B == ChangesReplaced(s, g, old, new)
<1>1. s \in GcState(now) /\ now \in Nat
  BY ControllerConstants, SMT DEF SharesOK, UserInv, UserTypeOK
<1>2. r =
               [point_weight |-> A,
                changes_weight |-> B,
                time_weight |-> s.time_weight,
                gauge_weight |-> s.gauge_weight,
                gauge_weight_sum |-> s.gauge_weight_sum,
                adjusted_gauge_weight |-> s.adjusted_gauge_weight,
                adjusted_gauge_weight_sum |-> s.adjusted_gauge_weight_sum,
                specific_emissions |-> s.specific_emissions,
                specific_emissions_per_gauge |-> s.specific_emissions_per_gauge,
                weighted_emissions_per_gauge |-> s.weighted_emissions_per_gauge,
                sent_emissions_per_gauge |-> s.sent_emissions_per_gauge,
                sent |-> s.sent,
                minted |-> s.minted,
                last_minted |-> s.last_minted]
  BY <1>1, ReplacedFields
<1>3. A \in [Gauges -> WeightPoint] /\ B \in [Gauges -> [Times \cup {MaxUint} -> Nat]]
  <2>1. s.point_weight \in [Gauges -> WeightPoint] /\ s.changes_weight \in [Gauges -> [Times \cup {MaxUint} -> Nat]]
    BY <1>1, GcTypes
  <2>2. s.point_weight[g] \in WeightPoint /\ s.changes_weight[g] \in [Times \cup {MaxUint} -> Nat]
    BY <2>1
  <2>3. /\ ReplacedPoint(s.point_weight[g], old, new) \in WeightPoint
        /\ ReplacedChanges(s.changes_weight[g], old, new) \in [Times \cup {MaxUint} -> Nat]
    BY <1>1, <2>2, ReplacedType
  <2> QED
    BY <2>1, <2>3 DEF PointsReplaced, ChangesReplaced
<1> HIDE DEF A, B, r
<1>4. /\ r \in GcState(now)
      /\ r.gauge_weight = s.gauge_weight
      /\ r.gauge_weight_sum = s.gauge_weight_sum
      /\ r.adjusted_gauge_weight = s.adjusted_gauge_weight
      /\ r.adjusted_gauge_weight_sum = s.adjusted_gauge_weight_sum
      /\ r.time_weight = s.time_weight
      /\ r.specific_emissions = s.specific_emissions
      /\ r.specific_emissions_per_gauge = s.specific_emissions_per_gauge
      /\ r.weighted_emissions_per_gauge = s.weighted_emissions_per_gauge
      /\ r.sent_emissions_per_gauge = s.sent_emissions_per_gauge
      /\ r.sent = s.sent /\ r.minted = s.minted /\ r.last_minted = s.last_minted
  BY <1>1, <1>2, <1>3 DEF GcState
<1>5. Dues(r) = Dues(s)
  BY <1>4, Zenon DEF Dues, Due, Pending
<1>6. \A h \in Gauges : GaugeOK(s, h) => GaugeOK(r, h)
  BY <1>4, Zenon DEF GaugeOK
<1>7. /\ \A h \in Gauges : GaugeOK(s, h)
      /\ s.gauge_weight_sum = Total(s.gauge_weight)
      /\ s.adjusted_gauge_weight_sum = Total(s.adjusted_gauge_weight)
      /\ s.last_minted = 0 => s.specific_emissions = 0
      /\ s.sent <= s.minted
      /\ s.minted <= RESERVE
      /\ overcredited \in Nat
      /\ Total(Dues(s)) <= (s.minted - s.sent) * WAD + overcredited
  BY DEF SharesOK
<1>8. SharesOK(r)
  BY <1>4, <1>5, <1>6, <1>7, Zenon DEF SharesOK
<1> QED
  BY <1>8 DEF r

(* A gauge that was weighed now weighs what its point says. *)
LEMMA GetWeightNow ==
    ASSUME now \in Nat \ {0}, NEW s, NEW g, s.time_weight[g] = now
    PROVE  GetWeight(s, g) = s.point_weight[g]
<1>1. now \in 0..now
  BY SMT
<1>2. WeeksSince(now) = 0
  BY VeConstants, SMT DEF WeeksSince, RoundToWeek
<1>3. PICK r : /\ IsRun(r, s.point_weight[g], s.changes_weight[g], now, 0)
               /\ GetWeight(s, g) = IF ~Added(s, g) THEN [bias |-> 0, slope |-> 0]
                                    ELSE IF now = TimeAt(now, 0) THEN r[0]
                                    ELSE Decayed(r[0], now - TimeAt(now, 0), s.changes_weight[g][now])
  BY <1>2, GetWeightIsRun
<1>4. Added(s, g) /\ TimeAt(now, 0) = now
  BY SMT DEF Added, TimeAt
<1>5. r[0] = s.point_weight[g]
  BY <1>3 DEF IsRun
<1> QED
  BY <1>3, <1>4, <1>5

(* A vote keeps the shares of the gauges, brings one gauge up to date and
   leaves the points of the others alone. *)
LEMMA CastVoteEffect ==
    ASSUME UserInv, NEW s, SharesOK(s), NEW u \in Users, NEW g \in Gauges,
           NEW weight \in 0..BPS, locked[u].end > now, NEW a \in Nat,
           vote_user_slopes[u][g].end > now =>
               s.changes_weight[g][vote_user_slopes[u][g].end] >= vote_user_slopes[u][g].slope
    PROVE  LET c == CastVote(s, u, g, weight, a)
               old == vote_user_slopes[u][g]
               new == NewVote(u, weight)
           IN  /\ SharesOK(c)
               /\ c.time_weight[g] = now
               /\ c.changes_weight[g] = ReplacedChanges(s.changes_weight[g], old, new)
               /\ c.point_weight[g] = ReplacedPoint(GetWeight(s, g), old, new)
               /\ \A h \in Gauges \ {g} : /\ c.changes_weight[h] = s.changes_weight[h]
                                          /\ c.point_weight[h] = s.point_weight[h]
                                          /\ c.time_weight[h] = s.time_weight[h]
<1> DEFINE old == vote_user_slopes[u][g]
           new == NewVote(u, weight)
           before == CheckpointGauge(s, g, a)
           voted == Replaced(before, g, old, new)
           c == CheckpointGauge(voted, g, a)
<1>1. /\ now \in Nat \ {0}
      /\ old \in Vote
      /\ s \in GcState(now)
  BY ControllerConstants, SMT DEF UserInv, UserTypeOK, SharesOK
<1>2. new \in Vote
  BY NewVoteCovered
<1>3. CastVote(s, u, g, weight, a) = c
  BY DEF CastVote
<1>4. /\ SharesOK(before) /\ before \in GcState(now)
      /\ before.point_weight = [s.point_weight EXCEPT ![g] = GetWeight(s, g)]
      /\ before.changes_weight = s.changes_weight
      /\ before.time_weight = [s.time_weight EXCEPT ![g] = now]
  <2>1. SharesOK(before)
    BY CheckpointKeepsShares
  <2>2. before \in GcState(now)
    BY <2>1 DEF SharesOK
  <2> QED
    BY <1>1, <2>1, <2>2, CheckpointFields DEF PointOf
<1> HIDE DEF before, new
<1>5. /\ SharesOK(voted) /\ voted \in GcState(now)
      /\ voted.point_weight = [before.point_weight EXCEPT
                                   ![g] = ReplacedPoint(before.point_weight[g], old, new)]
      /\ voted.changes_weight = [s.changes_weight EXCEPT
                                   ![g] = ReplacedChanges(s.changes_weight[g], old, new)]
      /\ voted.time_weight = before.time_weight
  <2>1. SharesOK(voted)
    BY <1>1, <1>2, <1>4, ReplacedKeepsShares
  <2>2. voted \in GcState(now)
    BY <2>1 DEF SharesOK
  <2>3. /\ voted.point_weight = PointsReplaced(before, g, old, new)
        /\ voted.changes_weight = ChangesReplaced(before, g, old, new)
        /\ voted.time_weight = before.time_weight
    BY <1>4, ReplacedFields
  <2>4. PointsReplaced(before, g, old, new)
          = [before.point_weight EXCEPT ![g] = ReplacedPoint(before.point_weight[g], old, new)]
    BY DEF PointsReplaced
  <2>5. ChangesReplaced(before, g, old, new)
          = [s.changes_weight EXCEPT ![g] = ReplacedChanges(s.changes_weight[g], old, new)]
    BY <1>4 DEF ChangesReplaced
  <2> HIDE DEF voted, old
  <2> QED
    BY <2>1, <2>2, <2>3, <2>4, <2>5
<1> HIDE DEF voted, old
<1>6. /\ s.time_weight \in [Gauges -> 0..now]
      /\ DOMAIN s.point_weight = Gauges /\ DOMAIN s.changes_weight = Gauges
  BY <1>1, GcTypes
<1>7. voted.time_weight[g] = now
  BY <1>4, <1>5, <1>6
<1>8. GetWeight(voted, g) = voted.point_weight[g]
  BY <1>1, <1>7, GetWeightNow
<1>9. /\ SharesOK(c)
      /\ c.point_weight = [voted.point_weight EXCEPT ![g] = voted.point_weight[g]]
      /\ c.changes_weight = voted.changes_weight
      /\ c.time_weight = [voted.time_weight EXCEPT ![g] = now]
  <2>1. SharesOK(c)
    BY <1>5, CheckpointKeepsShares
  <2> QED
    BY <1>5, <1>8, <2>1, CheckpointFields DEF PointOf
<1> HIDE DEF c
<1>10. c.time_weight[g] = now /\ \A h \in Gauges \ {g} : c.time_weight[h] = s.time_weight[h]
  BY <1>4, <1>5, <1>6, <1>9
<1>11. c.changes_weight[g] = ReplacedChanges(s.changes_weight[g], old, new)
  BY <1>5, <1>6, <1>9
<1>12. c.point_weight[g] = ReplacedPoint(GetWeight(s, g), old, new)
  BY <1>4, <1>5, <1>6, <1>9
<1>13. \A h \in Gauges \ {g} : c.changes_weight[h] = s.changes_weight[h] /\ c.point_weight[h] = s.point_weight[h]
  BY <1>4, <1>5, <1>6, <1>9
<1> QED
  BY <1>3, <1>9, <1>10, <1>11, <1>12, <1>13, Zenon DEF old, new

-----------------------------------------------------------------------------
(***************************************************************************)
(* A ballot, vote by vote                                                  *)
(***************************************************************************)
\* r is the recursive function of Cast.
IsCount(r, u, b, w, a, n) ==
    r = [i \in 0..n |-> IF i = 0 THEN gc ELSE CastVote(r[i - 1], u, b[i], w[b[i]], a[b[i]])]

(* There is such a function. *)
LEMMA CountExists ==
    ASSUME NEW u, NEW b, NEW w, NEW a, NEW n \in Nat
    PROVE  \E r : IsCount(r, u, b, w, a, n)
<1> DEFINE After(s, i) == CastVote(s, u, b[i], w[b[i]], a[b[i]])
           G == {m \in Nat : \E r : r = [i \in 0..m |-> IF i = 0 THEN gc ELSE After(r[i - 1], i)]}
<1>1. \A r, m : IsCount(r, u, b, w, a, m) <=>
               r = [i \in 0..m |-> IF i = 0 THEN gc ELSE After(r[i - 1], i)]
  BY DEF IsCount
<1> HIDE DEF After
<1>2. 0 \in G
  <2> DEFINE r == [i \in 0..0 |-> gc]
  <2>1. r = [i \in 0..0 |-> IF i = 0 THEN gc ELSE After(r[i - 1], i)]
    OBVIOUS
  <2> HIDE DEF r
  <2> QED
    BY <2>1
<1>3. ASSUME NEW m \in Nat, m \in G PROVE m + 1 \in G
  <2>1. PICK r : r = [i \in 0..m |-> IF i = 0 THEN gc ELSE After(r[i - 1], i)]
    BY <1>3
  <2> DEFINE x == [i \in 0..(m + 1) |-> IF i <= m THEN r[i] ELSE After(r[m], i)]
  <2>2. ASSUME NEW i \in 0..(m + 1)
        PROVE  x[i] = IF i = 0 THEN gc ELSE After(x[i - 1], i)
    <3>1. CASE i = 0
      <4>1. x[i] = r[i] /\ i \in 0..m
        BY <3>1
      <4> QED
        BY <2>1, <3>1, <4>1
    <3>2. CASE i # 0 /\ i <= m
      <4>1. x[i] = r[i] /\ i \in 0..m /\ i - 1 \in 0..m /\ x[i - 1] = r[i - 1]
        BY <3>2
      <4>2. r[i] = After(r[i - 1], i)
        BY <2>1, <3>2, <4>1
      <4> QED
        BY <3>2, <4>1, <4>2
    <3>3. CASE i = m + 1
      <4>1. i - 1 = m /\ i # 0 /\ ~(i <= m)
        BY <3>3
      <4>2. x[m] = r[m] /\ x[i] = After(r[m], i)
        BY <4>1
      <4> QED
        BY <4>1, <4>2
    <3> QED
      BY <3>1, <3>2, <3>3
  <2>3. x = [i \in 0..(m + 1) |-> x[i]]
    OBVIOUS
  <2> HIDE DEF x
  <2>4. x = [i \in 0..(m + 1) |-> IF i = 0 THEN gc ELSE After(x[i - 1], i)]
    BY <2>2, <2>3
  <2> QED
    BY <2>4
<1>4. n \in G
  <2> HIDE DEF G
  <2> QED
    BY <1>2, <1>3, StepInduction
<1> QED
  BY <1>1, <1>4

(* What is true before the first vote of a ballot, and stays true with every
   vote, is true after the last.  K holds the numbers of votes with the states
   after so many of them of which it is true. *)
LEMMA CastInduction ==
    ASSUME NEW u, NEW b, NEW w, NEW a, Len(b) \in Nat, NEW K, <<0, gc>> \in K,
           \A i \in 1..Len(b) : \A s : <<i - 1, s>> \in K =>
               <<i, CastVote(s, u, b[i], w[b[i]], a[b[i]])>> \in K
    PROVE  <<Len(b), Cast(u, b, w, a)>> \in K
<1> DEFINE n == Len(b)
           After(s, i) == CastVote(s, u, b[i], w[b[i]], a[b[i]])
           r == CHOOSE r : IsCount(r, u, b, w, a, n)
           G == {m \in Nat : m <= n => <<m, r[m]>> \in K}
<1>1. Cast(u, b, w, a) = r[n]
  BY DEF Cast, IsCount
<1>2. IsCount(r, u, b, w, a, n)
  <2>1. \E x : IsCount(x, u, b, w, a, n)
    <3> HIDE DEF n
    <3> QED
      BY CountExists DEF n
  <2> HIDE DEF n
  <2> QED
    BY <2>1
<1> HIDE DEF r
<1>3. r = [i \in 0..n |-> IF i = 0 THEN gc ELSE After(r[i - 1], i)]
  BY <1>2 DEF IsCount
<1>4. \A i \in 1..n : \A s : <<i - 1, s>> \in K => <<i, After(s, i)>> \in K
  OBVIOUS
<1>5. n \in Nat
  OBVIOUS
<1> HIDE DEF n, After
<1>6. 0 \in G
  <2>1. r[0] = gc
    BY <1>3, <1>5
  <2> QED
    BY <2>1
<1>7. ASSUME NEW m \in Nat, m \in G PROVE m + 1 \in G
  <2> SUFFICES ASSUME m + 1 <= n PROVE <<m + 1, r[m + 1]>> \in K
    OBVIOUS
  <2> DEFINE k == m + 1
  <2>1. k \in 1..n /\ k \in 0..n /\ k - 1 = m /\ k # 0 /\ m <= n
    BY <1>5, SMT
  <2> HIDE DEF k
  <2>2. r[k] = After(r[m], k)
    BY <1>3, <2>1
  <2>3. <<m, r[m]>> \in K
    BY <1>7, <2>1
  <2>4. <<k, After(r[m], k)>> \in K
    BY <1>4, <2>1, <2>3
  <2> QED
    BY <2>2, <2>4 DEF k
<1>8. n \in G
  <2> HIDE DEF G
  <2> QED
    BY <1>5, <1>6, <1>7, StepInduction
<1> QED
  BY <1>1, <1>5, <1>8 DEF n

(* A ballot keeps the shares of the gauges. *)
LEMMA BallotKeepsShares ==
    ASSUME UserInv, SharesOK(gc), NEW u \in Users, NEW b \in Ballots,
           NEW w \in [Chosen(b) -> Weights], NEW a \in [Chosen(b) -> Adjustments],
           VoteForGaugeWeights(u, b, w, a)
    PROVE  SharesOK(gc')
<1> DEFINE K == {x \in Nat \X GcState(now) :
                    /\ SharesOK(x[2])
                    /\ \A i \in 1..Len(b) : i > x[1] => x[2].changes_weight[b[i]] = gc.changes_weight[b[i]]}
<1>1. /\ Len(b) \in Nat
      /\ DOMAIN b = 1..Len(b)
      /\ \A i \in 1..Len(b) : b[i] \in Gauges
      /\ \A i, j \in 1..Len(b) : i # j => b[i] # b[j]
  BY BallotType
<1>2. /\ locked[u].end > now
      /\ \A g \in Chosen(b) : MayVote(u, g, w[g])
      /\ gc' = Cast(u, b, w, a)
  BY DEF VoteForGaugeWeights
<1>3. \A i \in 1..Len(b) : b[i] \in Chosen(b) /\ w[b[i]] \in 0..BPS /\ a[b[i]] \in Nat
  <2>1. \A i \in 1..Len(b) : b[i] \in Chosen(b)
    BY <1>1 DEF Chosen
  <2>2. Weights \subseteq 0..BPS /\ Adjustments \subseteq Nat
    BY ControllerConstants
  <2>3. \A g \in Chosen(b) : w[g] \in Weights /\ a[g] \in Adjustments
    OBVIOUS
  <2> QED
    BY <2>1, <2>2, <2>3
<1>4. <<0, gc>> \in K
  BY DEF SharesOK
<1>5. ASSUME NEW i \in 1..Len(b), NEW s, <<i - 1, s>> \in K
      PROVE  <<i, CastVote(s, u, b[i], w[b[i]], a[b[i]])>> \in K
  <2> DEFINE g == b[i]
             c == CastVote(s, u, g, w[g], a[g])
             old == vote_user_slopes[u][g]
  <2>1. SharesOK(s) /\ \A j \in 1..Len(b) : j >= i => s.changes_weight[b[j]] = gc.changes_weight[b[j]]
    <3>1. SharesOK(s) /\ \A j \in 1..Len(b) : j > i - 1 => s.changes_weight[b[j]] = gc.changes_weight[b[j]]
      BY <1>5
    <3>2. \A j \in 1..Len(b) : j >= i => j > i - 1
      BY <1>1, SMT
    <3> QED
      BY <3>1, <3>2
  <2>2. g \in Gauges /\ g \in Chosen(b) /\ w[g] \in 0..BPS /\ a[g] \in Nat
    BY <1>1, <1>3
  <2>3. old.end > now => s.changes_weight[g][old.end] >= old.slope
    <3>1. old.end > now => gc.changes_weight[g][old.end] >= old.slope
      <4>1. MayVote(u, g, w[g])
        BY <1>2, <2>2
      <4> HIDE DEF g
      <4> QED
        BY <4>1 DEF MayVote
    <3>2. s.changes_weight[g] = gc.changes_weight[g]
      BY <1>1, <2>1, SMT
    <3> QED
      BY <3>1, <3>2
  <2>4. SharesOK(c) /\ \A h \in Gauges \ {g} : c.changes_weight[h] = s.changes_weight[h]
    <3> DEFINE x == w[g]
               y == a[g]
    <3>1. x \in 0..BPS /\ y \in Nat
      BY <2>2
    <3> HIDE DEF g, x, y
    <3>2. /\ SharesOK(CastVote(s, u, g, x, y))
          /\ \A h \in Gauges \ {g} : CastVote(s, u, g, x, y).changes_weight[h] = s.changes_weight[h]
      BY <1>2, <2>1, <2>2, <2>3, <3>1, CastVoteEffect DEF old
    <3> QED
      BY <3>2 DEF x, y
  <2>5. \A j \in 1..Len(b) : j > i => c.changes_weight[b[j]] = gc.changes_weight[b[j]]
    <3> SUFFICES ASSUME NEW j \in 1..Len(b), j > i
                 PROVE  c.changes_weight[b[j]] = gc.changes_weight[b[j]]
      OBVIOUS
    <3>1. j # i /\ j >= i
      BY <1>1, SMT
    <3>2. b[j] \in Gauges \ {g}
      BY <1>1, <3>1
    <3> HIDE DEF c
    <3> QED
      BY <2>1, <2>4, <3>1, <3>2
  <2>6. c \in GcState(now) /\ i \in Nat
    BY <1>1, <2>4 DEF SharesOK
  <2> HIDE DEF c
  <2>7. <<i, c>> \in K
    BY <2>4, <2>5, <2>6
  <2> QED
    BY <2>7 DEF c
<1> HIDE DEF K
<1>6. <<Len(b), Cast(u, b, w, a)>> \in K
  BY <1>1, <1>4, <1>5, CastInduction
<1> QED
  BY <1>2, <1>6 DEF K

-----------------------------------------------------------------------------
(***************************************************************************)
(* The shares of the gauges                                                *)
(***************************************************************************)
(* A payment is of what was due. *)
LEMMA EmitKeepsShares ==
    ASSUME UserInv, SharesOK(gc), NEW g \in Gauges, NEW a \in Adjustments, Emit(g, a)
    PROVE  SharesOK(gc')
<1> DEFINE s == CheckpointGauge(gc, g, a)
           to_send == s.weighted_emissions_per_gauge[g] - s.sent_emissions_per_gauge[g]
           S == [s.sent_emissions_per_gauge EXCEPT ![g] = s.weighted_emissions_per_gauge[g]]
           T == s.sent + to_send
           c == gc'
<1>1. SharesOK(s)
  BY ControllerConstants, CheckpointKeepsShares
<1>2. /\ to_send <= s.minted - s.sent
      /\ gc' = [s EXCEPT !.sent_emissions_per_gauge[g] = s.weighted_emissions_per_gauge[g],
                         !.sent = @ + to_send]
  BY DEF Emit
<1> HIDE DEF s
<1>3. /\ s \in GcState(now)
      /\ \A h \in Gauges : GaugeOK(s, h)
      /\ s.gauge_weight_sum = Total(s.gauge_weight)
      /\ s.adjusted_gauge_weight_sum = Total(s.adjusted_gauge_weight)
      /\ s.last_minted = 0 => s.specific_emissions = 0
      /\ s.sent <= s.minted
      /\ s.minted <= RESERVE
      /\ overcredited \in Nat
      /\ Total(Dues(s)) <= (s.minted - s.sent) * WAD + overcredited
  BY <1>1 DEF SharesOK
<1>4. /\ s.weighted_emissions_per_gauge \in [Gauges -> Nat]
      /\ s.sent_emissions_per_gauge \in [Gauges -> Nat]
      /\ s.specific_emissions_per_gauge \in [Gauges -> Nat]
      /\ s.adjusted_gauge_weight \in [Gauges -> Nat]
      /\ s.specific_emissions \in Nat
      /\ s.sent \in Nat /\ s.minted \in Nat
      /\ \A h \in Gauges : s.sent_emissions_per_gauge[h] <= s.weighted_emissions_per_gauge[h]
      /\ \A h \in Gauges : s.specific_emissions_per_gauge[h] <= s.specific_emissions
  BY <1>3, GcTypes DEF GaugeOK
<1>5. to_send \in Nat /\ T \in Nat
  BY <1>4, SMT
<1>6. S \in [Gauges -> Nat] /\ S[g] = s.weighted_emissions_per_gauge[g]
      /\ \A h \in Gauges \ {g} : S[h] = s.sent_emissions_per_gauge[h]
  BY <1>4
<1>7. c = [s EXCEPT !.sent_emissions_per_gauge = S, !.sent = T]
  BY <1>2, <1>3 DEF GcState
<1> HIDE DEF S, T, c
<1>8. /\ c \in GcState(now)
      /\ c.gauge_weight = s.gauge_weight
      /\ c.gauge_weight_sum = s.gauge_weight_sum
      /\ c.adjusted_gauge_weight = s.adjusted_gauge_weight
      /\ c.adjusted_gauge_weight_sum = s.adjusted_gauge_weight_sum
      /\ c.time_weight = s.time_weight
      /\ c.specific_emissions = s.specific_emissions
      /\ c.specific_emissions_per_gauge = s.specific_emissions_per_gauge
      /\ c.weighted_emissions_per_gauge = s.weighted_emissions_per_gauge
      /\ c.sent_emissions_per_gauge = S
      /\ c.sent = T /\ c.minted = s.minted /\ c.last_minted = s.last_minted
  BY <1>3, <1>5, <1>6, <1>7 DEF GcState, T
<1>9. ASSUME NEW h \in Gauges PROVE GaugeOK(c, h)
  <2>1. S[h] <= s.weighted_emissions_per_gauge[h]
    BY <1>4, <1>6, SMT
  <2>2. GaugeOK(s, h)
    BY <1>3
  <2> QED
    BY <1>8, <2>1, <2>2 DEF GaugeOK
<1>10. Total(Dues(c)) <= (c.minted - c.sent) * WAD + overcredited
  <2> DEFINE o == Dues(s)
             q == Dues(c)
             rest == Pending(s, g)
             n == s.minted - s.sent
  <2>1. o \in [Gauges -> Nat] /\ q \in [Gauges -> Nat]
    BY <1>3, <1>8, <1>9, DuesType
  <2>2. \A h \in Gauges \ {g} : q[h] = o[h]
    <3> SUFFICES ASSUME NEW h \in Gauges \ {g} PROVE Due(c, h) = Due(s, h)
      BY DEF Dues
    <3>1. S[h] = s.sent_emissions_per_gauge[h]
      BY <1>6
    <3> QED
      BY <1>8, <3>1, Zenon DEF Due, Pending
  <2>3. o[g] = to_send * WAD + rest
    BY DEF Dues, Due
  <2>4. q[g] = (S[g] - S[g]) * WAD + rest
    <3>1. q[g] = Due(c, g)
      BY DEF Dues
    <3>2. Due(c, g) = (S[g] - S[g]) * WAD + rest
      BY <1>6, <1>8, Zenon DEF Due, Pending
    <3> QED
      BY <3>1, <3>2
  <2>5. rest \in Nat
    <3>1. s.specific_emissions - s.specific_emissions_per_gauge[g] \in Nat
      BY <1>4, SMT
    <3>2. s.adjusted_gauge_weight[g] \in Nat
      BY <1>4
    <3>3. (s.specific_emissions - s.specific_emissions_per_gauge[g]) * s.adjusted_gauge_weight[g] \in Nat
      BY <3>1, <3>2, SMT
    <3> QED
      BY <3>3 DEF Pending
  <2>6. n \in Nat /\ to_send <= n
    BY <1>2, <1>3, <1>4, SMT
  <2>7. c.minted - c.sent = n - to_send
    BY <1>4, <1>5, <1>8, SMT DEF T
  <2>8. Total(o) <= n * WAD + overcredited /\ overcredited \in Nat
    BY <1>3
  <2> HIDE DEF o, q, rest, n, to_send
  <2>9. Total(q) = Total(o) - o[g] + q[g]
    BY <2>1, <2>2, ControllerConstants, TotalUpdate
  <2>10. q[g] = rest
    <3>1. (S[g] - S[g]) * WAD = 0
      BY <1>6, ControllerConstants, SMT
    <3> QED
      BY <2>4, <2>5, <3>1
  <2>11. Total(o) \in Nat /\ Total(q) \in Nat
    BY <2>1, ControllerConstants, TotalType
  <2>12. (n - to_send) * WAD = n * WAD - to_send * WAD /\ n * WAD \in Nat /\ to_send * WAD \in Nat
    BY <1>5, <2>6, ControllerConstants, SMT
  <2>13. Total(q) <= n * WAD - to_send * WAD + overcredited
    BY <2>3, <2>5, <2>8, <2>9, <2>10, <2>11, <2>12, SMT
  <2> QED
    BY <2>7, <2>12, <2>13 DEF q
<1>11. c.sent <= c.minted
  BY <1>2, <1>4, <1>5, <1>8, SMT DEF T
<1>12. SharesOK(c)
  BY <1>3, <1>8, <1>9, <1>10, <1>11 DEF SharesOK
<1> QED
  BY <1>12 DEF c

(* A gauge that is added has earned nothing. *)
LEMMA AddGaugeKeepsShares ==
    ASSUME UserInv, SharesOK(gc), NEW g \in Gauges, AddGauge(g)
    PROVE  SharesOK(gc')
<1> DEFINE A == [gc.time_weight EXCEPT ![g] = now]
           B == [gc.specific_emissions_per_gauge EXCEPT ![g] = gc.specific_emissions]
           c == gc'
<1>1. /\ gc \in GcState(now)
      /\ \A h \in Gauges : GaugeOK(gc, h)
      /\ gc.gauge_weight_sum = Total(gc.gauge_weight)
      /\ gc.adjusted_gauge_weight_sum = Total(gc.adjusted_gauge_weight)
      /\ gc.last_minted = 0 => gc.specific_emissions = 0
      /\ gc.sent <= gc.minted
      /\ gc.minted <= RESERVE
      /\ overcredited \in Nat
      /\ Total(Dues(gc)) <= (gc.minted - gc.sent) * WAD + overcredited
  BY DEF SharesOK
<1>2. /\ gc.weighted_emissions_per_gauge \in [Gauges -> Nat]
      /\ gc.sent_emissions_per_gauge \in [Gauges -> Nat]
      /\ gc.specific_emissions_per_gauge \in [Gauges -> Nat]
      /\ gc.adjusted_gauge_weight \in [Gauges -> Nat]
      /\ gc.time_weight \in [Gauges -> 0..now]
      /\ gc.specific_emissions \in Nat
      /\ gc.sent \in Nat /\ gc.minted \in Nat
      /\ \A h \in Gauges : gc.sent_emissions_per_gauge[h] <= gc.weighted_emissions_per_gauge[h]
      /\ \A h \in Gauges : gc.specific_emissions_per_gauge[h] <= gc.specific_emissions
  BY <1>1, GcTypes DEF GaugeOK
<1>3. gc' = [gc EXCEPT !.time_weight[g] = now,
                          !.specific_emissions_per_gauge[g] = gc.specific_emissions]
  BY DEF AddGauge
<1>4. now \in 0..now
  BY ControllerConstants, SMT DEF UserInv, UserTypeOK
<1>5. /\ A \in [Gauges -> 0..now] /\ A[g] = now
      /\ B \in [Gauges -> Nat] /\ B[g] = gc.specific_emissions
      /\ \A h \in Gauges \ {g} : A[h] = gc.time_weight[h] /\ B[h] = gc.specific_emissions_per_gauge[h]
  BY <1>2, <1>4
<1>6. c = [gc EXCEPT !.time_weight = A, !.specific_emissions_per_gauge = B]
  BY <1>1, <1>3 DEF GcState
<1> HIDE DEF A, B, c
<1>7. /\ c \in GcState(now)
      /\ c.gauge_weight = gc.gauge_weight
      /\ c.gauge_weight_sum = gc.gauge_weight_sum
      /\ c.adjusted_gauge_weight = gc.adjusted_gauge_weight
      /\ c.adjusted_gauge_weight_sum = gc.adjusted_gauge_weight_sum
      /\ c.time_weight = A
      /\ c.specific_emissions = gc.specific_emissions
      /\ c.specific_emissions_per_gauge = B
      /\ c.weighted_emissions_per_gauge = gc.weighted_emissions_per_gauge
      /\ c.sent_emissions_per_gauge = gc.sent_emissions_per_gauge
      /\ c.sent = gc.sent /\ c.minted = gc.minted /\ c.last_minted = gc.last_minted
  BY <1>1, <1>5, <1>6 DEF GcState
<1>8. ASSUME NEW h \in Gauges PROVE GaugeOK(c, h)
  <2>1. GaugeOK(gc, h)
    BY <1>1
  <2>2. CASE h = g
    BY <1>2, <1>5, <1>7, <2>1, <2>2 DEF GaugeOK
  <2>3. CASE h # g
    BY <1>5, <1>7, <2>1, <2>3 DEF GaugeOK
  <2> QED
    BY <2>2, <2>3
<1>9. Total(Dues(c)) <= (c.minted - c.sent) * WAD + overcredited
  <2>1. Dues(gc) \in [Gauges -> Nat] /\ Dues(c) \in [Gauges -> Nat]
    BY <1>1, <1>7, <1>8, DuesType
  <2>2. ASSUME NEW h \in Gauges PROVE Due(c, h) <= Due(gc, h)
    <3> DEFINE x == gc.weighted_emissions_per_gauge[h] - gc.sent_emissions_per_gauge[h]
               y == gc.specific_emissions - gc.specific_emissions_per_gauge[h]
               v == gc.adjusted_gauge_weight[h]
    <3>1. /\ Due(gc, h) = x * WAD + Pending(gc, h)
          /\ Pending(gc, h) = 0 \/ Pending(gc, h) = y * v
      BY Zenon DEF Due, Pending
    <3>2. x \in Nat /\ y \in Nat /\ v \in Nat
      BY <1>2, SMT
    <3>3. CASE h # g
      <4>1. B[h] = gc.specific_emissions_per_gauge[h] /\ A[h] = gc.time_weight[h]
        BY <1>5, <3>3
      <4>2. Due(c, h) = Due(gc, h)
        BY <1>7, <4>1, Zenon DEF Due, Pending
      <4>3. Dues(gc)[h] \in Nat
        BY <2>1
      <4>4. Due(gc, h) \in Nat
        BY <4>3 DEF Dues
      <4> QED
        BY <4>2, <4>4, SMT
    <3>4. CASE h = g
      <4>1. Due(c, h) = x * WAD + 0
        BY <1>5, <1>7, <3>4, Zenon DEF Due, Pending
      <4> HIDE DEF x, y, v
      <4>2. x * WAD \in Nat /\ y * v \in Nat
        BY <3>2, ControllerConstants, SMT
      <4> QED
        BY <3>1, <4>1, <4>2, SMT
    <3> QED
      BY <3>3, <3>4
  <2>3. \A h \in Gauges : Dues(c)[h] <= Dues(gc)[h]
    BY <2>2 DEF Dues
  <2>4. Total(Dues(c)) <= Total(Dues(gc))
    BY <2>1, <2>3, ControllerConstants, TotalMonotone
  <2>5. Total(Dues(c)) \in Nat /\ Total(Dues(gc)) \in Nat
    BY <2>1, ControllerConstants, TotalType
  <2>6. (gc.minted - gc.sent) * WAD \in Int /\ overcredited \in Nat
    BY <1>1, <1>2, ControllerConstants, SMT
  <2>7. Total(Dues(gc)) <= (gc.minted - gc.sent) * WAD + overcredited
    BY <1>1
  <2> DEFINE n == (gc.minted - gc.sent) * WAD
  <2>8. (c.minted - c.sent) * WAD = n
    BY <1>7
  <2> HIDE DEF n
  <2>9. Total(Dues(c)) <= n + overcredited
    BY <2>4, <2>5, <2>6, <2>7, SMT DEF n
  <2> QED
    BY <2>8, <2>9
<1>10. SharesOK(c)
  BY <1>1, <1>7, <1>8, <1>9 DEF SharesOK
<1> QED
  BY <1>10 DEF c

(* Emissions start with nothing to share. *)
LEMMA StartKeepsShares ==
    ASSUME UserInv, SharesOK(gc), StartEmissions
    PROVE  SharesOK(gc')
<1> DEFINE c == gc'
<1>1. /\ gc \in GcState(now)
      /\ \A h \in Gauges : GaugeOK(gc, h)
      /\ gc.gauge_weight_sum = Total(gc.gauge_weight)
      /\ gc.adjusted_gauge_weight_sum = Total(gc.adjusted_gauge_weight)
      /\ gc.sent <= gc.minted
      /\ gc.minted <= RESERVE
      /\ overcredited \in Nat
      /\ Total(Dues(gc)) <= (gc.minted - gc.sent) * WAD + overcredited
  BY DEF SharesOK
<1>2. now \in 0..now /\ now # 0
  BY ControllerConstants, SMT DEF UserInv, UserTypeOK
<1>3. /\ c \in GcState(now)
      /\ c.gauge_weight = gc.gauge_weight
      /\ c.gauge_weight_sum = gc.gauge_weight_sum
      /\ c.adjusted_gauge_weight = gc.adjusted_gauge_weight
      /\ c.adjusted_gauge_weight_sum = gc.adjusted_gauge_weight_sum
      /\ c.time_weight = gc.time_weight
      /\ c.specific_emissions = gc.specific_emissions
      /\ c.specific_emissions_per_gauge = gc.specific_emissions_per_gauge
      /\ c.weighted_emissions_per_gauge = gc.weighted_emissions_per_gauge
      /\ c.sent_emissions_per_gauge = gc.sent_emissions_per_gauge
      /\ c.sent = gc.sent /\ c.minted = gc.minted /\ c.last_minted = now
  BY <1>1, <1>2 DEF StartEmissions, GcState
<1> HIDE DEF c
<1>4. Dues(c) = Dues(gc)
  BY <1>3, Zenon DEF Dues, Due, Pending
<1>5. \A h \in Gauges : GaugeOK(c, h)
  BY <1>1, <1>3 DEF GaugeOK
<1>6. SharesOK(c)
  BY <1>1, <1>2, <1>3, <1>4, <1>5 DEF SharesOK
<1> QED
  BY <1>6 DEF c

(* While time does not pass, what is true of the new state is true in it. *)
LEMMA SharesAtTheSameTime ==
    ASSUME now' = now, BookHeadStarts, SharesOK(gc')
    PROVE  SharesOK(gc)'
<1>1. GcState(now)' = GcState(now)
  BY DEF GcState, Times
<1>2. \A h \in Gauges : GaugeOK(gc, h)' <=> GaugeOK(gc', h)
  BY DEF GaugeOK
<1>3. Dues(gc)' = Dues(gc')
  BY DEF Dues, Due, Pending
<1>4. overcredited' = overcredited
  BY DEF BookHeadStarts
<1> QED
  BY <1>1, <1>2, <1>3, <1>4 DEF SharesOK

(* Head starts are numbers. *)
LEMMA HeadStartsType ==
    ASSUME SharesOK(gc)
    PROVE  HeadStarts(gc) \in [Gauges -> Nat] /\ Total(HeadStarts(gc)) \in Nat
<1>1. ASSUME NEW g \in Gauges
      PROVE  (gc.specific_emissions - gc.specific_emissions_per_gauge[g])
                 * gc.adjusted_gauge_weight[g] \in Nat
  <2>1. /\ gc.specific_emissions \in Nat /\ gc.specific_emissions_per_gauge[g] \in Nat
        /\ gc.adjusted_gauge_weight[g] \in Nat
        /\ gc.specific_emissions_per_gauge[g] <= gc.specific_emissions
    BY GcTypes DEF SharesOK, GaugeOK
  <2>2. gc.specific_emissions - gc.specific_emissions_per_gauge[g] \in Nat
    BY <2>1, SMT
  <2> QED
    BY <2>1, <2>2, SMT
<1>2. HeadStarts(gc) \in [Gauges -> Nat]
  BY <1>1 DEF HeadStarts
<1> QED
  BY <1>2, ControllerConstants, TotalType

(* When time passes, what was a head start becomes due. *)
LEMMA TickKeepsShares ==
    ASSUME UserInv, SharesOK(gc), gc' = gc, now' = now + 1, BookHeadStarts
    PROVE  SharesOK(gc)'
<1> DEFINE o == Dues(gc)
           e == HeadStarts(gc)
           q == Dues(gc)'
<1>1. /\ now \in Nat /\ now' # now
      /\ gc \in GcState(now) /\ overcredited \in Nat
      /\ \A h \in Gauges : GaugeOK(gc, h)
      /\ (gc.minted - gc.sent) * WAD \in Int
  <2>1. now \in Nat /\ now' # now
    BY ControllerConstants, SMT DEF UserInv, UserTypeOK
  <2>2. gc.minted \in Nat /\ gc.sent \in Nat
    BY GcTypes DEF SharesOK
  <2> QED
    BY <2>1, <2>2, ControllerConstants, SMT DEF SharesOK
<1>2. o \in [Gauges -> Nat] /\ e \in [Gauges -> Nat]
  BY <1>1, DuesType, HeadStartsType
<1>3. ASSUME NEW h \in Gauges PROVE q[h] = o[h] + e[h]
  <2> DEFINE x == (gc.weighted_emissions_per_gauge[h] - gc.sent_emissions_per_gauge[h]) * WAD
             y == (gc.specific_emissions - gc.specific_emissions_per_gauge[h])
                      * gc.adjusted_gauge_weight[h]
  <2>1. gc.time_weight[h] # now'
    <3>1. gc.time_weight[h] \in 0..now
      BY <1>1, GcTypes
    <3> QED
      BY <1>1, <3>1, SMT
  <2>2. q[h] = x + y
    BY <2>1 DEF Dues, Due, Pending
  <2>3. /\ gc.time_weight[h] = now => o[h] = x + 0 /\ e[h] = y
        /\ gc.time_weight[h] # now => o[h] = x + y /\ e[h] = 0
    BY DEF Dues, Due, Pending, HeadStarts
  <2>4. o[h] \in Nat /\ e[h] \in Nat
    BY <1>2
  <2>5. x \in Int
    <3>1. gc.weighted_emissions_per_gauge[h] \in Nat /\ gc.sent_emissions_per_gauge[h] \in Nat
      BY <1>1, GcTypes
    <3> QED
      BY <3>1, ControllerConstants, SMT
  <2> HIDE DEF x, y, o, e, q
  <2> QED
    BY <2>2, <2>3, <2>4, <2>5, SMT
<1>4. DOMAIN q = Gauges /\ q = [h \in Gauges |-> q[h]]
  BY DEF Dues
<1>5. Total(o) <= (gc.minted - gc.sent) * WAD + overcredited
  BY DEF SharesOK
<1>6. overcredited' = overcredited + Total(e)
  BY <1>1 DEF BookHeadStarts
<1> HIDE DEF o, e, q
<1>7. q \in [Gauges -> Nat]
  <2>1. \A h \in Gauges : q[h] \in Nat
    <3> SUFFICES ASSUME NEW h \in Gauges PROVE q[h] \in Nat
      OBVIOUS
    <3>1. o[h] \in Nat /\ e[h] \in Nat /\ q[h] = o[h] + e[h]
      BY <1>2, <1>3
    <3> QED
      BY <3>1, SMT
  <2> QED
    BY <1>4, <2>1
<1>8. Total(q) = Total(o) + Total(e)
  BY <1>2, <1>3, <1>7, ControllerConstants, TotalPlus
<1>9. Total(o) \in Nat /\ Total(e) \in Nat
  BY <1>2, ControllerConstants, TotalType
<1>10. /\ Total(q) <= (gc.minted - gc.sent) * WAD + overcredited'
       /\ overcredited' \in Nat
  BY <1>1, <1>5, <1>6, <1>8, <1>9, SMT
<1>11. (gc \in GcState(now))'
  <2>1. 0..now \subseteq 0..now'
    BY <1>1, SMT
  <2>2. gc' \in GcState(now')
    BY <1>1, <2>1 DEF GcState
  <2> QED
    BY <2>2 DEF GcState, Times
<1>12. \A h \in Gauges : GaugeOK(gc, h)'
  BY <1>1 DEF GaugeOK
<1> QED
  BY <1>10, <1>11, <1>12 DEF SharesOK, q

(* The operations of the VotingEscrow leave the gauges alone. *)
LEMMA EscrowKeepsShares ==
    ASSUME UserInv, SharesOK(gc), EscrowStep, BookHeadStarts
    PROVE  SharesOK(gc)'
<1>1. gc' = gc
  BY DEF EscrowStep
<1>2. now' \in {now, now + 1}
  BY DEF EscrowStep, Locking, CreateLock, IncreaseAmount, IncreaseUnlockTime, Withdraw,
         InfiniteLockToggle, Transfer, Tick, Becomes
<1>3. CASE now' = now
  BY <1>1, <1>3, SharesAtTheSameTime
<1>4. CASE now' = now + 1
  BY <1>1, <1>4, TickKeepsShares
<1> QED
  BY <1>2, <1>3, <1>4

(* At first nothing is weighed and nothing is due. *)
LEMMA InitShares == Init => SharesOK(gc)
<1> SUFFICES ASSUME Init PROVE SharesOK(gc)
  OBVIOUS
<1> DEFINE zero == [g \in Gauges |-> 0]
<1>1. gc = GcInit /\ now \in Nat
  BY VeConstants DEF Init, VeInit
<1>2. /\ gc \in GcState(now)
      /\ gc.gauge_weight = zero /\ gc.gauge_weight_sum = 0
      /\ gc.adjusted_gauge_weight = zero /\ gc.adjusted_gauge_weight_sum = 0
      /\ gc.specific_emissions = 0 /\ gc.specific_emissions_per_gauge = zero
      /\ gc.weighted_emissions_per_gauge = zero /\ gc.sent_emissions_per_gauge = zero
      /\ gc.sent = 0 /\ gc.minted = 0 /\ gc.last_minted = 0
      /\ gc.time_weight = zero
  <2>1. 0 \in 0..now /\ [bias |-> 0, slope |-> 0] \in WeightPoint
    BY <1>1, SMT DEF WeightPoint
  <2> QED
    BY <1>1, <2>1 DEF GcInit, GcState
<1>3. zero \in [Gauges -> Nat] /\ \A g \in Gauges : zero[g] = 0
  OBVIOUS
<1> HIDE DEF zero
<1>4. Total(zero) = 0
  BY <1>3, ControllerConstants, TotalZero
<1>5. \A g \in Gauges : GaugeOK(gc, g)
  BY <1>2, <1>3 DEF GaugeOK
<1>6. Total(Dues(gc)) = 0
  <2>1. \A g \in Gauges : Due(gc, g) = 0
    <3> SUFFICES ASSUME NEW g \in Gauges PROVE Due(gc, g) = 0
      OBVIOUS
    <3>1. Due(gc, g) = (0 - 0) * WAD + IF 0 = now THEN 0 ELSE (0 - 0) * 0
      BY <1>2, <1>3, Zenon DEF Due, Pending
    <3> QED
      BY <3>1, ControllerConstants, SMT
  <2>2. Dues(gc) \in [Gauges -> Nat] /\ \A g \in Gauges : Dues(gc)[g] = 0
    BY <2>1 DEF Dues
  <2> QED
    BY <2>2, ControllerConstants, TotalZero
<1>7. (0 - 0) * WAD + 0 = 0 /\ 0 <= RESERVE
  BY ControllerConstants, SMT
<1>8. overcredited = 0
  BY DEF Init
<1> QED
  BY <1>2, <1>4, <1>5, <1>6, <1>7, <1>8 DEF SharesOK

(* Every step keeps the shares. *)
LEMMA NextKeepsShares == UserInv /\ SharesOK(gc) /\ [Next]_vars => SharesOK(gc)'
<1> SUFFICES ASSUME UserInv, SharesOK(gc), [Next]_vars PROVE SharesOK(gc)'
  OBVIOUS
<1>0. BookHeadStarts
  BY DEF Next, BookHeadStarts, vars, veVars
<1>1. CASE EscrowStep
  BY <1>0, <1>1, EscrowKeepsShares
<1>2. ASSUME NEW u \in Users, NEW b \in Ballots, NEW w \in [Chosen(b) -> Weights],
             NEW a \in [Chosen(b) -> Adjustments], VoteForGaugeWeights(u, b, w, a)
      PROVE  SharesOK(gc)'
  <2>1. now' = now
    BY <1>2 DEF VoteForGaugeWeights, veVars
  <2> QED
    BY <1>0, <1>2, <2>1, BallotKeepsShares, SharesAtTheSameTime
<1>3. ASSUME NEW g \in Gauges, AddGauge(g) PROVE SharesOK(gc)'
  <2>1. now' = now
    BY <1>3 DEF AddGauge, veVars
  <2> QED
    BY <1>0, <1>3, <2>1, AddGaugeKeepsShares, SharesAtTheSameTime
<1>4. ASSUME NEW g \in Gauges, SetKilled(g, ~is_killed[g]) PROVE SharesOK(gc)'
  <2>1. now' = now /\ gc' = gc
    BY <1>4 DEF SetKilled, veVars
  <2> QED
    BY <1>0, <2>1, SharesAtTheSameTime
<1>5. ASSUME NEW g \in Gauges, NEW a \in Adjustments, Checkpoint(g, a) PROVE SharesOK(gc)'
  <2>1. now' = now /\ gc' = CheckpointGauge(gc, g, a) /\ a \in Nat
    BY <1>5, ControllerConstants DEF Checkpoint, veVars
  <2> QED
    BY <1>0, <2>1, CheckpointKeepsShares, SharesAtTheSameTime
<1>6. ASSUME NEW g \in Gauges, NEW a \in Adjustments, Emit(g, a) PROVE SharesOK(gc)'
  <2>1. now' = now
    BY <1>6 DEF Emit, veVars
  <2> QED
    BY <1>0, <1>6, <2>1, EmitKeepsShares, SharesAtTheSameTime
<1>7. CASE StartEmissions
  <2>1. now' = now
    BY <1>7 DEF StartEmissions, veVars
  <2> QED
    BY <1>0, <1>7, <2>1, StartKeepsShares, SharesAtTheSameTime
<1>8. CASE UNCHANGED vars
  <2>1. now' = now /\ gc' = gc
    BY <1>8 DEF vars, veVars
  <2> QED
    BY <1>0, <2>1, SharesAtTheSameTime
<1> QED
  BY <1>1, <1>2, <1>3, <1>4, <1>5, <1>6, <1>7, <1>8 DEF Next, ControllerStep

-----------------------------------------------------------------------------
(***************************************************************************)
(* What follows                                                            *)
(***************************************************************************)
\* The induction hypothesis.
ControllerInv == UserInv /\ SharesOK(gc)

(* It holds always. *)
LEMMA ControllerKept == Spec => []ControllerInv
<1>1. Init => ControllerInv
  BY InitUsers, InitShares DEF ControllerInv
<1>2. ControllerInv /\ [Next]_vars => ControllerInv'
  BY NextKeepsUsers, NextKeepsShares DEF ControllerInv
<1> QED
  BY <1>1, <1>2, PTL DEF Spec

(* The state of GaugeController.vy keeps its types: no subtraction of votes,
   weights or emissions goes below zero. *)
THEOREM ControllerTypeCorrect == Spec => []TypeOK
<1>1. ControllerInv => TypeOK
  BY DEF ControllerInv, UserInv, UserTypeOK, SharesOK, TypeOK
<1> QED
  BY <1>1, ControllerKept, PTL

(* vote_for_gauge_weights keeps vote_user_power in step with the votes. *)
THEOREM PowerStaysSumOfVotes == Spec => []PowerIsSumOfVotes
<1>1. ControllerInv => PowerIsSumOfVotes
  BY DEF ControllerInv, UserInv
<1> QED
  BY <1>1, ControllerKept, PTL

(* ve_transfer_allowed keeps the votes of vote_for_gauge_weights within the
   lock of the user who cast them. *)
THEOREM VotesStayBacked == Spec => []VotesBacked
<1>1. ControllerInv => VotesBacked
  BY UserVotesBacked DEF ControllerInv
<1> QED
  BY <1>1, ControllerKept, PTL

(* The assertion of YB.emit, rate_factor <= 10**18, holds for every caller:
   the controller never asks for more than the full rate. *)
THEOREM RateFactorAtMostOne == Spec => [](rate_factor(gc) <= WAD)
<1>1. ASSUME ControllerInv PROVE rate_factor(gc) <= WAD
  <2> DEFINE a == gc.adjusted_gauge_weight_sum
             w == gc.gauge_weight_sum
  <2>1. SharesOK(gc) /\ gc \in GcState(now)
    BY <1>1 DEF ControllerInv, SharesOK
  <2>2. /\ gc.gauge_weight \in [Gauges -> Nat] /\ gc.adjusted_gauge_weight \in [Gauges -> Nat]
        /\ a \in Nat /\ w \in Nat
    BY <2>1, GcTypes
  <2>3. \A g \in Gauges : gc.adjusted_gauge_weight[g] <= gc.gauge_weight[g]
    BY <2>1 DEF SharesOK, GaugeOK
  <2>4. a = Total(gc.adjusted_gauge_weight) /\ w = Total(gc.gauge_weight)
    BY <2>1 DEF SharesOK
  <2>5. a <= w
    BY <2>2, <2>3, <2>4, ControllerConstants, TotalMonotone
  <2>6. rate_factor(gc) = unsafe_div(a * WAD, w)
    BY DEF rate_factor
  <2> HIDE DEF a, w
  <2>7. WAD \in Nat \ {0}
    BY ControllerConstants
  <2>8. CASE w = 0
    BY <2>6, <2>7, <2>8, SMT DEF unsafe_div
  <2>9. CASE w # 0
    <3>1. unsafe_div(a * WAD, w) = (a * WAD) \div w
      BY <2>9 DEF unsafe_div
    <3>2. a * WAD <= w * WAD /\ a * WAD \in Nat
      BY <2>2, <2>5, <2>7, ProductMonotone
    <3>3. w * WAD = WAD * w /\ WAD * w \in Nat
      BY <2>2, <2>7, SMT
    <3>4. (a * WAD) \div w <= (WAD * w) \div w
      BY <2>2, <2>9, <3>2, <3>3, DivMonotone
    <3>5. (WAD * w) \div w = WAD
      BY <2>2, <2>7, <2>9, MultipleDiv
    <3> QED
      BY <2>6, <3>1, <3>4, <3>5
  <2> QED
    BY <2>8, <2>9
<1> QED
  BY <1>1, ControllerKept, PTL

(* What the gauges have earned is within what was minted for them, but for the
   head starts. *)
LEMMA SharesCoverOwed ==
    ASSUME ControllerInv
    PROVE  EmissionsCovered
<1> DEFINE o == [g \in Gauges |-> Owed(g)]
           h == [g \in Gauges |-> WAD * o[g]]
           q == Dues(gc)
           e == HeadStarts(gc)
           f == [g \in Gauges |-> q[g] + e[g]]
           n == (gc.minted - gc.sent) * WAD
<1>1. /\ SharesOK(gc) /\ gc \in GcState(now)
      /\ \A g \in Gauges : GaugeOK(gc, g)
      /\ overcredited \in Nat
      /\ Total(q) <= n + overcredited
      /\ WAD \in Nat \ {0} /\ IsFiniteSet(Gauges)
  BY ControllerConstants DEF ControllerInv, SharesOK
<1>2. q \in [Gauges -> Nat] /\ e \in [Gauges -> Nat]
  BY <1>1, DuesType, HeadStartsType
<1>3. ASSUME NEW g \in Gauges
      PROVE  o[g] \in Nat /\ h[g] \in Nat /\ h[g] <= q[g] + e[g]
  <2> DEFINE x == gc.weighted_emissions_per_gauge[g] - gc.sent_emissions_per_gauge[g]
             y == (gc.specific_emissions - gc.specific_emissions_per_gauge[g])
                     * gc.adjusted_gauge_weight[g]
             credit == Credit(gc, g, gc.specific_emissions)
  <2>1. /\ gc.weighted_emissions_per_gauge[g] \in Nat /\ gc.sent_emissions_per_gauge[g] \in Nat
        /\ gc.specific_emissions_per_gauge[g] \in Nat /\ gc.adjusted_gauge_weight[g] \in Nat
        /\ gc.specific_emissions \in Nat
    BY <1>1, GcTypes
  <2>2. /\ gc.specific_emissions_per_gauge[g] <= gc.specific_emissions
        /\ gc.sent_emissions_per_gauge[g] <= gc.weighted_emissions_per_gauge[g]
    BY <1>1 DEF GaugeOK
  <2>3. x \in Nat
    BY <2>1, <2>2, SMT
  <2>4. credit \in Nat /\ credit * WAD <= y
    BY <1>1, <2>1, <2>2, CreditBounds
  <2>5. y \in Nat
    <3>1. gc.specific_emissions - gc.specific_emissions_per_gauge[g] \in Nat
      BY <2>1, <2>2, SMT
    <3> QED
      BY <2>1, <3>1, SMT
  <2>6. o[g] = x + credit
    BY DEF Owed
  <2>7. /\ gc.time_weight[g] = now => q[g] = x * WAD + 0 /\ e[g] = y
        /\ gc.time_weight[g] # now => q[g] = x * WAD + y /\ e[g] = 0
    BY DEF Dues, Due, Pending, HeadStarts
  <2>8. h[g] = WAD * o[g]
    OBVIOUS
  <2> HIDE DEF x, y, credit, o, h, q, e
  <2>9. /\ WAD * (x + credit) = x * WAD + credit * WAD
        /\ x * WAD \in Nat /\ credit * WAD \in Nat
    BY <1>1, <2>3, <2>4, SMT
  <2> QED
    BY <2>3, <2>4, <2>5, <2>6, <2>7, <2>8, <2>9, SMT
<1>4. o \in [Gauges -> Nat] /\ h \in [Gauges -> Nat]
  BY <1>3
<1>5. f \in [Gauges -> Nat]
  <2>1. \A g \in Gauges : q[g] \in Nat /\ e[g] \in Nat
    BY <1>2
  <2> HIDE DEF q, e
  <2> QED
    BY <2>1
<1>6. n \in Int
  <2>1. gc.minted \in Nat /\ gc.sent \in Nat
    BY <1>1, GcTypes
  <2> QED
    BY <1>1, <2>1, SMT
<1>7. (\A g \in Gauges : h[g] = WAD * o[g]) /\ (\A g \in Gauges : h[g] <= f[g])
      /\ (\A g \in Gauges : f[g] = q[g] + e[g])
  BY <1>3
<1> HIDE DEF o, h, q, e, f, n
<1>8. /\ Total(h) = WAD * Total(o) /\ Total(h) <= Total(f)
      /\ Total(f) = Total(q) + Total(e)
  <2>1. WAD \in Nat /\ IsFiniteSet(Gauges)
    BY <1>1
  <2>2. Total(h) = WAD * Total(o)
    BY <2>1, <1>4, <1>7, TotalScaled
  <2>3. Total(h) <= Total(f)
    BY <2>1, <1>4, <1>5, <1>7, TotalMonotone
  <2>4. Total(f) = Total(q) + Total(e)
    BY <2>1, <1>2, <1>5, <1>7, TotalPlus
  <2> QED
    BY <2>2, <2>3, <2>4
<1>9. /\ Total(o) \in Nat /\ Total(h) \in Nat /\ Total(f) \in Nat
      /\ Total(q) \in Nat /\ Total(e) \in Nat
  BY <1>1, <1>2, <1>4, <1>5, TotalType
<1>10. WAD * Total(o) = Total(o) * WAD
  BY <1>1, <1>9, SMT
<1>11. Total(o) * WAD <= n + overcredited + Total(e)
  BY <1>1, <1>6, <1>8, <1>9, <1>10, SMT
<1> QED
  BY <1>11 DEF EmissionsCovered, o, n, e

(* YB minted for the gauges covers every emit of GaugeController.vy, but for
   what gauges get as a head start: _checkpoint_gauge skips the books of a gauge
   that was added in the same second. *)
THEOREM EmissionsStayCovered == Spec => []EmissionsCovered
<1>1. ControllerInv => EmissionsCovered
  BY SharesCoverOwed
<1> QED
  BY <1>1, ControllerKept, PTL

-----------------------------------------------------------------------------
(***************************************************************************)
(* What the votes for a gauge add up to                                    *)
(***************************************************************************)
\* A vote that does not decay has no slope, and others end with a week.
WholeVote ==
    {v \in Vote : /\ v.end = MaxUint => v.slope = 0
                  /\ v.end # MaxUint => RoundToWeek(v.end) = v.end}

BiasAt(vote, t) ==
    IF vote.end = MaxUint THEN vote.bias ELSE vote.slope * (Larger(vote.end, t) - t)
SlopeAt(vote, t) == SlopeIf(vote, t < vote.end /\ vote.end # MaxUint)
EndAt(vote, t) == SlopeIf(vote, vote.end = t)

\* vs are the votes of the users for one gauge.
BiasesAt(vs, t) == [u \in Users |-> BiasAt(vs[u], t)]
SlopesAt(vs, t) == [u \in Users |-> SlopeAt(vs[u], t)]
EndingAt(vs, t) == [u \in Users |-> EndAt(vs[u], t)]

\* The point at t and the changes after t are the sums over the votes.
PointAdds(pt, vs, t) == pt.bias = Total(BiasesAt(vs, t)) /\ pt.slope = Total(SlopesAt(vs, t))
ChangesAdd(changes, vs, t) ==
    \A e \in (t + 1)..(MaxTime + MAXTIME) : changes[e] = Total(EndingAt(vs, e))

(* What votes weigh is a number. *)
LEMMA BiasAtType ==
    ASSUME now \in Nat, NEW v \in Vote, NEW t \in Nat
    PROVE  BiasAt(v, t) \in Nat /\ SlopeAt(v, t) \in Nat /\ EndAt(v, t) \in Nat
<1>1. v.slope \in Nat /\ v.bias \in Nat /\ v.end \in Nat
  BY VoteType
<1>2. Larger(v.end, t) - t \in Nat
  BY <1>1, SMT DEF Larger
<1>3. v.slope * (Larger(v.end, t) - t) \in Nat
  <2> DEFINE d == Larger(v.end, t) - t
  <2> HIDE DEF d
  <2>1. v.slope * d \in Nat
    BY <1>1, <1>2, SMT DEF d
  <2> QED
    BY <2>1 DEF d
<1> QED
  BY <1>1, <1>3 DEF BiasAt, SlopeAt, EndAt, SlopeIf

(* Sums over users are natural numbers. *)
LEMMA SumsType ==
    ASSUME now \in Nat, NEW vs \in [Users -> Vote], NEW t \in Nat
    PROVE  /\ BiasesAt(vs, t) \in [Users -> Nat] /\ Total(BiasesAt(vs, t)) \in Nat
           /\ SlopesAt(vs, t) \in [Users -> Nat] /\ Total(SlopesAt(vs, t)) \in Nat
           /\ EndingAt(vs, t) \in [Users -> Nat] /\ Total(EndingAt(vs, t)) \in Nat
<1>1. \A u \in Users : BiasAt(vs[u], t) \in Nat /\ SlopeAt(vs[u], t) \in Nat /\ EndAt(vs[u], t) \in Nat
  BY BiasAtType
<1>2. /\ BiasesAt(vs, t) \in [Users -> Nat]
      /\ SlopesAt(vs, t) \in [Users -> Nat]
      /\ EndingAt(vs, t) \in [Users -> Nat]
  BY <1>1 DEF BiasesAt, SlopesAt, EndingAt
<1> QED
  BY <1>2, ControllerConstants, TotalType

(* A vote decays by its slope as long as no week starts; when one starts at its
   end, nothing of it is left. *)
LEMMA DecayOfVote ==
    ASSUME now \in Nat, now <= MaxTime, NEW v \in WholeVote, NEW a, NEW b, SameWeek(a, b)
    PROVE  /\ BiasAt(v, a) = BiasAt(v, b) + (b - a) * SlopeAt(v, a)
           /\ SlopeAt(v, a) = SlopeAt(v, b) + EndAt(v, b)
           /\ BiasAt(v, b) = 0 => SlopeAt(v, b) = 0
<1>1. /\ v \in Vote
      /\ v.end = MaxUint => v.slope = 0
      /\ v.end # MaxUint => RoundToWeek(v.end) = v.end
  BY DEF WholeVote
<1>2. v.slope \in Nat /\ v.bias \in Nat /\ v.end \in Nat
  BY <1>1, VoteType
<1>3. /\ a \in Nat /\ b \in Nat /\ a < b /\ b < MaxUint
      /\ v.end # MaxUint /\ a < v.end => b <= v.end
  <2>1. a \in 0..now /\ b \in 0..now /\ a < b
    BY DEF SameWeek
  <2>2. \A e \in Nat : RoundToWeek(e) = e /\ a < e => b <= e
    BY DEF SameWeek
  <2>3. v.end # MaxUint /\ a < v.end => b <= v.end
    BY <1>1, <1>2, <2>2
  <2>4. b < MaxUint
    BY <2>1, VeAssumption, SMT
  <2> QED
    BY <2>1, <2>3, <2>4
<1>4. CASE v.end = MaxUint
  <2>1. BiasAt(v, a) = v.bias /\ BiasAt(v, b) = v.bias
    BY <1>4 DEF BiasAt
  <2>2. SlopeAt(v, a) = 0 /\ SlopeAt(v, b) = 0
    BY <1>4 DEF SlopeAt, SlopeIf
  <2>3. EndAt(v, b) = 0
    BY <1>3, <1>4, VeConstants, SMT DEF EndAt, SlopeIf
  <2>4. (b - a) * 0 = 0
    BY <1>3, SMT
  <2> QED
    BY <1>2, <2>1, <2>2, <2>3, <2>4, SMT
<1>5. CASE v.end # MaxUint /\ v.end <= a
  <2>1. Larger(v.end, a) - a = 0 /\ Larger(v.end, b) - b = 0 /\ v.end # b /\ ~(a < v.end) /\ ~(b < v.end)
    BY <1>2, <1>3, <1>5, SMT DEF Larger
  <2>2. BiasAt(v, a) = v.slope * 0 /\ BiasAt(v, b) = v.slope * 0
    BY <1>5, <2>1, Zenon DEF BiasAt
  <2>3. SlopeAt(v, a) = 0 /\ SlopeAt(v, b) = 0 /\ EndAt(v, b) = 0
    BY <2>1 DEF SlopeAt, SlopeIf, EndAt
  <2>4. (b - a) * 0 = 0 /\ v.slope * 0 = 0
    BY <1>2, <1>3, SMT
  <2> QED
    BY <2>2, <2>3, <2>4, SMT
<1>6. CASE v.end # MaxUint /\ v.end > a
  <2> DEFINE s == v.slope
             x == v.end - b
             d == b - a
  <2>1. /\ x \in Nat /\ d \in Nat /\ Larger(v.end, a) - a = x + d /\ Larger(v.end, b) - b = x
        /\ b <= v.end
    BY <1>2, <1>3, <1>6, SMT DEF Larger
  <2>2. BiasAt(v, a) = s * (x + d) /\ BiasAt(v, b) = s * x
    BY <1>6, <2>1, Zenon DEF BiasAt
  <2>3. SlopeAt(v, a) = s
    BY <1>2, <1>3, <1>6, SMT DEF SlopeAt, SlopeIf
  <2>4. SlopeAt(v, a) = SlopeAt(v, b) + EndAt(v, b)
    BY <1>2, <1>3, <1>6, <2>1, <2>3, SMT DEF SlopeAt, EndAt, SlopeIf
  <2>5. x = 0 => SlopeAt(v, b) = 0
    BY <1>2, <1>3, SMT DEF SlopeAt, SlopeIf
  <2>6. SlopeAt(v, b) \in {0, s}
    BY DEF SlopeAt, SlopeIf
  <2>7. s \in Nat
    BY <1>2
  <2> HIDE DEF s, x, d
  <2>8. s * (x + d) = s * x + d * s
    BY <2>1, <2>7, SMT
  <2>9. s * x = 0 => s = 0 \/ x = 0
    BY <2>1, <2>7, SMT
  <2>10. BiasAt(v, b) = 0 => SlopeAt(v, b) = 0
    BY <2>2, <2>5, <2>6, <2>9
  <2>11. BiasAt(v, a) = BiasAt(v, b) + d * SlopeAt(v, a)
    BY <2>2, <2>3, <2>8
  <2> QED
    BY <2>4, <2>10, <2>11 DEF d
<1> QED
  BY <1>2, <1>3, <1>4, <1>5, <1>6, SMT

(* So does the sum of votes: the point that _get_weight carries on stays it. *)
LEMMA DecayAdds ==
    ASSUME now \in Nat, now <= MaxTime, NEW vs \in [Users -> WholeVote], NEW a, NEW b,
           SameWeek(a, b), NEW pt \in WeightPoint, PointAdds(pt, vs, a)
    PROVE  PointAdds(Decayed(pt, b - a, Total(EndingAt(vs, b))), vs, b)
<1> DEFINE B == Total(BiasesAt(vs, b))
           S == Total(SlopesAt(vs, a))
           T == Total(SlopesAt(vs, b))
           E == Total(EndingAt(vs, b))
           d == b - a
           scaled == [u \in Users |-> d * SlopesAt(vs, a)[u]]
<1>1. a \in Nat /\ b \in Nat /\ d \in Nat
  BY SMT DEF SameWeek
<1>2. vs \in [Users -> Vote]
  BY DEF WholeVote
<1>3. /\ BiasesAt(vs, a) \in [Users -> Nat]
      /\ SlopesAt(vs, a) \in [Users -> Nat] /\ S \in Nat
      /\ BiasesAt(vs, b) \in [Users -> Nat] /\ B \in Nat
      /\ SlopesAt(vs, b) \in [Users -> Nat] /\ T \in Nat
      /\ EndingAt(vs, b) \in [Users -> Nat] /\ E \in Nat
  BY <1>1, <1>2, SumsType
<1>4. \A u \in Users : /\ BiasesAt(vs, a)[u] = BiasesAt(vs, b)[u] + d * SlopesAt(vs, a)[u]
                       /\ SlopesAt(vs, a)[u] = SlopesAt(vs, b)[u] + EndingAt(vs, b)[u]
                       /\ BiasesAt(vs, b)[u] = 0 => SlopesAt(vs, b)[u] = 0
  <2> TAKE u \in Users
  <2>1. vs[u] \in WholeVote
    OBVIOUS
  <2> QED
    BY <2>1, DecayOfVote DEF BiasesAt, SlopesAt, EndingAt
<1> HIDE DEF d
<1>5. scaled \in [Users -> Nat] /\ \A u \in Users : scaled[u] = d * SlopesAt(vs, a)[u]
  <2>1. \A u \in Users : d * SlopesAt(vs, a)[u] \in Nat
    <3> TAKE u \in Users
    <3>1. SlopesAt(vs, a)[u] \in Nat
      BY <1>3
    <3> QED
      BY <1>1, <3>1, SMT
  <2> QED
    BY <2>1
<1>6. Total(scaled) = d * S
  <2>1. ASSUME NEW f \in [Users -> Nat], NEW h \in [Users -> Nat], \A u \in Users : h[u] = d * f[u]
        PROVE  Total(h) = d * Total(f)
    BY <1>1, <2>1, ControllerConstants, TotalScaled
  <2> HIDE DEF scaled
  <2> QED
    BY <1>3, <1>5, <2>1
<1>7. Total(BiasesAt(vs, a)) = B + d * S
  <2>1. \A u \in Users : BiasesAt(vs, a)[u] = BiasesAt(vs, b)[u] + scaled[u]
    BY <1>4, <1>5, Zenon
  <2> HIDE DEF scaled
  <2>2. ASSUME NEW f \in [Users -> Nat], NEW g \in [Users -> Nat], NEW h \in [Users -> Nat],
               \A u \in Users : h[u] = f[u] + g[u]
        PROVE  Total(h) = Total(f) + Total(g)
    BY <2>2, ControllerConstants, TotalPlus
  <2>3. Total(BiasesAt(vs, a)) = B + Total(scaled)
    BY <1>3, <1>5, <2>1, <2>2
  <2> QED
    BY <1>6, <2>3
<1>8. S = T + E
  BY <1>3, <1>4, ControllerConstants, TotalPlus
<1>9. B = 0 => T = 0
  <2> SUFFICES ASSUME B = 0 PROVE T = 0
    OBVIOUS
  <2>1. ASSUME NEW u \in Users PROVE SlopesAt(vs, b)[u] = 0
    <3>1. BiasesAt(vs, b)[u] <= B
      BY <1>3, ControllerConstants, TotalTerm
    <3>2. BiasesAt(vs, b)[u] \in Nat
      BY <1>3
    <3>3. BiasesAt(vs, b)[u] = 0
      BY <3>1, <3>2, SMT
    <3> QED
      BY <1>4, <3>3
  <2> QED
    BY <1>3, <2>1, ControllerConstants, TotalZero
<1>10. pt.bias = B + d * S /\ pt.slope = S
  BY <1>7 DEF PointAdds
<1> HIDE DEF B, S, T, E, scaled
<1>11. d * S \in Nat /\ S * d = d * S
  BY <1>1, <1>3, SMT
<1>12. pt.bias - Smaller(pt.slope * d, pt.bias) = B
  <2>1. pt.slope * d = d * S
    BY <1>10, <1>11
  <2> QED
    BY <1>3, <1>10, <1>11, <2>1, SMT DEF Smaller
<1>13. pt.slope - Smaller(E, pt.slope) = T
  BY <1>3, <1>8, <1>10, SMT DEF Smaller
<1>14. Decayed(pt, d, E) = [bias |-> B, slope |-> IF B = 0 THEN 0 ELSE T]
  BY <1>12, <1>13, Zenon DEF Decayed
<1>15. Decayed(pt, d, E).bias = B /\ Decayed(pt, d, E).slope = T
  BY <1>9, <1>14
<1> QED
  BY <1>15 DEF PointAdds, d, B, T, E

\* What the controller keeps of a gauge adds up.
AddsUp(s, g, vs) ==
    /\ PointAdds(s.point_weight[g], vs, s.time_weight[g])
    /\ ChangesAdd(s.changes_weight[g], vs, s.time_weight[g])

(* What a checkpoint carries on to now is the sum of what the votes weigh now. *)
LEMMA WeightAdds ==
    ASSUME UserInv, NEW s \in GcState(now), NEW g \in Gauges, NEW vs \in [Users -> WholeVote],
           Added(s, g), AddsUp(s, g, vs)
    PROVE  PointAdds(GetWeight(s, g), vs, now)
<1> DEFINE t == s.time_weight[g]
           K == {x \in WeightPoint \X (0..now) : x[2] >= t /\ PointAdds(x[1], vs, x[2])}
<1>1. now \in Nat /\ now <= MaxTime /\ now <= MaxTime + MAXTIME
  BY ControllerConstants, VeConstants, SMT DEF UserInv, UserTypeOK
<1>2. s.point_weight[g] \in WeightPoint /\ t \in 0..now
  BY DEF GcState
<1>3. <<s.point_weight[g], t>> \in K
  BY <1>2 DEF AddsUp
<1>4. ASSUME NEW pt, NEW a, NEW b, <<pt, a>> \in K, SameWeek(a, b)
      PROVE  <<Decayed(pt, b - a, s.changes_weight[g][b]), b>> \in K
  <2>1. pt \in WeightPoint /\ a >= t /\ PointAdds(pt, vs, a)
    BY <1>4
  <2>2. a \in 0..now /\ b \in 0..now /\ a < b
    BY <1>4 DEF SameWeek
  <2> DEFINE E == Total(EndingAt(vs, b))
             after == Decayed(pt, b - a, E)
  <2>3. s.changes_weight[g][b] = E
    <3>1. b \in (t + 1)..(MaxTime + MAXTIME)
      BY <1>1, <1>2, <2>1, <2>2, VeConstants, SMT
    <3> QED
      BY <3>1 DEF AddsUp, ChangesAdd
  <2>4. PointAdds(after, vs, b)
    BY <1>1, <1>4, <2>1, DecayAdds
  <2>5. E \in Nat /\ b - a \in Nat /\ b >= t
    <3>1. vs \in [Users -> Vote]
      BY DEF WholeVote
    <3>2. b \in Nat /\ b - a \in Nat /\ b >= t
      BY <1>2, <2>1, <2>2, SMT
    <3> QED
      BY <1>1, <3>1, <3>2, SumsType
  <2> HIDE DEF E
  <2>6. after \in WeightPoint
    BY <2>1, <2>5, DecayedType
  <2> HIDE DEF after
  <2>7. <<after, b>> \in K
    BY <2>2, <2>4, <2>5, <2>6
  <2> QED
    BY <2>3, <2>7 DEF after
<1> HIDE DEF K
<1>5. <<GetWeight(s, g), now>> \in K
  BY <1>1, <1>2, <1>3, <1>4, GetWeightInduction
<1> QED
  BY <1>5 DEF K

(* The scheduled changes for times to come add up whenever they did. *)
LEMMA ChangesLater ==
    ASSUME NEW changes, NEW vs, NEW t \in Nat, NEW later \in Nat, t <= later, ChangesAdd(changes, vs, t)
    PROVE  ChangesAdd(changes, vs, later)
<1>1. (later + 1)..(MaxTime + MAXTIME) \subseteq (t + 1)..(MaxTime + MAXTIME)
  BY VeConstants, SMT
<1> QED
  BY <1>1 DEF ChangesAdd

(* Exchanging a vote in a point exchanges it in the sums. *)
LEMMA ReplacedPointAdds ==
    ASSUME now \in Nat, NEW vs \in [Users -> WholeVote], NEW u \in Users, NEW new \in WholeVote,
           new.end > now, new.bias = BiasAt(new, now), NEW pt \in WeightPoint, PointAdds(pt, vs, now)
    PROVE  PointAdds(ReplacedPoint(pt, vs[u], new), [vs EXCEPT ![u] = new], now)
<1> DEFINE old == vs[u]
           ws == [vs EXCEPT ![u] = new]
           B == Total(BiasesAt(vs, now))
           S == Total(SlopesAt(vs, now))
<1>1. /\ vs \in [Users -> Vote] /\ ws \in [Users -> Vote] /\ old \in Vote /\ new \in Vote
      /\ old.end = MaxUint => old.slope = 0
      /\ new.end = MaxUint => new.slope = 0
      /\ ws[u] = new /\ \A v \in Users \ {u} : ws[v] = vs[v]
  BY DEF WholeVote
<1> HIDE DEF ws
<1>2. /\ BiasesAt(vs, now) \in [Users -> Nat] /\ B \in Nat
      /\ SlopesAt(vs, now) \in [Users -> Nat] /\ S \in Nat
      /\ BiasesAt(ws, now) \in [Users -> Nat]
      /\ SlopesAt(ws, now) \in [Users -> Nat]
  BY <1>1, SumsType
<1>3. /\ BiasesAt(vs, now)[u] = BiasAt(old, now) /\ BiasesAt(ws, now)[u] = BiasAt(new, now)
      /\ SlopesAt(vs, now)[u] = SlopeAt(old, now) /\ SlopesAt(ws, now)[u] = SlopeAt(new, now)
      /\ \A v \in Users \ {u} : /\ BiasesAt(ws, now)[v] = BiasesAt(vs, now)[v]
                                /\ SlopesAt(ws, now)[v] = SlopesAt(vs, now)[v]
  BY <1>1 DEF BiasesAt, SlopesAt
<1>4. /\ Total(BiasesAt(ws, now)) = B - BiasAt(old, now) + BiasAt(new, now)
      /\ Total(SlopesAt(ws, now)) = S - SlopeAt(old, now) + SlopeAt(new, now)
  <2>1. ASSUME NEW f \in [Users -> Nat], NEW h \in [Users -> Nat], \A v \in Users \ {u} : h[v] = f[v]
        PROVE  Total(h) = Total(f) - f[u] + h[u]
    BY <2>1, ControllerConstants, TotalUpdate
  <2>2. Total(BiasesAt(ws, now)) = B - BiasesAt(vs, now)[u] + BiasesAt(ws, now)[u]
    BY <1>2, <1>3, <2>1
  <2>3. Total(SlopesAt(ws, now)) = S - SlopesAt(vs, now)[u] + SlopesAt(ws, now)[u]
    BY <1>2, <1>3, <2>1
  <2> QED
    BY <1>3, <2>2, <2>3
<1>5. BiasAt(old, now) <= B /\ SlopeAt(old, now) <= S
  <2>1. BiasesAt(vs, now)[u] <= B /\ SlopesAt(vs, now)[u] <= S
    BY <1>2, ControllerConstants, TotalTerm
  <2> QED
    BY <1>3, <2>1
<1>6. /\ BiasAt(old, now) \in Nat /\ BiasAt(new, now) \in Nat
      /\ old.slope \in Nat /\ new.slope \in Nat /\ old.end \in Nat /\ new.end \in Nat
  BY <1>1, BiasAtType, VoteType
<1>7. SlopeAt(new, now) = new.slope
  BY <1>1, <1>6, SMT DEF SlopeAt, SlopeIf
<1>8. SlopeAt(old, now) = IF old.end > now THEN old.slope ELSE 0
  BY <1>1, <1>6, SMT DEF SlopeAt, SlopeIf
<1>9. VoteBias(old) = BiasAt(old, now)
  BY DEF VoteBias, BiasAt
<1>10. pt.bias = B /\ pt.slope = S
  BY DEF PointAdds
<1> HIDE DEF B, S, old
<1>11. Larger(pt.bias + new.bias, VoteBias(old)) - VoteBias(old) = Total(BiasesAt(ws, now))
  BY <1>2, <1>4, <1>5, <1>6, <1>9, <1>10, SMT DEF Larger
<1>12. (IF old.end > now THEN Larger(pt.slope + new.slope, old.slope) - old.slope
        ELSE pt.slope + new.slope) = Total(SlopesAt(ws, now))
  BY <1>2, <1>4, <1>5, <1>6, <1>7, <1>8, <1>10, SMT DEF Larger
<1>13. PointAdds(ReplacedPoint(pt, old, new), ws, now)
  BY <1>11, <1>12, Zenon DEF PointAdds, ReplacedPoint
<1> QED
  BY <1>13 DEF old, ws

(* And in the scheduled changes. *)
LEMMA ReplacedChangesAdd ==
    ASSUME now \in Nat, NEW vs \in [Users -> WholeVote], NEW u \in Users, NEW new \in WholeVote,
           NEW changes \in [Times \cup {MaxUint} -> Nat], ChangesAdd(changes, vs, now)
    PROVE  ChangesAdd(ReplacedChanges(changes, vs[u], new), [vs EXCEPT ![u] = new], now)
<1> DEFINE old == vs[u]
           ws == [vs EXCEPT ![u] = new]
<1>1. /\ vs \in [Users -> Vote] /\ ws \in [Users -> Vote] /\ old \in Vote /\ new \in Vote
      /\ ws[u] = new /\ \A v \in Users \ {u} : ws[v] = vs[v]
  BY DEF WholeVote
<1> HIDE DEF ws
<1>2. SUFFICES ASSUME NEW e \in (now + 1)..(MaxTime + MAXTIME)
               PROVE  ReplacedChanges(changes, old, new)[e] = Total(EndingAt(ws, e))
  BY DEF ChangesAdd, ws
<1>3. e \in Nat /\ e > now /\ e \in Times \cup {MaxUint} /\ e # MaxUint
  BY VeConstants, VeAssumption, SMT DEF Times
<1>4. /\ old.slope \in Nat /\ old.end \in Times \cup {MaxUint} /\ old.end \in Nat
      /\ new.slope \in Nat /\ new.end \in Times \cup {MaxUint} /\ new.end \in Nat
  BY <1>1, VoteType
<1>5. EndingAt(vs, e) \in [Users -> Nat] /\ EndingAt(ws, e) \in [Users -> Nat] /\ Total(EndingAt(vs, e)) \in Nat
  BY <1>1, <1>3, SumsType
<1>6. /\ EndingAt(vs, e)[u] = EndAt(old, e) /\ EndingAt(ws, e)[u] = EndAt(new, e)
      /\ \A v \in Users \ {u} : EndingAt(ws, e)[v] = EndingAt(vs, e)[v]
  BY <1>1 DEF EndingAt
<1>7. Total(EndingAt(ws, e)) = Total(EndingAt(vs, e)) - EndAt(old, e) + EndAt(new, e)
  <2>1. Total(EndingAt(ws, e)) = Total(EndingAt(vs, e)) - EndingAt(vs, e)[u] + EndingAt(ws, e)[u]
    BY <1>5, <1>6, ControllerConstants, TotalUpdate
  <2> QED
    BY <1>6, <2>1
<1>8. changes[e] = Total(EndingAt(vs, e)) /\ changes[e] \in Nat
  BY <1>3 DEF ChangesAdd
<1> HIDE DEF old
<1>9. /\ Cancelled(changes, old)[e] = changes[e] - EndAt(old, e)
      /\ DOMAIN Cancelled(changes, old) = Times \cup {MaxUint}
  <2>1. CASE old.end = e
    <3>1. old.end > now /\ EndAt(old, e) = old.slope
      BY <1>3, <2>1 DEF EndAt, SlopeIf
    <3> QED
      BY <1>3, <2>1, <3>1 DEF Cancelled
  <2>2. CASE old.end # e
    <3>1. EndAt(old, e) = 0
      BY <2>2 DEF EndAt, SlopeIf
    <3>2. Cancelled(changes, old)[e] = changes[e]
      BY <1>3, <2>2 DEF Cancelled
    <3>3. DOMAIN Cancelled(changes, old) = Times \cup {MaxUint}
      BY DEF Cancelled
    <3> QED
      BY <1>8, <3>1, <3>2, <3>3, SMT
  <2> QED
    BY <2>1, <2>2
<1>10. ReplacedChanges(changes, old, new)[e] = Cancelled(changes, old)[e] + EndAt(new, e)
  <2>1. CASE new.end = e
    <3>1. EndAt(new, e) = new.slope
      BY <2>1 DEF EndAt, SlopeIf
    <3> QED
      BY <1>3, <1>9, <2>1, <3>1 DEF ReplacedChanges
  <2>2. CASE new.end # e
    <3>1. EndAt(new, e) = 0
      BY <2>2 DEF EndAt, SlopeIf
    <3>2. ReplacedChanges(changes, old, new)[e] = Cancelled(changes, old)[e]
      BY <1>3, <1>9, <2>2 DEF ReplacedChanges
    <3>3. Cancelled(changes, old)[e] \in Int
      BY <1>4, <1>8, <1>9, SMT DEF EndAt, SlopeIf
    <3> QED
      BY <3>1, <3>2, <3>3, SMT
  <2> QED
    BY <2>1, <2>2
<1> QED
  BY <1>4, <1>5, <1>7, <1>8, <1>9, <1>10, SMT DEF EndAt, SlopeIf

(* A vote is whole, and weighs at once what is recorded of it. *)
LEMMA NewVoteWhole ==
    ASSUME UserInv, NEW u \in Users, NEW weight \in 0..BPS, locked[u].end > now
    PROVE  /\ NewVote(u, weight) \in WholeVote
           /\ NewVote(u, weight).end > now
           /\ NewVote(u, weight).bias = BiasAt(NewVote(u, weight), now)
<1> DEFINE new == NewVote(u, weight)
           slope == (Slope(locked[u], now) * weight) \div BPS
<1>1. new \in Vote /\ VoteCovered(new, locked[u])
  BY NewVoteCovered
<1>2. new \in WholeVote
  BY <1>1 DEF VoteCovered, WholeVote
<1>3. /\ new.end = locked[u].end
      /\ new.slope = slope
      /\ new.end # MaxUint => new.bias = slope * (new.end - now)
  BY DEF NewVote
<1>4. new.end \in Nat /\ now \in Nat
  <2>1. now \in Nat
    BY ControllerConstants, SMT DEF UserInv, UserTypeOK
  <2> HIDE DEF new
  <2> QED
    BY <1>1, <2>1, VoteType
<1> HIDE DEF new, slope
<1>5. new.end > now /\ Larger(new.end, now) = new.end
  BY <1>3, <1>4, SMT DEF Larger
<1>6. new.bias = BiasAt(new, now)
  BY <1>3, <1>5, Zenon DEF BiasAt
<1> QED
  BY <1>2, <1>5, <1>6 DEF new

(* The recorded votes are whole. *)
LEMMA VotesWhole ==
    ASSUME UserInv, NEW g \in Gauges
    PROVE  [u \in Users |-> vote_user_slopes[u][g]] \in [Users -> WholeVote]
<1>1. ASSUME NEW u \in Users PROVE vote_user_slopes[u][g] \in WholeVote
  <2>1. VoteCovered(vote_user_slopes[u][g], locked[u]) /\ vote_user_slopes[u][g] \in Vote
    BY DEF UserInv, UserTypeOK, VotesCovered
  <2> QED
    BY <2>1 DEF VoteCovered, WholeVote
<1> QED
  BY <1>1

\* The votes of the users for a gauge.
VotesFor(g) == [u \in Users |-> vote_user_slopes[u][g]]
NoVotes == [u \in Users |-> NoVote]

(* What the controller keeps of every gauge is the sum of the votes at the last
   checkpoint, and nobody has voted for a gauge that was not added. *)
GaugesAddUp ==
    \A g \in Gauges : /\ AddsUp(gc, g, VotesFor(g))
                      /\ ~Added(gc, g) => VotesFor(g) = NoVotes

\* What is kept of a gauge is the same in two states.
SameGauge(s, c, g) ==
    /\ c.point_weight[g] = s.point_weight[g]
    /\ c.changes_weight[g] = s.changes_weight[g]
    /\ c.time_weight[g] = s.time_weight[g]

(* A vote is replaced in what is kept of its gauge. *)
LEMMA CastVoteAdds ==
    ASSUME UserInv, NEW s, SharesOK(s), NEW u \in Users, NEW g \in Gauges, Added(s, g),
           NEW weight \in 0..BPS, locked[u].end > now, NEW a \in Nat,
           vote_user_slopes[u][g].end > now =>
               s.changes_weight[g][vote_user_slopes[u][g].end] >= vote_user_slopes[u][g].slope,
           AddsUp(s, g, VotesFor(g))
    PROVE  LET c == CastVote(s, u, g, weight, a)
           IN  /\ SharesOK(c)
               /\ c.time_weight[g] = now
               /\ AddsUp(c, g, [VotesFor(g) EXCEPT ![u] = NewVote(u, weight)])
               /\ \A h \in Gauges \ {g} : SameGauge(s, c, h)
<1> DEFINE old == vote_user_slopes[u][g]
           new == NewVote(u, weight)
           vs == VotesFor(g)
           t == s.time_weight[g]
           pt == GetWeight(s, g)
           changes == s.changes_weight[g]
<1> PICK c : c = CastVote(s, u, g, weight, a)
  OBVIOUS
<1>1. /\ SharesOK(c)
      /\ c.time_weight[g] = now
      /\ c.changes_weight[g] = ReplacedChanges(changes, old, new)
      /\ c.point_weight[g] = ReplacedPoint(pt, old, new)
      /\ \A h \in Gauges \ {g} : SameGauge(s, c, h)
  <2>1. /\ SharesOK(c)
        /\ c.time_weight[g] = now
        /\ c.changes_weight[g] = ReplacedChanges(changes, old, new)
        /\ c.point_weight[g] = ReplacedPoint(pt, old, new)
        /\ \A h \in Gauges \ {g} : /\ c.changes_weight[h] = s.changes_weight[h]
                                   /\ c.point_weight[h] = s.point_weight[h]
                                   /\ c.time_weight[h] = s.time_weight[h]
    BY CastVoteEffect
  <2> QED
    BY <2>1, Zenon DEF SameGauge
<1>2. /\ now \in Nat /\ s \in GcState(now)
      /\ changes \in [Times \cup {MaxUint} -> Nat] /\ t \in 0..now
  <2>1. now \in Nat /\ s \in GcState(now)
    BY ControllerConstants, SMT DEF SharesOK, UserInv, UserTypeOK
  <2> QED
    BY <2>1, GcTypes
<1>3. vs \in [Users -> WholeVote] /\ vs[u] = old
  <2>1. vs \in [Users -> WholeVote]
    BY VotesWhole, Zenon DEF VotesFor
  <2>2. vs[u] = old
    BY DEF VotesFor
  <2> QED
    BY <2>1, <2>2
<1>4. new \in WholeVote /\ new.end > now /\ new.bias = BiasAt(new, now)
  BY NewVoteWhole
<1>5. pt \in WeightPoint /\ PointAdds(pt, vs, now)
  BY <1>2, <1>3, GetWeightType, WeightAdds
<1>6. ChangesAdd(changes, vs, now)
  <2>1. t \in Nat /\ t <= now /\ ChangesAdd(changes, vs, t)
    BY <1>2 DEF AddsUp
  <2> HIDE DEF changes, vs, t
  <2> QED
    BY <1>2, <2>1, ChangesLater
<1> HIDE DEF old, new, vs, t, pt, changes
<1>7. PointAdds(ReplacedPoint(pt, old, new), [vs EXCEPT ![u] = new], now)
  <2>1. PointAdds(ReplacedPoint(pt, vs[u], new), [vs EXCEPT ![u] = new], now)
    BY <1>2, <1>3, <1>4, <1>5, ReplacedPointAdds
  <2> QED
    BY <1>3, <2>1
<1>8. ChangesAdd(ReplacedChanges(changes, old, new), [vs EXCEPT ![u] = new], now)
  <2>1. ChangesAdd(ReplacedChanges(changes, vs[u], new), [vs EXCEPT ![u] = new], now)
    BY <1>2, <1>3, <1>4, <1>6, ReplacedChangesAdd
  <2> QED
    BY <1>3, <2>1
<1>9. AddsUp(c, g, [vs EXCEPT ![u] = new])
  BY <1>1, <1>7, <1>8 DEF AddsUp
<1> QED
  BY <1>1, <1>9 DEF vs, new

(* A checkpoint leaves the sums of now. *)
LEMMA CheckpointAdds ==
    ASSUME UserInv, NEW s \in GcState(now), NEW g \in Gauges, Added(s, g), NEW a,
           NEW vs \in [Users -> WholeVote], AddsUp(s, g, vs)
    PROVE  LET c == CheckpointGauge(s, g, a)
           IN  /\ c.time_weight[g] = now
               /\ AddsUp(c, g, vs)
               /\ \A h \in Gauges \ {g} : SameGauge(s, c, h)
<1> PICK c : c = CheckpointGauge(s, g, a)
  OBVIOUS
<1>1. /\ c.point_weight = [s.point_weight EXCEPT ![g] = GetWeight(s, g)]
      /\ c.changes_weight = s.changes_weight
      /\ c.time_weight = [s.time_weight EXCEPT ![g] = now]
  BY CheckpointFields DEF PointOf
<1>2. /\ DOMAIN s.point_weight = Gauges /\ DOMAIN s.time_weight = Gauges
      /\ s.time_weight[g] \in 0..now
  BY DEF GcState
<1>3. /\ c.point_weight[g] = GetWeight(s, g) /\ c.time_weight[g] = now
      /\ c.changes_weight[g] = s.changes_weight[g]
      /\ \A h \in Gauges \ {g} : SameGauge(s, c, h)
  BY <1>1, <1>2 DEF SameGauge
<1>4. PointAdds(GetWeight(s, g), vs, now)
  BY WeightAdds
<1>5. ChangesAdd(s.changes_weight[g], vs, now)
  <2>1. now \in Nat
    BY ControllerConstants, SMT DEF UserInv, UserTypeOK
  <2>2. s.time_weight[g] \in Nat /\ s.time_weight[g] <= now
    BY <1>2, <2>1
  <2>3. ChangesAdd(s.changes_weight[g], vs, s.time_weight[g])
    BY DEF AddsUp
  <2> QED
    BY <2>1, <2>2, <2>3, ChangesLater
<1>6. AddsUp(c, g, vs)
  BY <1>3, <1>4, <1>5 DEF AddsUp
<1> QED
  BY <1>3, <1>6

(* The votes of a ballot are replaced one after the other. *)
LEMMA BallotAdds ==
    ASSUME UserInv, SharesOK(gc), GaugesAddUp, NEW u \in Users, NEW b \in Ballots,
           NEW w \in [Chosen(b) -> Weights], NEW a \in [Chosen(b) -> Adjustments],
           VoteForGaugeWeights(u, b, w, a)
    PROVE  /\ \A g \in Chosen(b) : /\ gc'.time_weight[g] = now
                                   /\ AddsUp(gc', g, [VotesFor(g) EXCEPT ![u] = NewVote(u, w[g])])
           /\ \A g \in Gauges \ Chosen(b) : SameGauge(gc, gc', g)
<1> DEFINE Voted(c, g) == /\ c.time_weight[g] = now
                          /\ AddsUp(c, g, [VotesFor(g) EXCEPT ![u] = NewVote(u, w[g])])
           K == {x \in Nat \X GcState(now) :
                    /\ SharesOK(x[2])
                    /\ \A i \in 1..Len(b) : IF i <= x[1] THEN Voted(x[2], b[i])
                                            ELSE SameGauge(gc, x[2], b[i])
                    /\ \A g \in Gauges \ Chosen(b) : SameGauge(gc, x[2], g)}
<1>1. /\ Len(b) \in Nat
      /\ DOMAIN b = 1..Len(b)
      /\ \A i \in 1..Len(b) : b[i] \in Gauges
      /\ \A i, j \in 1..Len(b) : i # j => b[i] # b[j]
  BY BallotType
<1>2. /\ locked[u].end > now
      /\ \A g \in Chosen(b) : MayVote(u, g, w[g])
      /\ gc' = Cast(u, b, w, a)
  BY DEF VoteForGaugeWeights
<1>3. \A i \in 1..Len(b) : b[i] \in Chosen(b) /\ w[b[i]] \in 0..BPS /\ a[b[i]] \in Nat
  <2>1. \A i \in 1..Len(b) : b[i] \in Chosen(b)
    BY <1>1 DEF Chosen
  <2>2. Weights \subseteq 0..BPS /\ Adjustments \subseteq Nat
    BY ControllerConstants
  <2>3. \A g \in Chosen(b) : w[g] \in Weights /\ a[g] \in Adjustments
    OBVIOUS
  <2> QED
    BY <2>1, <2>2, <2>3
<1>4. <<0, gc>> \in K
  <2>1. \A i \in 1..Len(b) : ~(i <= 0)
    BY <1>1, SMT
  <2>2. \A g : SameGauge(gc, gc, g)
    BY DEF SameGauge
  <2>3. gc \in GcState(now)
    BY DEF SharesOK
  <2> HIDE DEF Voted
  <2> QED
    BY <2>1, <2>2, <2>3
<1>5. ASSUME NEW i \in 1..Len(b), NEW s, <<i - 1, s>> \in K
      PROVE  <<i, CastVote(s, u, b[i], w[b[i]], a[b[i]])>> \in K
  <2> PICK g : g = b[i]
    OBVIOUS
  <2> PICK x : x = w[g]
    OBVIOUS
  <2> PICK y : y = a[g]
    OBVIOUS
  <2> PICK c : c = CastVote(s, u, g, x, y)
    OBVIOUS
  <2> DEFINE old == vote_user_slopes[u][g]
  <2>1. /\ SharesOK(s)
        /\ \A j \in 1..Len(b) : IF j <= i - 1 THEN Voted(s, b[j]) ELSE SameGauge(gc, s, b[j])
        /\ \A h \in Gauges \ Chosen(b) : SameGauge(gc, s, h)
    <3> HIDE DEF Voted
    <3> QED
      BY <1>5
  <2>2. g \in Gauges /\ g \in Chosen(b) /\ x \in 0..BPS /\ y \in Nat
    BY <1>1, <1>3
  <2>3. SameGauge(gc, s, g)
    <3>1. ~(i <= i - 1)
      BY <1>1, SMT
    <3> HIDE DEF Voted
    <3> QED
      BY <2>1, <3>1
  <2>4. MayVote(u, g, x)
    BY <1>2, <2>2
  <2>5. /\ Added(s, g)
        /\ old.end > now => s.changes_weight[g][old.end] >= old.slope
    BY <2>3, <2>4, Zenon DEF MayVote, Added, SameGauge
  <2>6. AddsUp(s, g, VotesFor(g))
    <3>1. AddsUp(gc, g, VotesFor(g))
      BY <2>2 DEF GaugesAddUp
    <3> QED
      BY <2>3, <3>1, Zenon DEF AddsUp, SameGauge
  <2>7. /\ SharesOK(c)
        /\ c.time_weight[g] = now
        /\ AddsUp(c, g, [VotesFor(g) EXCEPT ![u] = NewVote(u, x)])
        /\ \A h \in Gauges \ {g} : SameGauge(s, c, h)
    BY <1>2, <2>1, <2>2, <2>5, <2>6, CastVoteAdds
  <2>8. \A h \in Gauges \ {g} : /\ SameGauge(gc, s, h) => SameGauge(gc, c, h)
                                /\ Voted(s, h) => Voted(c, h)
    BY <2>7, Zenon DEF SameGauge, AddsUp
  <2>9. Voted(c, g)
    BY <2>7
  <2> HIDE DEF Voted, old
  <2>10. ASSUME NEW j \in 1..Len(b)
         PROVE  IF j <= i THEN Voted(c, b[j]) ELSE SameGauge(gc, c, b[j])
    <3>1. CASE j = i
      <4>1. b[j] = g /\ j <= i
        BY <1>1, <3>1, SMT
      <4> QED
        BY <2>9, <4>1
    <3>2. CASE j # i
      <4>1. b[j] \in Gauges \ {g} /\ (j <= i <=> j <= i - 1)
        BY <1>1, <3>2, SMT
      <4> QED
        BY <2>1, <2>8, <4>1
    <3> QED
      BY <3>1, <3>2
  <2>11. \A h \in Gauges \ Chosen(b) : SameGauge(gc, c, h)
    BY <2>1, <2>2, <2>8
  <2>12. c \in GcState(now) /\ i \in Nat
    BY <1>1, <2>7 DEF SharesOK
  <2>13. <<i, c>> \in K
    BY <2>7, <2>10, <2>11, <2>12
  <2> QED
    BY <2>13
<1> HIDE DEF K
<1>6. <<Len(b), Cast(u, b, w, a)>> \in K
  BY <1>1, <1>4, <1>5, CastInduction
<1>7. /\ \A i \in 1..Len(b) : Voted(gc', b[i])
      /\ \A g \in Gauges \ Chosen(b) : SameGauge(gc, gc', g)
  <2>1. <<Len(b), gc'>> \in K
    BY <1>2, <1>6
  <2>2. \A i \in 1..Len(b) : i <= Len(b)
    BY <1>1, SMT
  <2> HIDE DEF Voted
  <2> QED
    BY <2>1, <2>2 DEF K
<1>8. \A g \in Chosen(b) : Voted(gc', g)
  <2> HIDE DEF Voted
  <2> QED
    BY <1>1, <1>7 DEF Chosen
<1> QED
  BY <1>7, <1>8

(* A gauge of which nothing changes still adds up. *)
LEMMA SameAdds ==
    ASSUME NEW g, SameGauge(gc, gc', g), AddsUp(gc, g, VotesFor(g)),
           ~Added(gc, g) => VotesFor(g) = NoVotes, VotesFor(g)' = VotesFor(g)
    PROVE  AddsUp(gc', g, VotesFor(g)') /\ (~Added(gc', g) => VotesFor(g)' = NoVotes)
  BY Zenon DEF SameGauge, AddsUp, Added

(* The sums of no votes are zero at any time. *)
LEMMA NoVotesAdd ==
    ASSUME now \in Nat, NEW t \in Nat
    PROVE  Total(BiasesAt(NoVotes, t)) = 0 /\ Total(SlopesAt(NoVotes, t)) = 0 /\ Total(EndingAt(NoVotes, t)) = 0
<1>1. /\ NoVote \in Vote
      /\ BiasAt(NoVote, t) = 0 /\ SlopeAt(NoVote, t) = 0 /\ EndAt(NoVote, t) = 0
  <2>1. NoVote \in Vote
    BY ControllerConstants, VeConstants, SMT DEF NoVote, Vote, Times
  <2>2. NoVote.slope = 0 /\ NoVote.bias = 0 /\ NoVote.end = 0
    BY DEF NoVote
  <2>3. 0 * (Larger(0, t) - t) = 0
    BY SMT DEF Larger
  <2> QED
    BY <2>1, <2>2, <2>3, Zenon DEF BiasAt, SlopeAt, EndAt, SlopeIf
<1>2. NoVotes \in [Users -> Vote] /\ \A u \in Users : NoVotes[u] = NoVote
  BY <1>1 DEF NoVotes
<1>3. \A u \in Users : /\ BiasesAt(NoVotes, t)[u] = 0
                       /\ SlopesAt(NoVotes, t)[u] = 0
                       /\ EndingAt(NoVotes, t)[u] = 0
  BY <1>1, <1>2 DEF BiasesAt, SlopesAt, EndingAt
<1>4. /\ BiasesAt(NoVotes, t) \in [Users -> Nat]
      /\ SlopesAt(NoVotes, t) \in [Users -> Nat]
      /\ EndingAt(NoVotes, t) \in [Users -> Nat]
  BY <1>2, SumsType
<1> QED
  BY <1>3, <1>4, ControllerConstants, TotalZero

(* A ballot keeps the sums. *)
LEMMA BallotKeepsSums ==
    ASSUME UserInv, SharesOK(gc), GaugesAddUp, NEW u \in Users, NEW b \in Ballots,
           NEW w \in [Chosen(b) -> Weights], NEW a \in [Chosen(b) -> Adjustments],
           VoteForGaugeWeights(u, b, w, a)
    PROVE  GaugesAddUp'
<1>1. /\ \A g \in Chosen(b) : /\ gc'.time_weight[g] = now
                              /\ AddsUp(gc', g, [VotesFor(g) EXCEPT ![u] = NewVote(u, w[g])])
      /\ \A g \in Gauges \ Chosen(b) : SameGauge(gc, gc', g)
  BY BallotAdds
<1>2. vote_user_slopes' = [vote_user_slopes EXCEPT ![u] =
          [g \in Gauges |-> IF g \in Chosen(b) THEN NewVote(u, w[g]) ELSE @[g]]]
  BY DEF VoteForGaugeWeights
<1>3. vote_user_slopes \in [Users -> [Gauges -> Vote]] /\ now > 0
  BY ControllerConstants, SMT DEF UserInv, UserTypeOK
<1>4. /\ \A v \in Users \ {u} : vote_user_slopes'[v] = vote_user_slopes[v]
      /\ \A g \in Gauges : vote_user_slopes'[u][g] = IF g \in Chosen(b) THEN NewVote(u, w[g])
                                                     ELSE vote_user_slopes[u][g]
  BY <1>2, <1>3
<1>5. \A g \in Chosen(b) : VotesFor(g)' = [VotesFor(g) EXCEPT ![u] = NewVote(u, w[g])]
  <2> TAKE g \in Chosen(b)
  <2>1. g \in Gauges
    BY BallotType
  <2>2. vote_user_slopes'[u][g] = NewVote(u, w[g])
    BY <1>4, <2>1
  <2> QED
    BY <1>4, <2>2 DEF VotesFor
<1>6. \A g \in Gauges \ Chosen(b) : VotesFor(g)' = VotesFor(g)
  BY <1>4 DEF VotesFor
<1>7. ASSUME NEW g \in Gauges PROVE AddsUp(gc', g, VotesFor(g)') /\ (~Added(gc', g) => VotesFor(g)' = NoVotes)
  <2>1. CASE g \in Chosen(b)
    <3>1. Added(gc', g)
      BY <1>1, <1>3, <2>1 DEF Added
    <3> QED
      BY <1>1, <1>5, <2>1, <3>1
  <2>2. CASE g \notin Chosen(b)
    BY <1>1, <1>6, <2>2, SameAdds DEF GaugesAddUp
  <2> QED
    BY <2>1, <2>2
<1> QED
  BY <1>7 DEF GaugesAddUp, AddsUp, PointAdds, ChangesAdd, BiasesAt, SlopesAt, EndingAt, BiasAt, SlopeAt,
              EndAt, SlopeIf, VotesFor, NoVotes, Added

(* Every step keeps the sums. *)
LEMMA NextKeepsSums == UserInv /\ SharesOK(gc) /\ GaugesAddUp /\ [Next]_vars => GaugesAddUp'
<1> SUFFICES ASSUME UserInv, SharesOK(gc), GaugesAddUp, [Next]_vars PROVE GaugesAddUp'
  OBVIOUS
<1>1. ASSUME \A g \in Gauges : AddsUp(gc', g, VotesFor(g)') /\ (~Added(gc', g) => VotesFor(g)' = NoVotes)
      PROVE  GaugesAddUp'
  BY <1>1 DEF GaugesAddUp, AddsUp, PointAdds, ChangesAdd, BiasesAt, SlopesAt, EndingAt, BiasAt, SlopeAt,
              EndAt, SlopeIf, VotesFor, NoVotes, Added
<1>2. \A g \in Gauges : AddsUp(gc, g, VotesFor(g)) /\ (~Added(gc, g) => VotesFor(g) = NoVotes)
  BY DEF GaugesAddUp
<1>3. ASSUME vote_user_slopes' = vote_user_slopes PROVE \A g : VotesFor(g)' = VotesFor(g)
  BY <1>3 DEF VotesFor
<1>4. ASSUME vote_user_slopes' = vote_user_slopes, \A g \in Gauges : SameGauge(gc, gc', g)
      PROVE  GaugesAddUp'
  <2>1. ASSUME NEW g \in Gauges
        PROVE  AddsUp(gc', g, VotesFor(g)') /\ (~Added(gc', g) => VotesFor(g)' = NoVotes)
    BY <1>2, <1>3, <1>4, SameAdds
  <2> QED
    BY <1>1, <2>1
<1>5. \A g : SameGauge(gc, gc, g)
  BY DEF SameGauge
<1>6. gc \in GcState(now) /\ now \in Nat /\ now > 0
  BY ControllerConstants, SMT DEF SharesOK, UserInv, UserTypeOK
<1>7. CASE EscrowStep
  BY <1>4, <1>5, <1>7 DEF EscrowStep, userVars
<1>8. ASSUME NEW u \in Users, NEW b \in Ballots, NEW w \in [Chosen(b) -> Weights],
             NEW a \in [Chosen(b) -> Adjustments], VoteForGaugeWeights(u, b, w, a)
      PROVE  GaugesAddUp'
  BY <1>8, BallotKeepsSums
<1>9. ASSUME NEW g \in Gauges, AddGauge(g) PROVE GaugesAddUp'
  <2>1. /\ gc'.point_weight = gc.point_weight
        /\ gc'.changes_weight = gc.changes_weight
        /\ gc'.time_weight = [gc.time_weight EXCEPT ![g] = now]
        /\ ~Added(gc, g)
        /\ vote_user_slopes' = vote_user_slopes
    BY <1>6, <1>9 DEF AddGauge, GcState, userVars
  <2>2. DOMAIN gc.time_weight = Gauges /\ gc.time_weight[g] \in 0..now
    BY <1>6, GcTypes
  <2>3. gc'.time_weight[g] = now /\ \A h \in Gauges \ {g} : SameGauge(gc, gc', h)
    BY <2>1, <2>2 DEF SameGauge
  <2>4. VotesFor(g) = NoVotes /\ VotesFor(g)' = NoVotes /\ Added(gc', g)
    BY <1>2, <1>3, <1>6, <2>1, <2>3 DEF Added
  <2>5. AddsUp(gc', g, NoVotes)
    <3>1. AddsUp(gc, g, NoVotes)
      BY <1>2, <2>4
    <3>2. gc.time_weight[g] = 0
      BY <1>6, <2>1, <2>2, SMT DEF Added
    <3>3. PointAdds(gc.point_weight[g], NoVotes, now)
      <4>1. Total(BiasesAt(NoVotes, 0)) = 0 /\ Total(SlopesAt(NoVotes, 0)) = 0
        BY <1>6, NoVotesAdd
      <4>2. Total(BiasesAt(NoVotes, now)) = 0 /\ Total(SlopesAt(NoVotes, now)) = 0
        BY <1>6, NoVotesAdd
      <4> QED
        BY <3>1, <3>2, <4>1, <4>2, Zenon DEF AddsUp, PointAdds
    <3>4. ChangesAdd(gc.changes_weight[g], NoVotes, now)
      <4>1. ChangesAdd(gc.changes_weight[g], NoVotes, 0)
        BY <3>1, <3>2 DEF AddsUp
      <4>2. 0 <= now
        BY <1>6
      <4> QED
        BY <1>6, <4>1, <4>2, ChangesLater
    <3> QED
      BY <2>1, <2>3, <3>3, <3>4, Zenon DEF AddsUp
  <2>6. ASSUME NEW h \in Gauges
        PROVE  AddsUp(gc', h, VotesFor(h)') /\ (~Added(gc', h) => VotesFor(h)' = NoVotes)
    <3>1. CASE h = g
      BY <2>4, <2>5, <3>1
    <3>2. CASE h # g
      BY <1>2, <1>3, <2>1, <2>3, <3>2, SameAdds
    <3> QED
      BY <3>1, <3>2
  <2> QED
    BY <1>1, <2>6
<1>10. ASSUME NEW g \in Gauges, SetKilled(g, ~is_killed[g]) PROVE GaugesAddUp'
  BY <1>4, <1>5, <1>10 DEF SetKilled, userVars
<1>11. ASSUME NEW g \in Gauges, NEW a, Added(gc, g), vote_user_slopes' = vote_user_slopes,
              \A h \in Gauges : SameGauge(CheckpointGauge(gc, g, a), gc', h)
       PROVE  GaugesAddUp'
  <2> PICK c : c = CheckpointGauge(gc, g, a)
    OBVIOUS
  <2>1. VotesFor(g) \in [Users -> WholeVote] /\ AddsUp(gc, g, VotesFor(g))
    BY <1>2, VotesWhole DEF VotesFor
  <2>2. /\ c.time_weight[g] = now
        /\ AddsUp(c, g, VotesFor(g))
        /\ \A h \in Gauges \ {g} : SameGauge(gc, c, h)
    BY <1>6, <1>11, <2>1, CheckpointAdds
  <2>3. AddsUp(gc', g, VotesFor(g)) /\ Added(gc', g)
    <3>1. SameGauge(c, gc', g)
      BY <1>11
    <3>2. gc'.time_weight[g] > 0
      BY <1>6, <2>2, <3>1 DEF SameGauge
    <3> QED
      BY <2>2, <3>1, <3>2, Zenon DEF SameGauge, AddsUp, Added
  <2>4. ASSUME NEW h \in Gauges
        PROVE  AddsUp(gc', h, VotesFor(h)') /\ (~Added(gc', h) => VotesFor(h)' = NoVotes)
    <3>1. CASE h = g
      BY <1>3, <1>11, <2>3, <3>1
    <3>2. CASE h # g
      <4>1. SameGauge(gc, gc', h)
        BY <1>11, <2>2, <3>2, Zenon DEF SameGauge
      <4> QED
        BY <1>2, <1>3, <1>11, <4>1, SameAdds
    <3> QED
      BY <3>1, <3>2
  <2> QED
    BY <1>1, <2>4
<1>12. ASSUME NEW g \in Gauges, NEW a \in Adjustments, Checkpoint(g, a) PROVE GaugesAddUp'
  <2>1. /\ Added(gc, g) /\ gc' = CheckpointGauge(gc, g, a)
        /\ vote_user_slopes' = vote_user_slopes
    BY <1>12 DEF Checkpoint, userVars
  <2>2. \A h \in Gauges : SameGauge(CheckpointGauge(gc, g, a), gc', h)
    BY <2>1 DEF SameGauge
  <2> QED
    BY <1>11, <2>1, <2>2
<1>13. ASSUME NEW g \in Gauges, NEW a \in Adjustments, Emit(g, a) PROVE GaugesAddUp'
  <2> PICK c : c = CheckpointGauge(gc, g, a)
    OBVIOUS
  <2>1. /\ Added(gc, g)
        /\ vote_user_slopes' = vote_user_slopes
        /\ \E n, m : gc' = [c EXCEPT !.sent_emissions_per_gauge[g] = n, !.sent = m]
    BY <1>13 DEF Emit, userVars
  <2>2. \A h \in Gauges : SameGauge(c, gc', h)
    BY <2>1 DEF SameGauge
  <2> QED
    BY <1>11, <2>1, <2>2
<1>14. CASE StartEmissions
  <2>1. vote_user_slopes' = vote_user_slopes /\ gc' = [gc EXCEPT !.last_minted = now]
    BY <1>14 DEF StartEmissions, userVars
  <2>2. \A g \in Gauges : SameGauge(gc, gc', g)
    BY <2>1 DEF SameGauge
  <2> QED
    BY <1>4, <2>1, <2>2
<1>15. CASE UNCHANGED vars
  BY <1>4, <1>5, <1>15 DEF vars, userVars
<1> QED
  BY <1>7, <1>8, <1>9, <1>10, <1>12, <1>13, <1>14, <1>15 DEF Next, ControllerStep

(* At first there are no votes and no weights. *)
LEMMA InitSums == Init => GaugesAddUp
<1> SUFFICES ASSUME Init, NEW g \in Gauges
             PROVE  AddsUp(gc, g, VotesFor(g)) /\ VotesFor(g) = NoVotes
  BY DEF GaugesAddUp
<1>1. VotesFor(g) = NoVotes
  BY DEF Init, VotesFor, NoVotes
<1>2. /\ gc.point_weight[g] = [bias |-> 0, slope |-> 0]
      /\ gc.changes_weight[g] = [t \in Times \cup {MaxUint} |-> 0]
      /\ gc.time_weight[g] = 0
  BY DEF Init, GcInit
<1>3. now \in Nat
  BY VeConstants DEF Init, VeInit
<1>4. PointAdds(gc.point_weight[g], NoVotes, 0)
  BY <1>2, <1>3, NoVotesAdd DEF PointAdds
<1>5. ChangesAdd(gc.changes_weight[g], NoVotes, 0)
  <2> SUFFICES ASSUME NEW e \in (0 + 1)..(MaxTime + MAXTIME)
               PROVE  gc.changes_weight[g][e] = Total(EndingAt(NoVotes, e))
    BY DEF ChangesAdd
  <2>1. e \in Nat /\ e \in Times
    BY VeConstants, SMT DEF Times
  <2> QED
    BY <1>2, <1>3, <2>1, NoVotesAdd
<1> QED
  BY <1>1, <1>2, <1>4, <1>5 DEF AddsUp

(* Re-votes, expiries, infinite locks and checkpoints that are weeks late: the
   weight that GaugeController.vy shares emissions by is always the sum of what
   the recorded votes weigh, and so are its slope and the changes scheduled. *)
THEOREM WeightsStaySumOfVotes == Spec => []GaugeWeightIsSumOfVotes
<1>1. Init => ControllerInv /\ GaugesAddUp
  BY InitUsers, InitShares, InitSums DEF ControllerInv
<1>2. ControllerInv /\ GaugesAddUp /\ [Next]_vars => (ControllerInv /\ GaugesAddUp)'
  BY NextKeepsUsers, NextKeepsShares, NextKeepsSums DEF ControllerInv
<1>3. ControllerInv /\ GaugesAddUp => GaugeWeightIsSumOfVotes
  <2> SUFFICES ASSUME UserInv, SharesOK(gc), GaugesAddUp, NEW g \in Gauges
               PROVE  /\ GetWeight(gc, g).bias = Total([u \in Users |-> VoteBias(vote_user_slopes[u][g])])
                      /\ GetWeight(gc, g).slope
                           = Total([u \in Users |-> SlopeIf(vote_user_slopes[u][g],
                                 now < vote_user_slopes[u][g].end /\ vote_user_slopes[u][g].end # MaxUint)])
                      /\ \A t \in (now + 1)..(MaxTime + MAXTIME) :
                             gc.changes_weight[g][t]
                               = Total([u \in Users |-> SlopeIf(vote_user_slopes[u][g],
                                                                vote_user_slopes[u][g].end = t)])
    BY DEF GaugeWeightIsSumOfVotes, ControllerInv
  <2>1. gc \in GcState(now) /\ now \in Nat /\ VotesFor(g) \in [Users -> WholeVote]
    <3>1. gc \in GcState(now) /\ now \in Nat
      BY ControllerConstants, SMT DEF SharesOK, UserInv, UserTypeOK
    <3> QED
      BY <3>1, VotesWhole DEF VotesFor
  <2>2. AddsUp(gc, g, VotesFor(g)) /\ (~Added(gc, g) => VotesFor(g) = NoVotes)
    BY DEF GaugesAddUp
  <2>3. PointAdds(GetWeight(gc, g), VotesFor(g), now)
    <3>1. CASE Added(gc, g)
      BY <2>1, <2>2, <3>1, WeightAdds
    <3>2. CASE ~Added(gc, g)
      <4>1. GetWeight(gc, g) = [bias |-> 0, slope |-> 0]
        BY <3>2 DEF GetWeight
      <4> QED
        BY <2>1, <2>2, <3>2, <4>1, NoVotesAdd DEF PointAdds
    <3> QED
      BY <3>1, <3>2
  <2>4. ChangesAdd(gc.changes_weight[g], VotesFor(g), now)
    <3>1. gc.time_weight[g] \in 0..now
      BY <2>1, GcTypes
    <3>2. gc.time_weight[g] \in Nat /\ gc.time_weight[g] <= now
      BY <2>1, <3>1
    <3>3. ChangesAdd(gc.changes_weight[g], VotesFor(g), gc.time_weight[g])
      BY <2>2 DEF AddsUp
    <3> QED
      BY <2>1, <3>2, <3>3, ChangesLater
  <2>5. /\ BiasesAt(VotesFor(g), now) = [u \in Users |-> VoteBias(vote_user_slopes[u][g])]
        /\ SlopesAt(VotesFor(g), now)
             = [u \in Users |-> SlopeIf(vote_user_slopes[u][g],
                    now < vote_user_slopes[u][g].end /\ vote_user_slopes[u][g].end # MaxUint)]
        /\ \A t : EndingAt(VotesFor(g), t)
               = [u \in Users |-> SlopeIf(vote_user_slopes[u][g], vote_user_slopes[u][g].end = t)]
    BY DEF BiasesAt, SlopesAt, EndingAt, VotesFor, BiasAt, SlopeAt, EndAt, VoteBias
  <2>6. /\ GetWeight(gc, g).bias = Total(BiasesAt(VotesFor(g), now))
        /\ GetWeight(gc, g).slope = Total(SlopesAt(VotesFor(g), now))
        /\ \A t \in (now + 1)..(MaxTime + MAXTIME) : gc.changes_weight[g][t] = Total(EndingAt(VotesFor(g), t))
    BY <2>3, <2>4 DEF PointAdds, ChangesAdd
  <2>7. GetWeight(gc, g).bias = Total([u \in Users |-> VoteBias(vote_user_slopes[u][g])])
    BY <2>5, <2>6, Zenon
  <2>8. GetWeight(gc, g).slope
          = Total([u \in Users |-> SlopeIf(vote_user_slopes[u][g],
                now < vote_user_slopes[u][g].end /\ vote_user_slopes[u][g].end # MaxUint)])
    BY <2>5, <2>6, Zenon
  <2>9. \A t \in (now + 1)..(MaxTime + MAXTIME) :
            gc.changes_weight[g][t]
              = Total([u \in Users |-> SlopeIf(vote_user_slopes[u][g], vote_user_slopes[u][g].end = t)])
    <3> TAKE t \in (now + 1)..(MaxTime + MAXTIME)
    <3>1. EndingAt(VotesFor(g), t)
             = [u \in Users |-> SlopeIf(vote_user_slopes[u][g], vote_user_slopes[u][g].end = t)]
      BY <2>5, Zenon
    <3>2. gc.changes_weight[g][t] = Total(EndingAt(VotesFor(g), t))
      BY <2>6, Zenon
    <3> QED
      BY <3>1, <3>2, Zenon
  <2> QED
    BY <2>7, <2>8, <2>9
<1> QED
  BY <1>1, <1>2, <1>3, PTL DEF Spec
=============================================================================
