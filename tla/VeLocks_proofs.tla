--------------------------- MODULE VeLocks_proofs ---------------------------
(***************************************************************************)
(* What every operation on locks does to the locks, for any users, weeks   *)
(* and longest lock.                                                       *)
(***************************************************************************)
EXTENDS VeLocks, Sums_proofs, TLAPS

(* The constants are numbers. *)
LEMMA VeConstants ==
    /\ WEEK \in Nat \ {0}
    /\ MAXTIME \in Nat \ {0}
    /\ MaxUint \in Nat
    /\ StartTime \in Nat
    /\ MaxTime \in Nat
    /\ Values \subseteq Nat
  BY VeAssumption, SMT

(* Rounding to weeks gives a time no later. *)
LEMMA RoundedTime ==
    ASSUME NEW t \in Nat
    PROVE  RoundToWeek(t) \in 0..t
<1>1. t \div WEEK \in Nat /\ (t \div WEEK) * WEEK <= t
  BY VeConstants, DivBounds
<1>2. (t \div WEEK) * WEEK \in Nat
  BY <1>1, VeConstants, SMT
<1> QED
  BY <1>1, <1>2, SMT DEF RoundToWeek

(* A time rounded to weeks is a whole number of weeks. *)
LEMMA RoundedAgain ==
    ASSUME NEW t \in Nat
    PROVE  RoundToWeek(RoundToWeek(t)) = RoundToWeek(t)
<1>1. t \div WEEK \in Nat
  BY VeConstants, DivBounds
<1>2. ((t \div WEEK) * WEEK) \div WEEK = t \div WEEK
  BY <1>1, VeConstants, MultipleDiv
<1> QED
  BY <1>2 DEF RoundToWeek

(* A rounded deposit is an amount. *)
LEMMA RoundedDeposit ==
    ASSUME NEW v \in Nat
    PROVE  Rounded(v) \in Nat
<1>1. v \div MAXTIME \in Nat
  BY VeConstants, DivBounds
<1> QED
  BY <1>1, VeConstants, SMT DEF Rounded

(* The locks a user may change to are locks, and nobody else's change. *)
LEMMA LockingType ==
    ASSUME now \in StartTime..MaxTime, locked \in [Users -> Lock], NEW u \in Users,
           Locking(u) \/ InfiniteLockToggle(u) \/ Withdraw(u)
    PROVE  /\ locked' \in [Users -> Lock]
           /\ \A other \in Users \ {u} : locked'[other] = locked[other]
           /\ now' = now
<1> USE DEF Becomes
<1>1. locked[u].amount \in Nat /\ locked[u].end \in Times \cup {MaxUint}
  BY DEF Lock
<1>2. \A t \in Times : RoundToWeek(t) \in Times
  <2> SUFFICES ASSUME NEW t \in Times PROVE RoundToWeek(t) \in Times
    OBVIOUS
  <2>1. t \in Nat /\ t <= MaxTime + MAXTIME
    BY VeConstants, SMT DEF Times
  <2>2. RoundToWeek(t) \in 0..t
    BY <2>1, RoundedTime
  <2> QED
    BY <2>1, <2>2, VeConstants, SMT DEF Times
<1>3. LongestEnd(now) \in Times
  <2>1. now + MAXTIME \in Nat /\ now + MAXTIME <= MaxTime + MAXTIME
    BY VeConstants, SMT
  <2>2. RoundToWeek(now + MAXTIME) \in 0..(now + MAXTIME)
    BY <2>1, RoundedTime
  <2> QED
    BY <2>1, <2>2, VeConstants, SMT DEF Times, LongestEnd
<1>4. ASSUME NEW l \in Lock, locked' = [locked EXCEPT ![u] = l], now' = now
      PROVE  /\ locked' \in [Users -> Lock]
             /\ \A other \in Users \ {u} : locked'[other] = locked[other]
             /\ now' = now
  BY <1>4
<1>5. CASE \E v \in Values, t \in Times : CreateLock(u, v, t)
  <2>1. PICK v \in Values, t \in Times : CreateLock(u, v, t)
    BY <1>5
  <2> DEFINE l == [amount |-> Rounded(v), end |-> RoundToWeek(t)]
  <2>2. l \in Lock
    BY <1>2, VeConstants, RoundedDeposit DEF Lock
  <2> QED
    BY <1>4, <2>1, <2>2 DEF CreateLock
<1>6. CASE \E v \in Values : IncreaseAmount(u, v)
  <2>1. PICK v \in Values : IncreaseAmount(u, v)
    BY <1>6
  <2> DEFINE l == [locked[u] EXCEPT !.amount = @ + Rounded(v)]
  <2>2. Rounded(v) \in Nat
    BY VeConstants, RoundedDeposit
  <2>3. locked[u].amount + Rounded(v) \in Nat
    BY <1>1, <2>2, SMT
  <2>4. l \in Lock
    BY <1>1, <2>3 DEF Lock
  <2> QED
    BY <1>4, <2>1, <2>4 DEF IncreaseAmount
<1>7. CASE \E t \in Times : IncreaseUnlockTime(u, t)
  <2>1. PICK t \in Times : IncreaseUnlockTime(u, t)
    BY <1>7
  <2> DEFINE l == [locked[u] EXCEPT !.end = RoundToWeek(t)]
  <2>2. l \in Lock
    BY <1>1, <1>2 DEF Lock
  <2> QED
    BY <1>4, <2>1, <2>2 DEF IncreaseUnlockTime
<1>8. CASE InfiniteLockToggle(u)
  <2> DEFINE l == [locked[u] EXCEPT !.end = IF @ = MaxUint THEN LongestEnd(now) ELSE MaxUint]
  <2>1. l \in Lock
    BY <1>1, <1>3 DEF Lock
  <2> QED
    BY <1>4, <1>8, <2>1 DEF InfiniteLockToggle
<1>9. CASE Withdraw(u)
  <2>1. NoLock \in Lock
    BY VeConstants, SMT DEF NoLock, Lock, Times
  <2> QED
    BY <1>4, <1>9, <2>1 DEF Withdraw
<1> QED
  BY <1>5, <1>6, <1>7, <1>8, <1>9 DEF Locking

(* A transfer moves the whole amount of a lock into another. *)
LEMMA TransferType ==
    ASSUME locked \in [Users -> Lock], NEW owner \in Users, NEW to \in Users,
           Transfer(owner, to)
    PROVE  /\ owner # to
           /\ locked' \in [Users -> Lock]
           /\ locked'[owner].amount = 0
           /\ locked'[to].amount = locked[to].amount + locked[owner].amount
           /\ \A other \in Users \ {owner, to} : locked'[other] = locked[other]
           /\ now' = now
<1>1. /\ locked[owner].amount \in Nat /\ locked[to].amount \in Nat
      /\ locked[to].end \in Times \cup {MaxUint}
  BY DEF Lock
<1>2. NoLock \in Lock
  BY VeConstants, SMT DEF NoLock, Lock, Times
<1> DEFINE l == [locked[to] EXCEPT !.amount = @ + locked[owner].amount]
<1>3. locked[to].amount + locked[owner].amount \in Nat
  BY <1>1, SMT
<1>4. l \in Lock /\ l.amount = locked[to].amount + locked[owner].amount
  BY <1>1, <1>3 DEF Lock
<1>5. owner # to /\ now' = now
  BY DEF Transfer, CanMerge, Becomes
<1>6. locked' = [locked EXCEPT ![owner] = NoLock, ![to] = l]
  BY <1>5 DEF Transfer, Becomes
<1> HIDE DEF l
<1>7. locked'[to] = l /\ locked'[owner] = NoLock
  BY <1>5, <1>6
<1> QED
  BY <1>2, <1>4, <1>5, <1>6, <1>7 DEF NoLock
(* Locks are numbers. *)
LEMMA LockType ==
    ASSUME NEW lock \in Lock
    PROVE  lock.amount \in Nat /\ lock.end \in Nat
  BY VeConstants, SMT DEF Lock, Times

(* What a lock weighs. *)
LEMMA BiasOfLock ==
    ASSUME NEW lock \in Lock, NEW t \in Nat
    PROVE  /\ lock.amount \div MAXTIME \in Nat
           /\ (lock.amount \div MAXTIME) * MAXTIME <= lock.amount
           /\ Slope(lock, t) \in Nat
           /\ Bias(lock, t) \in Nat
           /\ lock.end = MaxUint /\ lock.amount > 0 /\ t < MaxUint => Bias(lock, t) = lock.amount
           /\ lock.end # MaxUint /\ lock.amount > 0 /\ t < lock.end =>
                 /\ Slope(lock, t) = lock.amount \div MAXTIME
                 /\ Bias(lock, t) = (lock.amount \div MAXTIME) * (lock.end - t)
<1> DEFINE s == lock.amount \div MAXTIME
<1>1. lock.amount \in Nat /\ lock.end \in Nat
  BY VeConstants, SMT DEF Lock, Times
<1>2. s \in Nat /\ s * MAXTIME <= lock.amount
  BY <1>1, VeConstants, DivBounds
<1>3. Slope(lock, t) = IF Live(lock, t) /\ lock.end # MaxUint THEN s ELSE 0
  BY DEF Slope
<1> HIDE DEF s
<1>4. CASE Live(lock, t) /\ lock.end # MaxUint
  <2>1. Bias(lock, t) = s * (lock.end - t) /\ lock.end - t \in Nat
    BY <1>1, <1>3, <1>4, SMT DEF Bias, Live
  <2>2. s * (lock.end - t) \in Nat
    BY <1>2, <2>1, SMT
  <2> QED
    BY <1>2, <1>3, <1>4, <2>1, <2>2 DEF s
<1>5. CASE Live(lock, t) /\ lock.end = MaxUint
  BY <1>1, <1>2, <1>3, <1>5 DEF Bias, s
<1>6. CASE ~Live(lock, t)
  <2>1. Bias(lock, t) = 0 * (lock.end - t) /\ Slope(lock, t) = 0
    BY <1>3, <1>6 DEF Bias
  <2>2. Bias(lock, t) = 0
    BY <1>1, <2>1, SMT
  <2> QED
    BY <1>1, <1>2, <1>6, <2>1, <2>2, SMT DEF Live, s
<1> QED
  BY <1>4, <1>5, <1>6

(* The votes of any locks are numbers. *)
LEMMA WeighedType ==
    ASSUME NEW locks \in [Users -> Lock], NEW t \in Nat
    PROVE  Weighed(locks, t) \in [Users -> Nat]
  BY BiasOfLock DEF Weighed

(* Whatever the VotingEscrow does, its locks are locks, votes are numbers and
   time moves on. *)
LEMMA VeNextType ==
    ASSUME now \in StartTime..MaxTime, locked \in [Users -> Lock], VeNext
    PROVE  /\ locked' \in [Users -> Lock]
           /\ votes' \in [Users -> Nat]
           /\ now' \in StartTime..MaxTime
           /\ now <= now'
<1>1. now \in Nat /\ now + 1 \in Nat /\ now <= now
  BY VeConstants, SMT
<1>2. ASSUME locked' \in [Users -> Lock], now' = now, \E locks : Becomes(locks)
      PROVE  votes' \in [Users -> Nat]
  BY <1>1, <1>2, WeighedType DEF Becomes
<1>3. ASSUME NEW u \in Users, Locking(u) \/ InfiniteLockToggle(u) \/ Withdraw(u)
      PROVE  /\ locked' \in [Users -> Lock]
             /\ votes' \in [Users -> Nat]
             /\ now' = now
  <2>1. locked' \in [Users -> Lock] /\ now' = now
    BY <1>3, LockingType
  <2>2. \E locks : Becomes(locks)
    BY <1>3 DEF Locking, CreateLock, IncreaseAmount, IncreaseUnlockTime, Withdraw,
               InfiniteLockToggle
  <2> QED
    BY <1>2, <2>1, <2>2
<1>4. ASSUME NEW owner \in Users, NEW to \in Users, Transfer(owner, to)
      PROVE  /\ locked' \in [Users -> Lock]
             /\ votes' \in [Users -> Nat]
             /\ now' = now
  <2>1. locked' \in [Users -> Lock] /\ now' = now
    BY <1>4, TransferType
  <2>2. \E locks : Becomes(locks)
    BY <1>4 DEF Transfer
  <2> QED
    BY <1>2, <2>1, <2>2
<1>5. CASE Tick
  <2>1. locked' = locked /\ now' = now + 1 /\ votes' = Weighed(locked, now + 1) /\ now < MaxTime
    BY <1>5 DEF Tick
  <2>2. now' \in StartTime..MaxTime /\ now <= now'
    BY <2>1, VeConstants, SMT
  <2>3. votes' \in [Users -> Nat]
    BY <1>1, <2>1, WeighedType
  <2> QED
    BY <2>1, <2>2, <2>3
<1> QED
  BY <1>1, <1>3, <1>4, <1>5 DEF VeNext
=============================================================================
