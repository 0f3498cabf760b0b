------------------------- MODULE VotingEscrow_proofs ------------------------
(***************************************************************************)
(* Proofs about VotingEscrow for any number of users, any amounts and any  *)
(* times.                                                                  *)
(*                                                                         *)
(* EscrowInv is inductive: locks are multiples, a user's last point was    *)
(* taken of the lock as it is, and the points of the total are no more     *)
(* than a week apart.  From it follow ImplementsVeLocks and PastIsFrozen.  *)
(*                                                                         *)
(* SumInv is inductive relative to it: the last point of the total is the  *)
(* sum of the users' points, the slope changes ahead are those of the      *)
(* locks that end then, and between its points the total is the sum of the *)
(* past votes.  It is kept when the loop of _checkpoint over weeks reaches *)
(* now (OnTime); from it follow TotalIsSum and SlopesUnwind.               *)
(***************************************************************************)
EXTENDS VotingEscrow, Sums_proofs, SequenceTheorems, TLAPS

-----------------------------------------------------------------------------
(***************************************************************************)
(* The inductive invariants                                                *)
(***************************************************************************)
\* What a user's point is at time t, if the lock does not change.
PointOf(lock, t) == [bias |-> Bias(lock, t), slope |-> Slope(lock, t), ts |-> t]

IsMultiple(n, w) == n = (n \div w) * w

\* Amounts are multiples of MAXTIME, locks end on weeks, and an NFT stands for
\* every lock.
LocksOK ==
    /\ IsMultiple(supply, MAXTIME)
    /\ \A u \in Users :
           /\ IsMultiple(locked[u].amount, MAXTIME)
           /\ locked[u].end # MaxUint => IsMultiple(locked[u].end, WEEK)
           /\ locked[u].amount = 0 => locked[u].end = 0
           /\ u \in nft <=> locked[u].amount > 0

\* A user's last point was taken of the lock as it is.
UsersCurrent ==
    \A u \in Users :
        LET h == user_point_history[u] IN
        /\ Len(h) > 0
        /\ h[1] = NoPoint
        /\ Last(h) = PointOf(locked[u], Last(h).ts)

\* Points of the total are no more than a week apart, but for the first; no
\* slope change is scheduled for before anything was locked.
HistoryOK ==
    /\ Len(point_history) > 0
    /\ point_history[1] = [NoPoint EXCEPT !.ts = StartTime]
    /\ \A i \in 2 .. Len(point_history) - 1 :
           point_history[i + 1].ts <= point_history[i].ts + WEEK
    /\ \A s \in Times :
           Len(point_history) = 1 \/ s <= point_history[2].ts => slope_changes[s] = 0

EscrowInv == TypeOK /\ LocksOK /\ UsersCurrent /\ HistoryOK

\* The sums over locks at time t: the point the total should be then, and what
\* the locks that end at t take off the slope.
Slopes(locks, t) == [u \in Users |-> Slope(locks[u], t)]
Biases(locks, t) == [u \in Users |-> Bias(locks[u], t)]
Ending(locks, t) == [u \in Users |-> IF locks[u].end = t THEN Slope(locks[u], t - 1) ELSE 0]
SumPoint(locks, t) ==
    [bias |-> Total(Biases(locks, t)), slope |-> Total(Slopes(locks, t)), ts |-> t]

LastIsSum == LastPoint = SumPoint(locked, LastPoint.ts)

\* The slope changes ahead are those of the locks that end then.
ScheduleIsSum ==
    \A s \in Times : s > LastPoint.ts => slope_changes[s] = -Total(Ending(locked, s))

\* The total is behind no point, and begins no earlier than the clock.
TotalAhead ==
    /\ now >= StartTime
    /\ \A i \in 2 .. Len(point_history) :
           StartTime <= point_history[i].ts /\ point_history[i].ts <= LastPoint.ts

\* Before the second point of the total nobody had votes, and no point of a
\* user is ahead of the total.
UsersBehind ==
    \A u \in Users : \A i \in 1 .. Len(user_point_history[u]) :
        LET p == user_point_history[u][i] IN
        /\ p.ts <= LastPoint.ts
        /\ Len(point_history) = 1 \/ p.ts < point_history[2].ts
              => p.bias = 0 /\ p.slope = 0

VotesAt(h, t) ==
    LET p == LastAt(h, t) IN Positive(p.bias - p.slope * (t - p.ts))
PastVotes(histories, t) == [u \in Users |-> VotesAt(histories[u], t)]

\* On the way from one point to the next the total is the sum of the past
\* votes of the users.
PastIsSum ==
    \A i \in 2 .. Len(point_history) : \A t \in point_history[i].ts .. LastPoint.ts :
        \/ i < Len(point_history) /\ point_history[i + 1].ts <= t
        \/ point_history[i].bias - point_history[i].slope * (t - point_history[i].ts)
               = Total(PastVotes(user_point_history, t))

SumInv == LastIsSum /\ ScheduleIsSum /\ TotalAhead /\ UsersBehind /\ PastIsSum
-----------------------------------------------------------------------------
(* The constants are numbers. *)
LEMMA EscrowConstants ==
    /\ IsFiniteSet(Users)
    /\ WEEK \in Nat \ {0}
    /\ MAXTIME \in Nat \ {0}
    /\ MAXTIME >= WEEK
    /\ MaxUint \in Nat
    /\ MaxUint >= MaxTime + MAXTIME + WEEK
    /\ StartTime \in Nat
    /\ MaxTime \in Nat
    /\ StartTime <= MaxTime
    /\ Values \subseteq Nat
    /\ Funds \in Nat
    /\ CHECKPOINT_WEEKS \in Nat \ {0}
  BY VeAssumption, EscrowAssumption, SMT

(* A multiple is what its division says. *)
LEMMA MultipleOf ==
    ASSUME NEW k \in Nat, NEW w \in Nat \ {0}
    PROVE  IsMultiple(k * w, w)
  BY MultipleDiv DEF IsMultiple

(* Multiples are divided term by term. *)
LEMMA MultiplePlus ==
    ASSUME NEW a \in Nat, NEW b \in Nat, NEW w \in Nat \ {0}, IsMultiple(a, w)
    PROVE  /\ (a + b) \div w = (a \div w) + (b \div w)
           /\ ((a + b) \div w) * w - a = (b \div w) * w
           /\ IsMultiple(b, w) => IsMultiple(a + b, w)
<1> DEFINE p == a \div w
           q == b \div w
           r == (a + b) \div w
<1>1. p \in Nat /\ a = p * w
  BY DivBounds DEF IsMultiple
<1>2. q \in Nat /\ q * w <= b /\ b < q * w + w
  BY DivBounds
<1>3. r \in Nat /\ r * w <= a + b /\ a + b < r * w + w
  BY DivBounds
<1>4. IsMultiple(b, w) => b = q * w
  BY DEF IsMultiple
<1> HIDE DEF p, q, r
<1>5. (p + q) * w = p * w + q * w
  BY <1>1, <1>2, SMT
<1>6. r * w < (p + q) * w + w /\ (p + q) * w < r * w + w
  BY <1>1, <1>2, <1>3, <1>5, SMT
<1>7. (p + q + 1) * w = (p + q) * w + w /\ (r + 1) * w = r * w + w
  BY <1>1, <1>2, <1>3, SMT
<1>8. r < p + q + 1
  <2>1. SUFFICES ASSUME p + q + 1 <= r PROVE FALSE
    BY <1>1, <1>2, <1>3, SMT
  <2>2. (p + q + 1) * w <= r * w
    BY <1>1, <1>2, <1>3, <2>1, ProductMonotone, SMT
  <2> QED
    BY <1>1, <1>2, <1>3, <1>6, <1>7, <2>2, SMT
<1>9. p + q < r + 1
  <2>1. SUFFICES ASSUME r + 1 <= p + q PROVE FALSE
    BY <1>1, <1>2, <1>3, SMT
  <2>2. (r + 1) * w <= (p + q) * w
    BY <1>1, <1>2, <1>3, <2>1, ProductMonotone, SMT
  <2> QED
    BY <1>1, <1>2, <1>3, <1>6, <1>7, <2>2, SMT
<1>10. r = p + q
  BY <1>1, <1>2, <1>3, <1>8, <1>9, SMT
<1>11. r * w - a = q * w
  BY <1>1, <1>2, <1>5, <1>10, SMT
<1>12. ASSUME IsMultiple(b, w) PROVE a + b = r * w
  BY <1>1, <1>4, <1>5, <1>10, <1>12, SMT
<1> QED
  BY <1>10, <1>11, <1>12 DEF p, q, r, IsMultiple

(* A sum of multiples is one. *)
LEMMA MultipleSum ==
    ASSUME NEW w \in Nat \ {0}, NEW a \in Nat, NEW b \in Nat, NEW c \in Nat, c = a + b,
           IsMultiple(a, w), IsMultiple(b, w)
    PROVE  IsMultiple(c, w)
  BY MultiplePlus

(* What is left of a multiple when a multiple is taken off is one. *)
LEMMA MultipleMinus ==
    ASSUME NEW w \in Nat \ {0}, NEW a \in Nat, NEW b \in Nat, NEW c \in Nat, a + b = c,
           IsMultiple(a, w), IsMultiple(c, w)
    PROVE  IsMultiple(b, w)
<1> DEFINE d == c \div w
           q == b \div w
<1>1. c = d * w /\ d \in Nat /\ q \in Nat
  BY DivBounds DEF IsMultiple
<1>2. ((a + b) \div w) * w - a = q * w
  BY MultiplePlus
<1>3. d * w - a = q * w
  BY <1>2
<1> HIDE DEF d, q
<1>4. b = q * w
  BY <1>1, <1>3, SMT
<1> QED
  BY <1>4 DEF IsMultiple, q

(* The later of zero and a number. *)
LEMMA PositiveType ==
    ASSUME NEW n \in Int
    PROVE  /\ Positive(n) \in Nat
           /\ n >= 0 => Positive(n) = n
           /\ n <= 0 => Positive(n) = 0
  BY SMT DEF Positive

-----------------------------------------------------------------------------
(***************************************************************************)
(* One lock over time                                                      *)
(***************************************************************************)
(* The numbers of a lock. *)
LEMMA LockNumbers ==
    ASSUME NEW lock \in Lock, NEW t \in Nat
    PROVE  /\ lock.amount \in Nat
           /\ lock.end \in Nat
           /\ lock.end \in Times \/ lock.end = MaxUint
           /\ lock.amount \div MAXTIME \in Nat
           /\ Slope(lock, t) \in Nat
           /\ Bias(lock, t) \in Nat
<1> DEFINE s == lock.amount \div MAXTIME
<1>1. lock.amount \in Nat /\ lock.end \in Nat /\ (lock.end \in Times \/ lock.end = MaxUint)
  BY EscrowConstants, SMT DEF Lock, Times
<1>2. s \in Nat
  BY <1>1, EscrowConstants, DivBounds
<1>3. Slope(lock, t) = IF Live(lock, t) /\ lock.end # MaxUint THEN s ELSE 0
  BY DEF Slope
<1> HIDE DEF s
<1>4. Slope(lock, t) \in Nat
  BY <1>2, <1>3
<1>5. CASE Live(lock, t) /\ lock.end = MaxUint
  BY <1>1, <1>2, <1>4, <1>5 DEF Bias, s
<1>6. CASE Live(lock, t) /\ lock.end # MaxUint
  <2>1. Bias(lock, t) = s * (lock.end - t) /\ lock.end - t \in Nat
    BY <1>1, <1>3, <1>6, SMT DEF Bias, Live
  <2>2. s * (lock.end - t) \in Nat
    BY <1>2, <2>1, SMT
  <2> QED
    BY <1>1, <1>2, <1>4, <2>1, <2>2 DEF s
<1>7. CASE ~Live(lock, t)
  <2>1. Bias(lock, t) = 0 * (lock.end - t)
    BY <1>3, <1>7 DEF Bias
  <2>2. Bias(lock, t) = 0
    BY <1>1, <2>1, SMT
  <2> QED
    BY <1>1, <1>2, <1>4, <2>2 DEF s
<1> QED
  BY <1>5, <1>6, <1>7

\* The lock ends after s and by t.
Ends(lock, s, t) == s < lock.end /\ lock.end <= t

(* A lock weighs on a line until it ends, and nothing from then on. *)
LEMMA LockLine ==
    ASSUME NEW lock \in Lock, NEW s \in Nat, NEW t \in Nat, s <= t, t < MaxUint
    PROVE  /\ Positive(Bias(lock, s) - Slope(lock, s) * (t - s)) = Bias(lock, t)
           /\ ~ Ends(lock, s, t - 1) =>
                  Bias(lock, s) - Slope(lock, s) * (t - s) = Bias(lock, t)
           /\ ~ Ends(lock, s, t) => Slope(lock, t) = Slope(lock, s)
           /\ Ends(lock, s, t) => Slope(lock, t) = 0
<1> DEFINE a == lock.amount \div MAXTIME
<1>1. /\ lock.amount \in Nat /\ lock.end \in Nat /\ a \in Nat
      /\ lock.end \in Times \/ lock.end = MaxUint
  BY LockNumbers
<1>2. \A r \in Nat : Slope(lock, r) = IF Live(lock, r) /\ lock.end # MaxUint THEN a ELSE 0
  BY DEF Slope
<1>3. t - s \in Nat /\ MaxUint \in Nat
  BY EscrowConstants, SMT
<1> HIDE DEF a
<1>4. CASE lock.amount = 0
  <2>1. ~Live(lock, s) /\ ~Live(lock, t)
    BY <1>4, SMT DEF Live
  <2>2. Slope(lock, s) = 0 /\ Slope(lock, t) = 0
    BY <1>2, <2>1
  <2>3. Bias(lock, s) = 0 /\ Bias(lock, t) = 0
    BY <1>1, <2>1, <2>2, SMT DEF Bias
  <2> QED
    BY <1>3, <2>2, <2>3, SMT DEF Positive
<1>5. CASE lock.amount > 0 /\ lock.end = MaxUint
  <2>1. Live(lock, s) /\ Live(lock, t)
    BY <1>1, <1>3, <1>5, SMT DEF Live
  <2>2. Slope(lock, s) = 0 /\ Slope(lock, t) = 0
    BY <1>2, <1>5, <2>1
  <2>3. Bias(lock, s) = lock.amount /\ Bias(lock, t) = lock.amount
    BY <1>5, <2>1 DEF Bias
  <2>4. ~ Ends(lock, s, t)
    BY <1>3, <1>5, SMT DEF Ends
  <2>5. lock.amount - 0 * (t - s) = lock.amount
    BY <1>1, <1>3, SMT
  <2> QED
    BY <1>1, <2>2, <2>3, <2>4, <2>5, PositiveType, SMT
<1>6. CASE lock.amount > 0 /\ lock.end # MaxUint /\ lock.end <= s
  <2>1. ~Live(lock, s) /\ ~Live(lock, t)
    BY <1>1, <1>6, SMT DEF Live
  <2>2. Slope(lock, s) = 0 /\ Slope(lock, t) = 0
    BY <1>2, <2>1
  <2>3. Bias(lock, s) = 0 /\ Bias(lock, t) = 0
    BY <1>1, <2>1, <2>2, SMT DEF Bias
  <2> QED
    BY <1>3, <2>2, <2>3, SMT DEF Positive
<1>7. CASE lock.amount > 0 /\ lock.end # MaxUint /\ s < lock.end /\ lock.end <= t
  <2>1. Live(lock, s) /\ ~Live(lock, t)
    BY <1>1, <1>7, SMT DEF Live
  <2>2. Slope(lock, s) = a /\ Slope(lock, t) = 0
    BY <1>2, <1>7, <2>1
  <2>3. Bias(lock, s) = a * (lock.end - s) /\ Bias(lock, t) = 0
    BY <1>1, <1>7, <2>1, <2>2, SMT DEF Bias
  <2>4. a * (lock.end - s) - a * (t - s) = a * (lock.end - t)
    BY <1>1, <1>3, <1>7, SMT
  <2>5. a * (lock.end - t) \in Int /\ a * (lock.end - t) <= 0
    BY <1>1, <1>7, SMT
  <2>6. Positive(a * (lock.end - s) - a * (t - s)) = 0
    BY <2>4, <2>5, PositiveType
  <2>7. Ends(lock, s, t)
    BY <1>7 DEF Ends
  <2>8. ASSUME ~ Ends(lock, s, t - 1) PROVE a * (lock.end - s) - a * (t - s) = 0
    <3>1. lock.end = t
      BY <1>1, <1>7, <2>8, SMT DEF Ends
    <3> QED
      BY <1>1, <3>1, SMT
  <2> QED
    BY <2>2, <2>3, <2>6, <2>7, <2>8
<1>8. CASE lock.amount > 0 /\ lock.end # MaxUint /\ t < lock.end
  <2>1. Live(lock, s) /\ Live(lock, t)
    BY <1>1, <1>8, SMT DEF Live
  <2>2. Slope(lock, s) = a /\ Slope(lock, t) = a
    BY <1>2, <1>8, <2>1
  <2>3. Bias(lock, s) = a * (lock.end - s) /\ Bias(lock, t) = a * (lock.end - t)
    BY <1>8, <2>1, <2>2, SMT DEF Bias
  <2>4. a * (lock.end - s) - a * (t - s) = a * (lock.end - t)
    BY <1>1, <1>3, <1>8, SMT
  <2>5. a * (lock.end - t) \in Int /\ a * (lock.end - t) >= 0
    BY <1>1, <1>8, SMT
  <2>6. Positive(a * (lock.end - s) - a * (t - s)) = a * (lock.end - t)
    BY <2>4, <2>5, PositiveType
  <2>7. ~ Ends(lock, s, t)
    BY <1>1, <1>8, SMT DEF Ends
  <2> QED
    BY <2>2, <2>3, <2>4, <2>6, <2>7
<1> QED
  BY <1>1, <1>3, <1>4, <1>5, <1>6, <1>7, <1>8, SMT

-----------------------------------------------------------------------------
(***************************************************************************)
(* The walk of _checkpoint over weeks                                      *)
(***************************************************************************)
WalkStart == RoundToWeek(LastPoint.ts)
WalkWeeks == Min({Max({ceil_div(now - WalkStart, WEEK), 1}), CHECKPOINT_WEEKS})

\* The step of the walk to the beginning of a week, or to now before it.
WalkStep(p, t) == IF t > now THEN Carried(p, now, 0) ELSE Carried(p, t, slope_changes[t])

\* The recursive function in Walk, for any number of weeks.
IsWalk(f, n) ==
    f = [k \in 0..n |-> IF k = 0 THEN LastPoint
                        ELSE WalkStep(f[k - 1], WalkStart + k * WEEK)]

(* The walk is such a function, for as many weeks as the loop takes. *)
LEMMA WalkIsChoice ==
    Walk = [k \in 1..WalkWeeks |-> (CHOOSE f : IsWalk(f, WalkWeeks))[k]]
  BY DEF Walk, IsWalk, WalkStep, WalkStart, WalkWeeks

(* There is such a function for any number of weeks. *)
LEMMA WalkExists ==
    ASSUME NEW n \in Nat
    PROVE  \E f : IsWalk(f, n)
<1> DEFINE G == {m \in Nat : \E f : IsWalk(f, m)}
<1>1. 0 \in G
  <2>1. IsWalk([k \in 0..0 |-> LastPoint], 0)
    <3>1. \A k \in 0..0 : k = 0
      BY SMT
    <3> QED
      BY <3>1, Zenon DEF IsWalk
  <2> QED
    BY <2>1
<1>2. ASSUME NEW m \in Nat, m \in G PROVE m + 1 \in G
  <2>1. PICK f : IsWalk(f, m)
    BY <1>2
  <2> DEFINE g == [k \in 0..m + 1 |-> IF k <= m THEN f[k]
                                      ELSE WalkStep(f[m], WalkStart + k * WEEK)]
  <2>2. ASSUME NEW k \in 0..m + 1
        PROVE  g[k] = IF k = 0 THEN LastPoint ELSE WalkStep(g[k - 1], WalkStart + k * WEEK)
    <3>1. CASE k = 0
      <4>1. g[k] = f[0] /\ 0 \in 0..m
        BY <3>1, SMT
      <4>2. f[0] = LastPoint
        BY <2>1, <4>1, Zenon DEF IsWalk
      <4> QED
        BY <3>1, <4>1, <4>2
    <3>2. CASE k # 0 /\ k <= m
      <4>1. k \in 0..m /\ k - 1 \in 0..m + 1 /\ k - 1 <= m
        BY <3>2, SMT
      <4>2. g[k] = f[k] /\ g[k - 1] = f[k - 1]
        BY <3>2, <4>1
      <4>3. f[k] = WalkStep(f[k - 1], WalkStart + k * WEEK)
        BY <2>1, <3>2, <4>1, Zenon DEF IsWalk
      <4> QED
        BY <3>2, <4>2, <4>3
    <3>3. CASE k = m + 1
      <4>1. k - 1 = m /\ m \in 0..m + 1 /\ ~(k <= m) /\ k # 0
        BY <3>3, SMT
      <4>2. g[k] = WalkStep(f[m], WalkStart + k * WEEK) /\ g[m] = f[m]
        BY <3>3, <4>1
      <4> QED
        BY <4>1, <4>2
    <3> QED
      BY <3>1, <3>2, <3>3, SMT
  <2> HIDE DEF g
  <2>3. g = [k \in 0..m + 1 |-> g[k]]
    BY DEF g
  <2>4. IsWalk(g, m + 1)
    BY <2>2, <2>3, Zenon DEF IsWalk
  <2> QED
    BY <2>4, SMT
<1> HIDE DEF G
<1>3. n \in G
  BY <1>1, <1>2, StepInduction
<1> QED
  BY <1>3 DEF G

(* The larger of two numbers. *)
LEMMA MaxOfTwo ==
    ASSUME NEW a \in Int, NEW b \in Int
    PROVE  Max({a, b}) = IF a >= b THEN a ELSE b
<1> DEFINE m == IF a >= b THEN a ELSE b
           P(x) == x \in {a, b} /\ \A y \in {a, b} : x >= y
<1>1. P(m)
  BY SMT
<1>2. P(CHOOSE x : P(x))
  BY <1>1
<1>3. (CHOOSE x : P(x)) = m
  BY <1>2, SMT
<1>4. Max({a, b}) = CHOOSE x \in {a, b} : \A y \in {a, b} : x >= y
  BY DEF Max
<1> QED
  BY <1>3, <1>4

(* The smaller is one of them, and no larger than the other. *)
LEMMA MinOfTwo ==
    ASSUME NEW a \in Int, NEW b \in Int
    PROVE  Min({a, b}) = IF a <= b THEN a ELSE b
<1> DEFINE m == IF a <= b THEN a ELSE b
           P(x) == x \in {a, b} /\ \A y \in {a, b} : x <= y
<1>1. P(m)
  BY SMT
<1>2. P(CHOOSE x : P(x))
  BY <1>1
<1>3. (CHOOSE x : P(x)) = m
  BY <1>2, SMT
<1>4. Min({a, b}) = CHOOSE x \in {a, b} : \A y \in {a, b} : x <= y
  BY DEF Min
<1> QED
  BY <1>3, <1>4

(* The last point is a point, at no time ahead. *)
LEMMA LastPointType ==
    ASSUME TypeOK
    PROVE  /\ now \in Nat /\ now <= MaxTime
           /\ LastPoint \in Point
           /\ LastPoint.ts \in 0..now
           /\ LastPoint.bias \in Nat /\ LastPoint.slope \in Nat
           /\ Len(point_history) > 1 => LastPoint = point_history[Len(point_history)]
           /\ ~(Len(point_history) > 1) => LastPoint = [bias |-> 0, slope |-> 0, ts |-> now]
<1>1. now \in Nat /\ now <= MaxTime /\ now \in 0..now
  BY EscrowConstants, SMT DEF TypeOK
<1>2. point_history \in Seq(Point)
  BY DEF TypeOK
<1>3. Len(point_history) > 1 => LastPoint = point_history[Len(point_history)]
  BY DEF LastPoint, Last
<1>4. ~(Len(point_history) > 1) => LastPoint = [bias |-> 0, slope |-> 0, ts |-> now]
  BY DEF LastPoint, NoPoint
<1>5. LastPoint \in Point
  <2>1. CASE Len(point_history) > 1
    BY <1>2, <1>3, <2>1, SMT
  <2>2. CASE ~(Len(point_history) > 1)
    BY <1>1, <1>4, <2>2, SMT DEF Point
  <2> QED
    BY <2>1, <2>2
<1> QED
  BY <1>1, <1>3, <1>4, <1>5 DEF Point

(* Where the walk begins, and how many weeks it has: enough to reach now,
   unless the loop ends before. *)
LEMMA WalkBounds ==
    ASSUME TypeOK
    PROVE  /\ WalkStart \in Nat
           /\ WalkStart <= LastPoint.ts /\ LastPoint.ts < WalkStart + WEEK
           /\ IsMultiple(WalkStart, WEEK)
           /\ WalkWeeks \in Nat \ {0}
           /\ WalkWeeks <= CHECKPOINT_WEEKS
           /\ WalkWeeks < CHECKPOINT_WEEKS \/ now <= WalkStart + CHECKPOINT_WEEKS * WEEK
                  => now <= WalkStart + WalkWeeks * WEEK
           /\ \A k \in Nat : k < WalkWeeks /\ k > 0 => WalkStart + k * WEEK < now
           /\ LastPoint.ts = now => WalkWeeks = 1
<1> DEFINE T == LastPoint.ts
           q == T \div WEEK
           n == now - WalkStart
           c == (n + WEEK - 1) \div WEEK
           m == IF c >= 1 THEN c ELSE 1
<1>1. T \in Nat /\ T <= now /\ now \in Nat /\ WEEK \in Nat \ {0} /\ CHECKPOINT_WEEKS \in Nat \ {0}
  BY LastPointType, EscrowConstants, SMT
<1>2. q \in Nat /\ q * WEEK <= T /\ T < q * WEEK + WEEK
  BY <1>1, DivBounds
<1>3. WalkStart = q * WEEK
  BY DEF WalkStart, RoundToWeek
<1> HIDE DEF q
<1>4. WalkStart \in Nat /\ IsMultiple(WalkStart, WEEK)
  BY <1>1, <1>2, <1>3, MultipleOf, SMT
<1>5. n \in Nat /\ n + WEEK - 1 \in Nat
  BY <1>1, <1>2, <1>3, <1>4, SMT
<1>6. c \in Nat /\ c * WEEK <= n + WEEK - 1 /\ n + WEEK - 1 < c * WEEK + WEEK
  BY <1>1, <1>5, DivBounds
<1>7. ceil_div(now - WalkStart, WEEK) = c
  BY DEF ceil_div
<1>8. now = WalkStart + n
  BY <1>1, <1>4, SMT
<1> HIDE DEF n, c
<1>9. Max({c, 1}) = m /\ m \in Nat \ {0} /\ m >= c
  BY <1>6, MaxOfTwo, SMT
<1> DEFINE w == IF m <= CHECKPOINT_WEEKS THEN m ELSE CHECKPOINT_WEEKS
<1>10. WalkWeeks = w
  <2>1. m \in Int /\ CHECKPOINT_WEEKS \in Int
    BY <1>1, <1>9, SMT
  <2>2. Min({m, CHECKPOINT_WEEKS}) = w
    BY <2>1, MinOfTwo
  <2>3. WalkWeeks = Min({m, CHECKPOINT_WEEKS})
    BY <1>7, <1>9 DEF WalkWeeks
  <2> QED
    BY <2>2, <2>3
<1>11. w \in Nat \ {0} /\ w <= CHECKPOINT_WEEKS /\ w <= m
  BY <1>1, <1>9, SMT
<1>12. m * WEEK >= n
  <2>1. c * WEEK >= n
    BY <1>1, <1>5, <1>6, SMT
  <2>2. m * WEEK >= c * WEEK
    BY <1>1, <1>6, <1>9, ProductMonotone
  <2> QED
    BY <1>1, <1>5, <1>6, <1>9, <2>1, <2>2, SMT
<1>13. ASSUME NEW k \in Nat, k < w, k > 0 PROVE k * WEEK < n
  <2>1. m = c /\ k + 1 <= c
    BY <1>6, <1>9, <1>11, <1>13, SMT
  <2>2. (k + 1) * WEEK <= c * WEEK
    BY <1>1, <1>6, <2>1, ProductMonotone, SMT
  <2>3. (k + 1) * WEEK = k * WEEK + WEEK
    BY <1>1, SMT
  <2>4. k * WEEK \in Nat /\ c * WEEK \in Nat
    BY <1>1, <1>6, SMT
  <2> QED
    BY <1>1, <1>5, <1>6, <2>2, <2>3, <2>4, SMT
<1>14. ASSUME w < CHECKPOINT_WEEKS \/ n <= CHECKPOINT_WEEKS * WEEK PROVE n <= w * WEEK
  <2>1. CASE m <= CHECKPOINT_WEEKS
    BY <1>12, <2>1
  <2>2. CASE ~(m <= CHECKPOINT_WEEKS)
    BY <1>1, <1>14, <2>2, SMT
  <2> QED
    BY <2>1, <2>2
<1>15. ASSUME T = now PROVE w = 1
  <2>1. n + WEEK - 1 < WEEK + WEEK
    BY <1>1, <1>2, <1>3, <1>4, <1>5, <1>8, <1>15, SMT
  <2>2. c * WEEK < 2 * WEEK
    BY <1>1, <1>5, <1>6, <2>1, SMT
  <2>3. ~(2 <= c)
    <3>1. ASSUME 2 <= c PROVE FALSE
      <4>1. 2 * WEEK <= c * WEEK
        BY <1>1, <1>6, <3>1, ProductMonotone, SMT
      <4> QED
        BY <1>1, <1>6, <2>2, <4>1, SMT
    <3> QED
      BY <3>1
  <2> QED
    BY <1>1, <1>6, <2>3, SMT
<1> HIDE DEF m, w
<1>16. WalkWeeks < CHECKPOINT_WEEKS \/ now <= WalkStart + CHECKPOINT_WEEKS * WEEK
          => now <= WalkStart + WalkWeeks * WEEK
  <2>1. CHECKPOINT_WEEKS * WEEK \in Nat /\ w * WEEK \in Nat
    BY <1>1, <1>11, SMT
  <2> QED
    BY <1>4, <1>5, <1>8, <1>10, <1>14, <2>1, SMT
<1>17. ASSUME NEW k \in Nat, k < WalkWeeks, k > 0 PROVE WalkStart + k * WEEK < now
  <2>1. k * WEEK \in Nat
    BY <1>1, SMT
  <2>2. k * WEEK < n
    BY <1>10, <1>13, <1>17
  <2> QED
    BY <1>4, <1>5, <1>8, <2>1, <2>2, SMT
<1> QED
  BY <1>1, <1>2, <1>3, <1>4, <1>10, <1>11, <1>15, <1>16, <1>17

(* One sequence after another. *)
LEMMA ConcatParts ==
    ASSUME NEW S, NEW s \in Seq(S), NEW t \in Seq(S)
    PROVE  /\ s \o t \in Seq(S)
           /\ Len(s \o t) = Len(s) + Len(t)
           /\ \A i \in 1..Len(s) : (s \o t)[i] = s[i]
           /\ \A k \in 1..Len(t) : (s \o t)[Len(s) + k] = t[k]
<1> DEFINE r == s \o t
<1>1. /\ r \in Seq(S) /\ Len(r) = Len(s) + Len(t)
      /\ \A i \in 1 .. Len(s) + Len(t) : r[i] = IF i <= Len(s) THEN s[i] ELSE t[i - Len(s)]
  BY ConcatProperties
<1>2. Len(s) \in Nat /\ Len(t) \in Nat
  BY LenProperties
<1> HIDE DEF r
<1>3. ASSUME NEW i \in 1..Len(s) PROVE r[i] = s[i]
  <2>1. i \in 1 .. Len(s) + Len(t) /\ i <= Len(s)
    BY <1>2, SMT
  <2> QED
    BY <1>1, <2>1
<1>4. ASSUME NEW k \in 1..Len(t) PROVE r[Len(s) + k] = t[k]
  <2>1. /\ Len(s) + k \in 1 .. Len(s) + Len(t) /\ ~(Len(s) + k <= Len(s))
        /\ (Len(s) + k) - Len(s) = k
    BY <1>2, SMT
  <2> QED
    BY <1>1, <2>1
<1> QED
  BY <1>1, <1>3, <1>4 DEF r

\* r is s followed by t.
Joins(r, s, t) ==
    /\ Len(r) = Len(s) + Len(t)
    /\ \A i \in 1..Len(s) : r[i] = s[i]
    /\ \A k \in 1..Len(t) : r[Len(s) + k] = t[k]

(* A concatenation joins its parts. *)
LEMMA ConcatJoins ==
    ASSUME NEW S, NEW s \in Seq(S), NEW t \in Seq(S)
    PROVE  s \o t \in Seq(S) /\ Joins(s \o t, s, t)
  BY ConcatParts DEF Joins

(* All but the last element of a sequence. *)
LEMMA FrontParts ==
    ASSUME NEW S, NEW s \in Seq(S), Len(s) > 0
    PROVE  /\ Front(s) \in Seq(S)
           /\ Len(Front(s)) = Len(s) - 1
           /\ \A k \in 1 .. Len(s) - 1 : Front(s)[k] = s[k]
<1> DEFINE m == Len(s) - 1
<1>1. Len(s) \in Nat /\ m \in Nat
  BY LenProperties, SMT
<1>2. \A i \in 1..m : s[i] \in S
  BY <1>1, ElementOfSeq, SMT
<1>3. Front(s) = SubSeq(s, 1, m)
  BY DEF Front
<1> HIDE DEF m
<1>4. /\ SubSeq(s, 1, m) \in Seq(S)
      /\ Len(SubSeq(s, 1, m)) = m
      /\ \A i \in 1..m : SubSeq(s, 1, m)[i] = s[i]
  BY <1>1, <1>2, SMT
<1> QED
  BY <1>3, <1>4 DEF m

\* The time of the k-th point of the walk.
WalkTime(k) == IF WalkStart + k * WEEK > now THEN now ELSE WalkStart + k * WEEK

\* f takes the walk's steps.
Walked(f) ==
    /\ f[0] = LastPoint
    /\ \A k \in 1..WalkWeeks :
           /\ f[k] = WalkStep(f[k - 1], WalkStart + k * WEEK)
           /\ f[k] \in Point
           /\ f[k].ts = WalkTime(k)

(* A point carried on is a point. *)
LEMMA CarriedType ==
    ASSUME now \in Nat, NEW p \in Point, NEW t \in 0..now, NEW d \in Int
    PROVE  Carried(p, t, d) \in Point /\ Carried(p, t, d).ts = t
<1>1. p.bias \in Nat /\ p.slope \in Nat /\ p.ts \in Int
  BY SMT DEF Point
<1>2. p.bias - p.slope * (t - p.ts) \in Int /\ p.slope + d \in Int
  BY <1>1, SMT
<1>3. Positive(p.bias - p.slope * (t - p.ts)) \in Nat /\ Positive(p.slope + d) \in Nat
  BY <1>2, PositiveType
<1> QED
  BY <1>3 DEF Carried, Point

(* The points of the walk are points, at the beginnings of weeks and now. *)
LEMMA WalkFacts ==
    ASSUME TypeOK
    PROVE  \E f : Walked(f) /\ Walk = [k \in 1..WalkWeeks |-> f[k]]
<1> DEFINE f == CHOOSE g : IsWalk(g, WalkWeeks)
           G == {m \in Nat : m <= WalkWeeks => f[m] \in Point}
<1>1. WalkWeeks \in Nat \ {0} /\ WalkStart \in Nat /\ WEEK \in Nat \ {0}
  BY WalkBounds, EscrowConstants
<1>2. IsWalk(f, WalkWeeks)
  BY <1>1, WalkExists
<1>3. Walk = [k \in 1..WalkWeeks |-> f[k]]
  BY WalkIsChoice
<1> HIDE DEF f
<1>4. f[0] = LastPoint
  <2>1. 0 \in 0..WalkWeeks
    BY <1>1, SMT
  <2> QED
    BY <1>2, <2>1, Zenon DEF IsWalk
<1>5. ASSUME NEW k \in 1..WalkWeeks PROVE f[k] = WalkStep(f[k - 1], WalkStart + k * WEEK)
  <2>1. k \in 0..WalkWeeks /\ k # 0
    BY <1>1, SMT
  <2> QED
    BY <1>2, <2>1, Zenon DEF IsWalk
<1>6. ASSUME NEW k \in 1..WalkWeeks, f[k - 1] \in Point
      PROVE  f[k] \in Point /\ f[k].ts = WalkTime(k)
  <2> DEFINE t == WalkStart + k * WEEK
  <2>0. now \in Nat
    BY LastPointType
  <2>1. t \in Nat /\ now \in 0..now /\ now \in Nat /\ 0 \in Int
    BY <1>1, <2>0, SMT
  <2>2. CASE t > now
    <3>1. f[k] = Carried(f[k - 1], now, 0) /\ WalkTime(k) = now
      BY <1>5, <2>2 DEF WalkStep, WalkTime
    <3>2. Carried(f[k - 1], now, 0) \in Point /\ Carried(f[k - 1], now, 0).ts = now
      BY <1>6, <2>1, CarriedType, Zenon
    <3> QED
      BY <3>1, <3>2
  <2>3. CASE ~(t > now)
    <3>1. f[k] = Carried(f[k - 1], t, slope_changes[t]) /\ WalkTime(k) = t
      BY <1>5, <2>3 DEF WalkStep, WalkTime
    <3>2. t \in 0..now /\ t \in Times
      BY <2>1, <2>3, LastPointType, EscrowConstants, SMT DEF Times
    <3>3. slope_changes[t] \in Int
      BY <3>2 DEF TypeOK
    <3> HIDE DEF t
    <3>4. Carried(f[k - 1], t, slope_changes[t]) \in Point
          /\ Carried(f[k - 1], t, slope_changes[t]).ts = t
      BY <1>6, <2>1, <3>2, <3>3, CarriedType, Zenon
    <3> QED
      BY <3>1, <3>4
  <2> QED
    BY <2>2, <2>3
<1>7. \A m \in Nat : m \in G
  <2>1. 0 \in G
    BY <1>4, LastPointType
  <2>2. ASSUME NEW m \in Nat, m \in G PROVE m + 1 \in G
    <3>1. SUFFICES ASSUME m + 1 <= WalkWeeks PROVE f[m + 1] \in Point
      BY <2>2, SMT
    <3>2. m + 1 \in 1..WalkWeeks /\ (m + 1) - 1 = m /\ m <= WalkWeeks
      BY <1>1, <3>1, SMT
    <3>3. f[(m + 1) - 1] \in Point
      BY <2>2, <3>2
    <3> QED
      BY <1>6, <3>2, <3>3
  <2> HIDE DEF G
  <2> QED
    BY <2>1, <2>2, StepInduction
<1>8. ASSUME NEW k \in 1..WalkWeeks
      PROVE  /\ f[k] = WalkStep(f[k - 1], WalkStart + k * WEEK)
             /\ f[k] \in Point
             /\ f[k].ts = WalkTime(k)
  <2>1. k - 1 \in Nat /\ k - 1 <= WalkWeeks
    BY <1>1, SMT
  <2>2. f[k - 1] \in Point
    BY <1>7, <2>1
  <2> QED
    BY <1>5, <1>6, <2>2
<1> QED
  BY <1>3, <1>4, <1>8 DEF Walked

(* The walk moves on in time, by no more than a week at a step. *)
LEMMA WalkTimes ==
    ASSUME TypeOK, NEW k \in 1..WalkWeeks
    PROVE  /\ WalkTime(k) \in 0..now
           /\ LastPoint.ts <= WalkTime(k)
           /\ LastPoint.ts < now => LastPoint.ts < WalkTime(k)
           /\ k = 1 => WalkTime(k) <= LastPoint.ts + WEEK
           /\ k > 1 => WalkTime(k) <= WalkTime(k - 1) + WEEK /\ WalkTime(k - 1) <= WalkTime(k)
           /\ k < WalkWeeks => WalkTime(k) = WalkStart + k * WEEK
<1> DEFINE t == WalkStart + k * WEEK
<1>1. /\ WalkStart \in Nat /\ k \in Nat /\ k >= 1 /\ WEEK \in Nat /\ now \in Nat /\ WEEK > 0
      /\ LastPoint.ts \in 0..now
      /\ WalkStart <= LastPoint.ts /\ LastPoint.ts < WalkStart + WEEK
      /\ WalkWeeks \in Nat
  <2>1. WEEK \in Nat /\ WEEK > 0 /\ now \in Nat
    BY EscrowConstants, SMT DEF TypeOK
  <2>2. LastPoint.ts \in 0..now
    BY LastPointType, Zenon
  <2>3. /\ WalkStart \in Nat /\ WalkWeeks \in Nat
        /\ WalkStart <= LastPoint.ts /\ LastPoint.ts < WalkStart + WEEK
    BY WalkBounds, SMT
  <2> QED
    BY <2>1, <2>2, <2>3, SMT
<1>2. k * WEEK >= WEEK /\ k * WEEK \in Nat /\ (k - 1) * WEEK = k * WEEK - WEEK
  BY <1>1, SMT
<1>3. t \in Nat /\ t > LastPoint.ts
  BY <1>1, <1>2, SMT
<1>4. k = 1 => t = WalkStart + WEEK
  BY <1>1, SMT
<1>5. WalkStart + (k - 1) * WEEK = t - WEEK
  BY <1>1, <1>2, SMT
<1>6. k < WalkWeeks => t < now
  BY <1>1, WalkBounds, SMT
<1>7. WalkTime(k) = IF t > now THEN now ELSE t
  BY DEF WalkTime
<1>8. WalkTime(k - 1) = IF t - WEEK > now THEN now ELSE t - WEEK
  BY <1>5 DEF WalkTime
<1> HIDE DEF t
<1>9. k < WalkWeeks => WalkTime(k) = t
  BY <1>1, <1>3, <1>6, <1>7, SMT
<1> QED
  BY <1>1, <1>3, <1>4, <1>7, <1>8, <1>9, SMT DEF t

\* The history is followed by the walk, with its last point replaced.
Grows(f, last) ==
    /\ point_history' \in Seq(Point)
    /\ Len(point_history') = Len(point_history) + WalkWeeks
    /\ \A i \in 1..Len(point_history) : point_history'[i] = point_history[i]
    /\ \A k \in 1..WalkWeeks - 1 : point_history'[Len(point_history) + k] = f[k]
    /\ point_history'[Len(point_history) + WalkWeeks] = last

(* checkpoint() appends the walk. *)
LEMMA TotalGrows ==
    ASSUME TypeOK, NEW f, Walked(f), Walk = [k \in 1..WalkWeeks |-> f[k]], CheckpointTotal
    PROVE  Grows(f, f[WalkWeeks])
<1>1. WalkWeeks \in Nat \ {0} /\ point_history \in Seq(Point) /\ Len(point_history) \in Nat
  BY WalkBounds DEF TypeOK
<1>2. Walk \in Seq(Point) /\ Len(Walk) = WalkWeeks
  <2>1. \A k \in 1..WalkWeeks : f[k] \in Point
    BY DEF Walked
  <2> QED
    BY <1>1, <2>1, SMT
<1>3. point_history' = point_history \o Walk
  BY DEF CheckpointTotal
<1>4. /\ point_history' \in Seq(Point)
      /\ Len(point_history') = Len(point_history) + WalkWeeks
      /\ \A i \in 1..Len(point_history) : point_history'[i] = point_history[i]
      /\ \A k \in 1..WalkWeeks : point_history'[Len(point_history) + k] = Walk[k]
  BY <1>1, <1>2, <1>3, ConcatParts
<1>5. \A k \in 1..WalkWeeks : Walk[k] = f[k]
  OBVIOUS
<1>7. WalkWeeks \in 1..WalkWeeks /\ \A k \in 1..WalkWeeks - 1 : k \in 1..WalkWeeks
  BY <1>1, SMT
<1> QED
  BY <1>4, <1>5, <1>7 DEF Grows

(* A user's checkpoint appends the walk with the last point exchanged. *)
LEMMA UserGrows ==
    ASSUME TypeOK, NEW f, Walked(f), Walk = [k \in 1..WalkWeeks |-> f[k]],
           NEW e \in Point, point_history' = point_history \o Front(Walk) \o <<e>>
    PROVE  Grows(f, e)
<1> DEFINE F == Front(Walk)
           H == point_history \o F
           n == Len(point_history)
           m == WalkWeeks - 1
<1>1. WalkWeeks \in Nat \ {0} /\ point_history \in Seq(Point) /\ n \in Nat /\ m \in Nat
  BY WalkBounds, SMT DEF TypeOK
<1>2. Walk \in Seq(Point) /\ Len(Walk) = WalkWeeks
  <2>1. \A k \in 1..WalkWeeks : f[k] \in Point
    BY DEF Walked
  <2> QED
    BY <1>1, <2>1, SMT
<1>3. \A k \in 1..WalkWeeks : Walk[k] = f[k]
  OBVIOUS
<1>4. \A k \in 1..m : k \in 1..WalkWeeks
  BY <1>1, SMT
<1>5. F \in Seq(Point) /\ Len(F) = m /\ \A k \in 1..m : F[k] = Walk[k]
  <2>1. Len(Walk) > 0
    BY <1>1, <1>2, SMT
  <2> QED
    BY <1>2, <2>1, FrontParts
<1>6. point_history' = H \o <<e>>
  OBVIOUS
<1> HIDE DEF F, n
<1>7. /\ H \in Seq(Point) /\ Len(H) = n + m
      /\ \A i \in 1..n : H[i] = point_history[i]
      /\ \A k \in 1..m : H[n + k] = F[k]
  <2>1. H \in Seq(Point) /\ Joins(H, point_history, F)
    BY <1>1, <1>5, ConcatJoins, Zenon
  <2> HIDE DEF H, m
  <2> QED
    BY <1>5, <2>1, Zenon DEF Joins, n
<1> HIDE DEF H, m
<1>8. <<e>> \in Seq(Point) /\ Len(<<e>>) = 1 /\ <<e>>[1] = e
  BY SMT
<1>9. /\ point_history' \in Seq(Point)
      /\ Len(point_history') = (n + m) + 1
      /\ \A i \in 1 .. n + m : point_history'[i] = H[i]
      /\ point_history'[(n + m) + 1] = e
  <2>1. point_history' \in Seq(Point) /\ Joins(point_history', H, <<e>>)
    BY <1>6, <1>7, <1>8, ConcatJoins, Zenon
  <2>2. 1 \in 1..1
    BY SMT
  <2> HIDE DEF n
  <2> QED
    BY <1>7, <1>8, <2>1, <2>2, Zenon DEF Joins
<1>10. (n + m) + 1 = n + WalkWeeks
  BY <1>1, SMT DEF m
<1>11. \A i \in 1..n : i \in 1 .. n + m
  BY <1>1, SMT
<1>12. \A k \in 1..m : n + k \in 1 .. n + m
  BY <1>1, SMT
<1>13. \A i \in 1..n : point_history'[i] = point_history[i]
  BY <1>7, <1>9, <1>11
<1>14. \A k \in 1..m : point_history'[n + k] = f[k]
  BY <1>3, <1>4, <1>5, <1>7, <1>9, <1>12
<1> QED
  BY <1>9, <1>10, <1>13, <1>14 DEF Grows, n, m

-----------------------------------------------------------------------------
(***************************************************************************)
(* What operations do to locks and tokens                                  *)
(***************************************************************************)
\* What a deposit adds to a lock.
RoundedDeposit(value) == (value \div MAXTIME) * MAXTIME

\* A lock with r added, and a new end unless that is 0.
Deposited(lock, r, end) ==
    [amount |-> lock.amount + r, end |-> IF end # 0 THEN end ELSE lock.end]

\* A lock as LocksOK has them, without its NFT.
LockOK(lock) ==
    /\ IsMultiple(lock.amount, MAXTIME)
    /\ lock.end # MaxUint => IsMultiple(lock.end, WEEK)
    /\ lock.amount = 0 => lock.end = 0

\* Tokens remain numbers, and the supply a multiple.
MoneyOK ==
    /\ supply' \in Nat /\ IsMultiple(supply', MAXTIME)
    /\ wallet' \in [Users -> Nat]
    /\ held' \in Nat

\* A user's lock becomes another one, and everything is brought up to date.
LockBecomes(u, new) ==
    /\ new \in Lock /\ IsMultiple(new.amount, MAXTIME)
    /\ locked' = [locked EXCEPT ![u] = new]
    /\ Checkpoint(u, locked[u], new)
    /\ now' = now
    /\ MoneyOK

\* A user's lock becomes another one that has not ended, or none.
Relocks(u, new) ==
    /\ new \in Lock /\ LockOK(new)
    /\ new.amount > 0 => new.end > now
    /\ locked' = [locked EXCEPT ![u] = new]
    /\ Checkpoint(u, locked[u], new)
    /\ nft' = IF new.amount > 0 THEN nft \cup {u} ELSE nft \ {u}
    /\ now' = now
    /\ MoneyOK

\* A lock moves into another that ends with it.
Merges(owner, to) ==
    /\ owner # to
    /\ locked[owner].amount > 0 /\ locked[to].amount > 0
    /\ locked[owner].end = locked[to].end /\ locked[to].end > now
    /\ MergePositions(owner, to)
    /\ nft' = nft \ {owner}
    /\ now' = now /\ slope_changes' = slope_changes
    /\ MoneyOK

(* A time rounded to weeks. *)
LEMMA RoundedTime ==
    ASSUME NEW t \in Nat
    PROVE  /\ RoundToWeek(t) \in 0..t
           /\ t < RoundToWeek(t) + WEEK
           /\ IsMultiple(RoundToWeek(t), WEEK)
           /\ IsMultiple(t, WEEK) => RoundToWeek(t) = t
<1> DEFINE q == t \div WEEK
<1>1. WEEK \in Nat \ {0}
  BY EscrowConstants
<1>2. q \in Nat /\ q * WEEK <= t /\ t < q * WEEK + WEEK
  BY <1>1, DivBounds
<1>3. q * WEEK \in Nat
  BY <1>1, <1>2, SMT
<1>4. IsMultiple(q * WEEK, WEEK)
  BY <1>1, <1>2, MultipleOf
<1>5. RoundToWeek(t) = q * WEEK
  BY DEF RoundToWeek
<1>6. IsMultiple(t, WEEK) => t = q * WEEK
  BY DEF IsMultiple
<1> HIDE DEF q
<1> QED
  BY <1>2, <1>3, <1>4, <1>5, <1>6, SMT

(* The longest lock's end is ahead, and a time at which locks can end. *)
LEMMA LongestEndOK ==
    ASSUME TypeOK
    PROVE  /\ LongestEnd(now) \in Times
           /\ LongestEnd(now) > now
           /\ IsMultiple(LongestEnd(now), WEEK)
           /\ LongestEnd(now) <= now + MAXTIME
<1> DEFINE t == now + MAXTIME
<1>1. now \in Nat /\ now <= MaxTime /\ t \in Nat /\ t <= MaxTime + MAXTIME /\ t >= now + WEEK
      /\ WEEK \in Nat \ {0} /\ MaxTime + MAXTIME \in Nat
  BY LastPointType, EscrowConstants, SMT
<1>2. RoundToWeek(t) \in 0..t /\ t < RoundToWeek(t) + WEEK /\ IsMultiple(RoundToWeek(t), WEEK)
  BY <1>1, RoundedTime
<1>3. LongestEnd(now) = RoundToWeek(t)
  BY DEF LongestEnd
<1> HIDE DEF t
<1>4. LongestEnd(now) \in Times /\ LongestEnd(now) > now /\ LongestEnd(now) <= t
  BY <1>1, <1>2, <1>3, SMT DEF Times
<1> QED
  BY <1>2, <1>3, <1>4 DEF t

(* A deposit adds what its rounded amount is, whatever was in before. *)
LEMMA DepositAdds ==
    ASSUME TypeOK, LocksOK, NEW payer \in Users, NEW u \in Users, NEW value \in Nat,
           NEW unlock_time \in Times \cup {MaxUint}, NEW new,
           new = Deposited(locked[u], RoundedDeposit(value), unlock_time),
           DepositFor(payer, u, value, unlock_time)
    PROVE  /\ RoundedDeposit(value) \in Nat
           /\ value >= MAXTIME => RoundedDeposit(value) > 0
           /\ value = 0 => RoundedDeposit(value) = 0
           /\ LockBecomes(u, new)
<1> DEFINE r == RoundedDeposit(value)
           q == value \div MAXTIME
           s == ((supply + value) \div MAXTIME) * MAXTIME
<1>1. /\ MAXTIME \in Nat \ {0} /\ supply \in Nat /\ IsMultiple(supply, MAXTIME)
      /\ locked[u] \in Lock /\ IsMultiple(locked[u].amount, MAXTIME)
  BY EscrowConstants DEF TypeOK, LocksOK
<1>2. locked[u].amount \in Nat /\ locked[u].end \in Times \cup {MaxUint}
  BY <1>1 DEF Lock
<1>3. q \in Nat /\ q * MAXTIME <= value /\ value < q * MAXTIME + MAXTIME
  BY <1>1, DivBounds
<1>4. r = q * MAXTIME
  BY DEF RoundedDeposit
<1>5. s - supply = r
  BY <1>1, <1>4, MultiplePlus
<1> HIDE DEF q
<1>6. r \in Nat /\ IsMultiple(r, MAXTIME)
  <2>1. IsMultiple(q * MAXTIME, MAXTIME)
    BY <1>1, <1>3, MultipleOf
  <2>2. q * MAXTIME \in Nat
    BY <1>1, <1>3, SMT
  <2> QED
    BY <1>4, <2>1, <2>2
<1>7. value >= MAXTIME => r > 0
  <2>1. SUFFICES ASSUME value >= MAXTIME, r = 0 PROVE FALSE
    BY <1>6, SMT
  <2> QED
    BY <1>1, <1>3, <1>4, <2>1, SMT
<1>8. value = 0 => r = 0
  BY <1>1, <1>3, <1>4, <1>6, SMT
<1>9. (supply + value) \div MAXTIME \in Nat
  <2>1. supply + value \in Nat
    BY <1>1, SMT
  <2> QED
    BY <1>1, <2>1, DivBounds
<1>10. s \in Nat /\ IsMultiple(s, MAXTIME)
  BY <1>1, <1>9, MultipleOf, SMT
<1> HIDE DEF s, r
<1>0. new = [amount |-> locked[u].amount + r,
             end |-> IF unlock_time # 0 THEN unlock_time ELSE locked[u].end]
  BY DEF Deposited, r
<1>11. /\ r <= wallet[payer]
       /\ supply' = s
       /\ locked' = [locked EXCEPT ![u] = new]
       /\ Checkpoint(u, locked[u], new)
       /\ wallet' = [wallet EXCEPT ![payer] = @ - r]
       /\ held' = held + r
       /\ now' = now
  BY <1>0, <1>5, Zenon DEF DepositFor, s, r
<1>12. new.amount = locked[u].amount + r /\ new \in Lock
  <2>1. locked[u].amount + r \in Nat
    BY <1>2, <1>6, SMT
  <2> QED
    BY <1>0, <1>2, <2>1 DEF Lock
<1>13. IsMultiple(new.amount, MAXTIME)
  <2>1. new.amount \in Nat
    BY <1>12 DEF Lock
  <2> QED
    BY <1>1, <1>2, <1>6, <1>12, <2>1, MultipleSum, Zenon
<1>14. wallet' \in [Users -> Nat] /\ held' \in Nat
  <2>1. wallet \in [Users -> Nat] /\ held \in Nat
    BY DEF TypeOK
  <2>2. wallet[payer] - r \in Nat
    BY <1>6, <1>11, <2>1, SMT
  <2>3. wallet' \in [Users -> Nat]
    BY <1>11, <2>1, <2>2
  <2> QED
    BY <1>6, <1>11, <2>1, <2>3, SMT
<1> QED
  BY <1>6, <1>7, <1>8, <1>10, <1>11, <1>12, <1>13, <1>14 DEF r, MoneyOK, LockBecomes

(* A user who may deposit, extend or toggle has the NFT of a lock. *)
LEMMA HoldersHave ==
    ASSUME TypeOK, LocksOK, NEW u \in Users
    PROVE  /\ locked[u] \in Lock /\ LockOK(locked[u])
           /\ locked[u].amount \in Nat /\ locked[u].end \in Nat
           /\ locked[u].end \in Times \cup {MaxUint}
           /\ u \in nft <=> locked[u].amount > 0
  BY LockNumbers, EscrowConstants, Zenon DEF TypeOK, LocksOK, LockOK

(* Every operation that changes a user's lock relocks it. *)
LEMMA CreateRelocks ==
    ASSUME TypeOK, LocksOK, NEW u \in Users, NEW v \in Values, NEW t \in Times,
           CreateLock(u, v, t)
    PROVE  /\ Relocks(u, [amount |-> RoundedDeposit(v), end |-> RoundToWeek(t)])
           /\ v >= MAXTIME /\ locked[u].amount = 0
           /\ RoundToWeek(t) > now /\ RoundToWeek(t) <= now + MAXTIME
<1> DEFINE end == RoundToWeek(t)
           new == [amount |-> RoundedDeposit(v), end |-> end]
<1>1. v \in Nat /\ now \in Nat /\ t \in Nat
  BY EscrowConstants, LastPointType, SMT DEF Times
<1>2. /\ v >= MAXTIME /\ locked[u].amount = 0 /\ end > now /\ end <= now + MAXTIME
      /\ DepositFor(u, u, v, end) /\ nft' = nft \cup {u}
  BY DEF CreateLock
<1>3. end \in Nat /\ end \in Times /\ end # 0 /\ IsMultiple(end, WEEK)
  <2>1. end \in 0..t /\ IsMultiple(end, WEEK)
    BY <1>1, RoundedTime
  <2> HIDE DEF end
  <2> QED
    BY <1>1, <1>2, <2>1, EscrowConstants, SMT DEF Times
<1>4. v \div MAXTIME \in Nat /\ RoundedDeposit(v) \in Nat
  BY <1>1, EscrowConstants, DivBounds, SMT DEF RoundedDeposit
<1>5. new = Deposited(locked[u], RoundedDeposit(v), end)
  BY <1>2, <1>3, <1>4, SMT DEF Deposited
<1> HIDE DEF end
<1> HIDE DEF new
<1>6. /\ RoundedDeposit(v) > 0
      /\ LockBecomes(u, new)
  BY <1>1, <1>2, <1>3, <1>5, DepositAdds, Zenon
<1>7. new.amount > 0 /\ new.amount # 0 /\ new.end = end
  BY <1>4, <1>6, SMT DEF new
<1>8. Relocks(u, new)
  BY <1>2, <1>3, <1>6, <1>7 DEF Relocks, LockBecomes, LockOK
<1> QED
  BY <1>2, <1>8 DEF new, end

(* increase_amount and deposit_for add to the amount of a live lock. *)
LEMMA IncreaseRelocks ==
    ASSUME TypeOK, LocksOK, NEW p \in Users, NEW u \in Users, NEW v \in Values,
           IncreaseAmount(p, u, v)
    PROVE  /\ Relocks(u, [locked[u] EXCEPT !.amount = @ + RoundedDeposit(v)])
           /\ v >= MAXTIME /\ Live(locked[u], now)
<1> DEFINE new == [locked[u] EXCEPT !.amount = @ + RoundedDeposit(v)]
<1>1. v \in Nat /\ 0 \in Times \cup {MaxUint}
  BY EscrowConstants, SMT DEF Times
<1>2. /\ v >= MAXTIME /\ locked[u].amount > 0 /\ locked[u].end > now
      /\ DepositFor(p, u, v, 0) /\ nft' = nft
  BY DEF IncreaseAmount
<1>3. /\ locked[u] \in Lock /\ LockOK(locked[u])
      /\ locked[u].amount \in Nat /\ locked[u].end \in Nat
      /\ u \in nft <=> locked[u].amount > 0
  BY HoldersHave
<1>4. new = Deposited(locked[u], RoundedDeposit(v), 0)
  BY <1>3 DEF Lock, Deposited
<1>5. new.end = locked[u].end /\ new.amount = locked[u].amount + RoundedDeposit(v)
  BY <1>4 DEF Deposited
<1> HIDE DEF new
<1>6. /\ RoundedDeposit(v) \in Nat
      /\ LockBecomes(u, new)
  BY <1>1, <1>2, <1>4, DepositAdds, Zenon
<1>7. new.amount > 0 /\ new.amount # 0
  BY <1>2, <1>3, <1>5, <1>6, SMT
<1>8. nft' = nft \cup {u}
  BY <1>2, <1>3
<1>9. Relocks(u, new)
  BY <1>2, <1>3, <1>5, <1>6, <1>7, <1>8 DEF Relocks, LockBecomes, LockOK
<1> QED
  BY <1>2, <1>9 DEF new, Live

(* Changing the end alone. *)
LEMMA EndRelocks ==
    ASSUME TypeOK, LocksOK, NEW u \in Users, NEW end \in Times \cup {MaxUint},
           Live(locked[u], now), end > now, end # MaxUint => IsMultiple(end, WEEK),
           DepositFor(u, u, 0, end), nft' = nft
    PROVE  Relocks(u, [locked[u] EXCEPT !.end = end])
<1> DEFINE new == [locked[u] EXCEPT !.end = end]
<1>1. /\ locked[u] \in Lock /\ LockOK(locked[u])
      /\ locked[u].amount \in Nat /\ locked[u].end \in Nat
      /\ u \in nft <=> locked[u].amount > 0
  BY HoldersHave
<1>2. 0 \in Nat /\ end # 0 /\ now \in Nat
  BY LastPointType, EscrowConstants, SMT DEF Times
<1>3. RoundedDeposit(0) = 0
  <2>1. 0 \div MAXTIME = 0
    BY EscrowConstants, SMT
  <2> QED
    BY <2>1, EscrowConstants, SMT DEF RoundedDeposit
<1>4. new = Deposited(locked[u], RoundedDeposit(0), end)
  <2>1. locked[u].amount + 0 = locked[u].amount
    BY <1>1, SMT
  <2> QED
    BY <1>1, <1>2, <1>3, <2>1 DEF Lock, Deposited
<1>5. new.end = end /\ new.amount = locked[u].amount
  BY <1>1 DEF Lock
<1> HIDE DEF new
<1>6. LockBecomes(u, new)
  BY <1>2, <1>4, DepositAdds, Zenon
<1>7. new.amount > 0 /\ new.amount # 0
  BY <1>1, <1>5, SMT DEF Live
<1>8. nft' = nft \cup {u}
  BY <1>1, <1>5, <1>7
<1>9. Relocks(u, new)
  BY <1>5, <1>6, <1>7, <1>8 DEF Relocks, LockBecomes, LockOK
<1> QED
  BY <1>9 DEF new

(* increase_unlock_time moves the end of a live lock. *)
LEMMA ExtendRelocks ==
    ASSUME TypeOK, LocksOK, NEW u \in Users, NEW t \in Times, IncreaseUnlockTime(u, t)
    PROVE  /\ Relocks(u, [locked[u] EXCEPT !.end = RoundToWeek(t)])
           /\ Live(locked[u], now)
           /\ RoundToWeek(t) > locked[u].end /\ RoundToWeek(t) <= now + MAXTIME
<1>1. now \in Nat /\ t \in Nat /\ locked[u].end \in Nat
  BY EscrowConstants, LastPointType, HoldersHave, SMT DEF Times
<1>2. /\ Live(locked[u], now) /\ locked[u].end > now
      /\ RoundToWeek(t) > locked[u].end /\ RoundToWeek(t) <= now + MAXTIME
      /\ DepositFor(u, u, 0, RoundToWeek(t)) /\ nft' = nft
  BY DEF IncreaseUnlockTime, Live
<1>3. RoundToWeek(t) \in Times /\ IsMultiple(RoundToWeek(t), WEEK) /\ RoundToWeek(t) > now
  BY <1>1, <1>2, RoundedTime, EscrowConstants, SMT DEF Times
<1>4. Relocks(u, [locked[u] EXCEPT !.end = RoundToWeek(t)])
  BY <1>2, <1>3, EndRelocks
<1> QED
  BY <1>2, <1>4

(* infinite_lock_toggle moves the end to never, or back to the longest. *)
LEMMA ToggleRelocks ==
    ASSUME TypeOK, LocksOK, NEW u \in Users, InfiniteLockToggle(u)
    PROVE  /\ Relocks(u, [locked[u] EXCEPT
                              !.end = IF @ = MaxUint THEN LongestEnd(now) ELSE MaxUint])
           /\ Live(locked[u], now)
<1> DEFINE end == IF locked[u].end = MaxUint THEN LongestEnd(now) ELSE MaxUint
<1>1. Live(locked[u], now) /\ DepositFor(u, u, 0, end) /\ nft' = nft
  BY DEF InfiniteLockToggle, Live
<1>2. /\ LongestEnd(now) \in Times /\ LongestEnd(now) > now
      /\ IsMultiple(LongestEnd(now), WEEK)
  BY LongestEndOK
<1>3. MaxUint > now
  BY LastPointType, EscrowConstants, SMT
<1>4. end \in Times \cup {MaxUint} /\ end > now /\ (end # MaxUint => IsMultiple(end, WEEK))
  BY <1>2, <1>3
<1>5. [locked[u] EXCEPT !.end = IF @ = MaxUint THEN LongestEnd(now) ELSE MaxUint]
          = [locked[u] EXCEPT !.end = end]
  BY HoldersHave DEF Lock
<1> HIDE DEF end
<1>6. Relocks(u, [locked[u] EXCEPT !.end = end])
  BY <1>1, <1>4, EndRelocks
<1> QED
  BY <1>1, <1>5, <1>6

(* withdraw takes an ended lock away. *)
LEMMA WithdrawRelocks ==
    ASSUME TypeOK, LocksOK, NEW u \in Users, Withdraw(u)
    PROVE  /\ Relocks(u, NoLock)
           /\ locked[u].amount > 0
           /\ now >= locked[u].end
<1> DEFINE v == locked[u].amount
<1>1. /\ locked[u] \in Lock /\ LockOK(locked[u]) /\ v \in Nat
      /\ u \in nft <=> v > 0
  BY HoldersHave
<1>2. /\ now >= locked[u].end /\ v <= supply /\ v <= held
      /\ locked' = [locked EXCEPT ![u] = NoLock]
      /\ supply' = supply - v
      /\ Checkpoint(u, locked[u], NoLock)
      /\ u \in nft /\ nft' = nft \ {u}
      /\ wallet' = [wallet EXCEPT ![u] = @ + v]
      /\ held' = held - v
      /\ now' = now
  BY DEF Withdraw
<1>3. NoLock \in Lock /\ LockOK(NoLock) /\ ~(NoLock.amount > 0)
  <2>1. NoLock \in Lock /\ ~(NoLock.amount > 0) /\ NoLock.amount = 0 /\ NoLock.end = 0
    BY EscrowConstants, SMT DEF NoLock, Lock, Times
  <2>2. IsMultiple(0, MAXTIME) /\ IsMultiple(0, WEEK)
    <3>1. 0 * MAXTIME = 0 /\ 0 * WEEK = 0
      BY EscrowConstants, SMT
    <3> QED
      BY <3>1, MultipleOf, EscrowConstants
  <2> QED
    BY <2>1, <2>2 DEF LockOK
<1>4. supply \in Nat /\ held \in Nat /\ wallet \in [Users -> Nat] /\ IsMultiple(supply, MAXTIME)
  BY DEF TypeOK, LocksOK
<1> HIDE DEF v
<1>5. supply' \in Nat /\ held' \in Nat /\ v + supply' = supply
  BY <1>1, <1>2, <1>4, SMT
<1>6. wallet' \in [Users -> Nat]
  <2>1. wallet[u] + v \in Nat
    BY <1>1, <1>4, SMT
  <2> QED
    BY <1>2, <1>4, <2>1
<1>7. IsMultiple(supply', MAXTIME)
  <2>1. IsMultiple(v, MAXTIME)
    BY <1>1 DEF LockOK, v
  <2> QED
    BY <1>1, <1>4, <1>5, <2>1, EscrowConstants, MultipleMinus, Zenon
<1>8. MoneyOK
  BY <1>5, <1>6, <1>7 DEF MoneyOK
<1> QED
  BY <1>1, <1>2, <1>3, <1>8 DEF Relocks, v

(* A transfer merges two locks that end together: longest ones do. *)
LEMMA TransferMerges ==
    ASSUME TypeOK, LocksOK, NEW owner \in Users, NEW to \in Users, Transfer(owner, to)
    PROVE  /\ Merges(owner, to)
           /\ VeTransferAllowed(owner, to)
<1> DEFINE a == locked[owner].end
           b == locked[to].end
           E == LongestEnd(now)
<1>1. /\ owner \in nft /\ VeTransferAllowed(owner, to) /\ MergePositions(owner, to)
      /\ nft' = nft \ {owner}
      /\ now' = now /\ supply' = supply /\ wallet' = wallet /\ held' = held
      /\ slope_changes' = slope_changes
  BY DEF Transfer
<1>2. /\ owner # to
      /\ a = MaxUint \/ RoundToWeek(a) = E
      /\ b = MaxUint \/ RoundToWeek(b) = E
      /\ RoundToWeek(a) = RoundToWeek(b)
  BY <1>1 DEF VeTransferAllowed, IsLongest
<1>3. /\ a \in Nat /\ b \in Nat
      /\ a # MaxUint => IsMultiple(a, WEEK)
      /\ b # MaxUint => IsMultiple(b, WEEK)
      /\ locked[owner].amount > 0
      /\ locked[to].amount \in Nat
      /\ locked[to].amount = 0 => b = 0
  BY <1>1, HoldersHave DEF LockOK
<1>4. /\ E \in Nat /\ E > now /\ E <= now + MAXTIME /\ now \in Nat /\ now <= MaxTime
      /\ MaxUint \in Nat /\ MaxUint >= MaxTime + MAXTIME + WEEK /\ WEEK \in Nat \ {0}
      /\ MAXTIME \in Nat /\ MaxTime \in Nat
  BY LongestEndOK, LastPointType, EscrowConstants, SMT DEF Times
<1>5. a # MaxUint => RoundToWeek(a) = a
  BY <1>3, RoundedTime
<1>6. b # MaxUint => RoundToWeek(b) = b
  BY <1>3, RoundedTime
<1>7. RoundToWeek(MaxUint) \in Nat /\ MaxUint < RoundToWeek(MaxUint) + WEEK
  BY <1>4, RoundedTime, SMT
<1> HIDE DEF a, b, E
<1>8. RoundToWeek(MaxUint) > E
  BY <1>4, <1>7, SMT
<1>9. a = b /\ b > now
  BY <1>2, <1>3, <1>4, <1>5, <1>6, <1>7, <1>8, SMT
<1>10. locked[to].amount > 0
  BY <1>3, <1>4, <1>9, SMT
<1>11. MoneyOK
  BY <1>1 DEF MoneyOK, TypeOK, LocksOK
<1> QED
  BY <1>1, <1>2, <1>3, <1>9, <1>10, <1>11 DEF Merges, a, b

-----------------------------------------------------------------------------
(***************************************************************************)
(* What a checkpoint does to the histories                                 *)
(***************************************************************************)
\* A user's history is left alone, or followed by a point of the lock as it is.
UserStep(v) ==
    \/ user_point_history'[v] = user_point_history[v] /\ locked'[v] = locked[v]
    \/ user_point_history'[v] = Append(user_point_history[v], PointOf(locked'[v], now))

\* Slope changes that are due are not touched any more.
ScheduleKept ==
    /\ slope_changes' \in [Times \cup {MaxUint} -> Int]
    /\ \A s \in Times : s <= now => slope_changes'[s] = slope_changes[s]

\* The total walks on, to a last point e.
TotalStep(f, e) ==
    /\ Walked(f)
    /\ Grows(f, e)
    /\ e \in Point
    /\ e.ts = WalkTime(WalkWeeks)

\* What all operations have in common.
Checkpoints ==
    /\ now' = now
    /\ user_point_history' \in [Users -> Seq(Point)]
    /\ \A v \in Users : UserStep(v)
    /\ ScheduleKept
    /\ \E f, e : TotalStep(f, e)

(* The point of a lock. *)
LEMMA PointOfType ==
    ASSUME NEW lock \in Lock, now \in Nat
    PROVE  /\ PointOf(lock, now) \in Point
           /\ UserPoint(lock) = PointOf(lock, now)
           /\ PointOf(lock, now).ts = now
           /\ PointOf(lock, now).bias = Bias(lock, now)
           /\ PointOf(lock, now).slope = Slope(lock, now)
<1>1. Bias(lock, now) \in Nat /\ Slope(lock, now) \in Nat
  BY LockNumbers
<1>2. now \in 0..now
  BY SMT
<1> QED
  BY <1>1, <1>2 DEF PointOf, UserPoint, Point

(* Exchanging contributions leaves a point a point. *)
LEMMA ExchangedType ==
    ASSUME NEW p \in Point, NEW a \in Point, NEW b \in Point
    PROVE  /\ Exchanged(p, a, b) \in Point
           /\ Exchanged(p, a, b).ts = p.ts
           /\ Exchanged(p, a, b).slope = Positive(p.slope + (b.slope - a.slope))
           /\ Exchanged(p, a, b).bias = Positive(p.bias + (b.bias - a.bias))
<1>1. /\ p.bias \in Nat /\ p.slope \in Nat /\ a.bias \in Nat /\ a.slope \in Nat
      /\ b.bias \in Nat /\ b.slope \in Nat /\ p.ts \in 0..now
  BY DEF Point
<1>2. p.slope + (b.slope - a.slope) \in Int /\ p.bias + (b.bias - a.bias) \in Int
  BY <1>1, SMT
<1>3. /\ Positive(p.slope + (b.slope - a.slope)) \in Nat
      /\ Positive(p.bias + (b.bias - a.bias)) \in Nat
  BY <1>2, PositiveType
<1> DEFINE x == Positive(p.bias + (b.bias - a.bias))
           y == Positive(p.slope + (b.slope - a.slope))
<1>4. Exchanged(p, a, b) = [p EXCEPT !.slope = y, !.bias = x]
  BY DEF Exchanged, Point
<1> HIDE DEF x, y
<1>5. Exchanged(p, a, b) = [bias |-> x, slope |-> y, ts |-> p.ts]
  BY <1>4 DEF Point
<1>6. x \in Nat /\ y \in Nat
  BY <1>3 DEF x, y
<1> QED
  BY <1>1, <1>5, <1>6 DEF x, y, Point

(* The schedule only changes ahead of now. *)
LEMMA RescheduledKept ==
    ASSUME TypeOK, NEW old \in Lock, NEW new \in Lock,
           slope_changes' = Rescheduled(old, new)
    PROVE  /\ ScheduleKept
           /\ \A s \in Times : slope_changes'[s] =
                  slope_changes[s] + ((IF s = old.end THEN Slope(old, now) ELSE 0)
                                      - (IF s = new.end THEN Slope(new, now) ELSE 0))
<1>1. now \in Nat /\ slope_changes \in [Times \cup {MaxUint} -> Int]
  BY LastPointType DEF TypeOK
<1>2. /\ Slope(old, now) \in Nat /\ Slope(new, now) \in Nat
      /\ old.end \in Nat /\ new.end \in Nat
  BY <1>1, LockNumbers
<1>3. old.end <= now => Slope(old, now) = 0
  BY <1>1, <1>2, SMT DEF Slope, Live
<1>4. new.end <= now => Slope(new, now) = 0
  BY <1>1, <1>2, SMT DEF Slope, Live
<1> DEFINE a(s) == IF s = old.end THEN Slope(old, now) ELSE 0
           b(s) == IF s = new.end THEN Slope(new, now) ELSE 0
<1>5. \A s : a(s) \in Nat /\ b(s) \in Nat
  BY <1>2
<1>6. \A s \in Nat : s <= now => a(s) = 0 /\ b(s) = 0
  BY <1>3, <1>4
<1>7. slope_changes' = [s \in Times \cup {MaxUint} |-> slope_changes[s] + (a(s) - b(s))]
  BY <1>1, Zenon DEF Rescheduled
<1> HIDE DEF a, b
<1>8. \A s \in Times \cup {MaxUint} : slope_changes[s] + (a(s) - b(s)) \in Int
  BY <1>1, <1>5, SMT
<1>9. slope_changes' \in [Times \cup {MaxUint} -> Int]
  BY <1>7, <1>8
<1>10. ASSUME NEW s \in Times, s <= now PROVE slope_changes'[s] = slope_changes[s]
  <2>1. s \in Nat
    BY EscrowConstants, SMT DEF Times
  <2>2. slope_changes'[s] = slope_changes[s] + (a(s) - b(s)) /\ slope_changes[s] \in Int
    BY <1>1, <1>7
  <2>3. a(s) = 0 /\ b(s) = 0
    BY <1>6, <1>10, <2>1
  <2> QED
    BY <2>2, <2>3, SMT
<1> QED
  BY <1>7, <1>9, <1>10 DEF ScheduleKept, a, b

(* _checkpoint of a user. *)
LEMMA CheckpointShape ==
    ASSUME TypeOK, NEW u \in Users, NEW new \in Lock,
           locked' = [locked EXCEPT ![u] = new],
           Checkpoint(u, locked[u], new), now' = now
    PROVE  /\ Checkpoints
           /\ \E f : /\ Walked(f)
                     /\ Grows(f, Exchanged(f[WalkWeeks], PointOf(locked[u], now), PointOf(new, now)))
<1>1. locked[u] \in Lock /\ now \in Nat /\ WalkWeeks \in 1..WalkWeeks
  <2>1. WalkWeeks \in Nat \ {0}
    BY WalkBounds
  <2> QED
    BY <2>1, LastPointType, SMT DEF TypeOK
<1>2. /\ PointOf(locked[u], now) \in Point /\ PointOf(new, now) \in Point
      /\ UserPoint(locked[u]) = PointOf(locked[u], now) /\ UserPoint(new) = PointOf(new, now)
  BY <1>1, PointOfType
<1>3. PICK f : Walked(f) /\ Walk = [k \in 1..WalkWeeks |-> f[k]]
  BY WalkFacts
<1>4. f[WalkWeeks] \in Point /\ f[WalkWeeks].ts = WalkTime(WalkWeeks)
  BY <1>1, <1>3 DEF Walked
<1>5. Last(Walk) = f[WalkWeeks]
  <2>1. \A k \in 1..WalkWeeks : f[k] \in Point
    BY <1>3 DEF Walked
  <2>2. Len(Walk) = WalkWeeks
    BY <1>1, <1>3, <2>1, WalkBounds, SMT
  <2> QED
    BY <1>1, <1>3, <2>2 DEF Last
<1> DEFINE e == Exchanged(f[WalkWeeks], PointOf(locked[u], now), PointOf(new, now))
<1>6. e \in Point /\ e.ts = f[WalkWeeks].ts
  BY <1>2, <1>4, ExchangedType
<1>7. point_history' = point_history \o Front(Walk) \o <<e>>
  BY <1>2, <1>5, Zenon DEF Checkpoint
<1> HIDE DEF e
<1>8. Grows(f, e)
  BY <1>3, <1>6, <1>7, UserGrows, Zenon
<1>9. TotalStep(f, e)
  BY <1>3, <1>4, <1>6, <1>8 DEF TotalStep
<1>10. ScheduleKept
  <2>1. slope_changes' = Rescheduled(locked[u], new)
    BY DEF Checkpoint
  <2> QED
    BY <1>1, <2>1, RescheduledKept
<1>11. user_point_history' = [user_point_history EXCEPT ![u] = Append(@, PointOf(new, now))]
  BY <1>2, Zenon DEF Checkpoint
<1> DEFINE p == PointOf(new, now)
<1>12. user_point_history \in [Users -> Seq(Point)] /\ locked \in [Users -> Lock]
  BY DEF TypeOK
<1>13. user_point_history' \in [Users -> Seq(Point)]
  <2>1. p \in Point
    BY <1>2
  <2> HIDE DEF p
  <2>2. Append(user_point_history[u], p) \in Seq(Point)
    BY <1>12, <2>1
  <2> QED
    BY <1>11, <1>12, <2>2 DEF p
<1>14. ASSUME NEW v \in Users PROVE UserStep(v)
  <2>1. CASE v = u
    <3>1. user_point_history'[u] = Append(user_point_history[u], p) /\ locked'[u] = new
      BY <1>11, <1>12, Zenon
    <3> QED
      BY <2>1, <3>1 DEF UserStep
  <2>2. CASE v # u
    <3>1. user_point_history'[v] = user_point_history[v] /\ locked'[v] = locked[v]
      BY <1>11, <1>12, <2>2, Zenon
    <3> QED
      BY <3>1 DEF UserStep
  <2> QED
    BY <2>1, <2>2
<1> QED
  BY <1>3, <1>8, <1>9, <1>10, <1>13, <1>14 DEF Checkpoints, e

(* A merge writes points of both users, and the total as it is. *)
LEMMA MergeShape ==
    ASSUME TypeOK, NEW owner \in Users, NEW to \in Users, owner # to,
           MergePositions(owner, to), slope_changes' = slope_changes, now' = now
    PROVE  /\ Checkpoints
           /\ \E f : Walked(f) /\ Grows(f, f[WalkWeeks])
           /\ locked' = [locked EXCEPT ![owner] = NoLock,
                                       ![to] = [locked[to] EXCEPT !.amount = @ + locked[owner].amount]]
           /\ locked' \in [Users -> Lock]
           /\ locked'[owner] = NoLock
           /\ locked'[to].amount = locked[to].amount + locked[owner].amount
           /\ locked'[to].end = locked[to].end
           /\ \A v \in Users \ {owner, to} : locked'[v] = locked[v]
<1> DEFINE merged == [locked[to] EXCEPT !.amount = @ + locked[owner].amount]
           pA == [NoPoint EXCEPT !.ts = now]
           pB == PointOf(merged, now)
<1>1. /\ now \in Nat /\ locked \in [Users -> Lock]
      /\ user_point_history \in [Users -> Seq(Point)]
      /\ locked[to] \in Lock /\ locked[owner] \in Lock
  BY LastPointType DEF TypeOK
<1>2. /\ merged \in Lock /\ merged.end = locked[to].end
      /\ merged.amount = locked[to].amount + locked[owner].amount
  <2>1. locked[to].amount \in Nat /\ locked[owner].amount \in Nat
    BY <1>1 DEF Lock
  <2>2. locked[to].amount + locked[owner].amount \in Nat
    BY <2>1, SMT
  <2> QED
    BY <1>1, <2>2 DEF Lock
<1>3. NoLock \in Lock
  BY EscrowConstants, SMT DEF NoLock, Lock, Times
<1>4. pA = PointOf(NoLock, now) /\ pA \in Point
  <2>1. ~Live(NoLock, now)
    BY SMT DEF Live, NoLock
  <2>2. Slope(NoLock, now) = 0 /\ Bias(NoLock, now) = 0 * (0 - now)
    BY <2>1 DEF Slope, Bias, NoLock
  <2>3. Bias(NoLock, now) = 0
    BY <1>1, <2>2, SMT
  <2>4. pA = [bias |-> 0, slope |-> 0, ts |-> now]
    BY DEF NoPoint
  <2> QED
    BY <1>1, <2>2, <2>3, <2>4, SMT DEF PointOf, Point
<1>5. UserPoint(merged) = pB /\ pB \in Point
  BY <1>1, <1>2, PointOfType
<1>6. /\ locked' = [locked EXCEPT ![owner] = NoLock, ![to] = merged]
      /\ user_point_history' = [user_point_history EXCEPT ![owner] = Append(@, pA),
                                                          ![to] = Append(@, UserPoint(merged))]
      /\ CheckpointTotal
  BY Zenon DEF MergePositions
<1>7. user_point_history' = [user_point_history EXCEPT ![owner] = Append(@, pA),
                                                       ![to] = Append(@, pB)]
  BY <1>5, <1>6
<1> HIDE DEF merged, pA, pB
<1>8. PICK f : Walked(f) /\ Walk = [k \in 1..WalkWeeks |-> f[k]]
  BY WalkFacts
<1>9. Grows(f, f[WalkWeeks])
  BY <1>6, <1>8, TotalGrows, Zenon
<1>10. TotalStep(f, f[WalkWeeks])
  <2>1. WalkWeeks \in 1..WalkWeeks
    BY WalkBounds, SMT
  <2> QED
    BY <1>8, <1>9, <2>1 DEF TotalStep, Walked
<1>11. ScheduleKept
  BY DEF TypeOK, ScheduleKept
<1>12. /\ locked'[owner] = NoLock /\ locked'[to] = merged
       /\ \A v \in Users \ {owner, to} : locked'[v] = locked[v]
       /\ locked' \in [Users -> Lock]
  BY <1>1, <1>2, <1>3, <1>6
<1>13. /\ user_point_history'[owner] = Append(user_point_history[owner], pA)
       /\ user_point_history'[to] = Append(user_point_history[to], pB)
       /\ \A v \in Users \ {owner, to} : user_point_history'[v] = user_point_history[v]
  BY <1>1, <1>7
<1>14. user_point_history' \in [Users -> Seq(Point)]
  <2>1. /\ Append(user_point_history[owner], pA) \in Seq(Point)
        /\ Append(user_point_history[to], pB) \in Seq(Point)
    BY <1>1, <1>4, <1>5
  <2> QED
    BY <1>1, <1>7, <2>1
<1>15. \A v \in Users : UserStep(v)
  <2>1. UserStep(owner)
    BY <1>4, <1>12, <1>13 DEF UserStep
  <2>2. UserStep(to)
    BY <1>12, <1>13 DEF UserStep, pB
  <2>3. \A v \in Users \ {owner, to} : UserStep(v)
    BY <1>12, <1>13 DEF UserStep
  <2> QED
    BY <2>1, <2>2, <2>3
<1>16. Checkpoints
  BY <1>10, <1>11, <1>14, <1>15 DEF Checkpoints
<1>17. locked' = [locked EXCEPT ![owner] = NoLock,
                                ![to] = [locked[to] EXCEPT !.amount = @ + locked[owner].amount]]
  BY <1>6 DEF merged
<1> QED
  BY <1>2, <1>8, <1>9, <1>12, <1>16, <1>17

(* checkpoint() *)
LEMMA CallShape ==
    ASSUME TypeOK, CheckpointCall
    PROVE  /\ Checkpoints
           /\ \E f : Walked(f) /\ Grows(f, f[WalkWeeks])
           /\ UNCHANGED <<now, locked, supply, nft, wallet, held, user_point_history,
                          slope_changes>>
<1>1. /\ CheckpointTotal /\ now' = now /\ slope_changes' = slope_changes
      /\ user_point_history' = user_point_history /\ locked' = locked
      /\ supply' = supply /\ nft' = nft /\ wallet' = wallet /\ held' = held
  BY DEF CheckpointCall
<1>2. PICK f : Walked(f) /\ Walk = [k \in 1..WalkWeeks |-> f[k]]
  BY WalkFacts
<1>3. Grows(f, f[WalkWeeks])
  BY <1>1, <1>2, TotalGrows, Zenon
<1>4. TotalStep(f, f[WalkWeeks])
  <2>1. WalkWeeks \in 1..WalkWeeks
    BY WalkBounds, SMT
  <2> QED
    BY <1>2, <1>3, <2>1 DEF TotalStep, Walked
<1>5. ScheduleKept
  BY <1>1 DEF TypeOK, ScheduleKept
<1>6. \A v \in Users : UserStep(v)
  BY <1>1 DEF UserStep
<1> QED
  BY <1>1, <1>2, <1>3, <1>4, <1>5, <1>6 DEF Checkpoints, TypeOK

-----------------------------------------------------------------------------
(***************************************************************************)
(* Locks, points and histories stay in order                               *)
(***************************************************************************)
(* The history goes on at the times of the walk; the first walk of all has
   one step. *)
LEMMA HistoryGoesOn ==
    ASSUME TypeOK, HistoryOK, NEW f, NEW e, TotalStep(f, e)
    PROVE  /\ Len(point_history) \in Nat \ {0} /\ WalkWeeks \in Nat \ {0}
           /\ Len(point_history') = Len(point_history) + WalkWeeks
           /\ point_history' \in Seq(Point)
           /\ \A i \in 1..Len(point_history) : point_history'[i] = point_history[i]
           /\ \A k \in 1..WalkWeeks :
                  /\ point_history'[Len(point_history) + k].ts = WalkTime(k)
                  /\ point_history'[Len(point_history) + k] \in Point
           /\ Len(point_history) = 1 => WalkWeeks = 1 /\ WalkTime(1) = now
<1> DEFINE n == Len(point_history)
<1>1. n \in Nat \ {0} /\ WalkWeeks \in Nat \ {0}
  <2>1. n \in Nat
    BY DEF TypeOK
  <2> QED
    BY <2>1, WalkBounds, SMT DEF HistoryOK
<1>2. /\ Len(point_history') = n + WalkWeeks
      /\ point_history' \in Seq(Point)
      /\ \A i \in 1..n : point_history'[i] = point_history[i]
      /\ \A k \in 1..WalkWeeks - 1 : point_history'[n + k] = f[k]
      /\ point_history'[n + WalkWeeks] = e
      /\ e.ts = WalkTime(WalkWeeks) /\ e \in Point
  BY DEF TotalStep, Grows
<1>3. \A k \in 1..WalkWeeks : f[k].ts = WalkTime(k) /\ f[k] \in Point
  BY DEF TotalStep, Walked
<1> HIDE DEF n
<1>4. ASSUME NEW k \in 1..WalkWeeks
      PROVE  point_history'[n + k].ts = WalkTime(k) /\ point_history'[n + k] \in Point
  <2>1. CASE k = WalkWeeks
    BY <1>2, <2>1
  <2>2. CASE k # WalkWeeks
    <3>1. k \in 1..WalkWeeks - 1
      BY <1>1, <2>2, SMT
    <3> QED
      BY <1>2, <1>3, <3>1
  <2> QED
    BY <2>1, <2>2
<1>5. ASSUME n = 1 PROVE WalkWeeks = 1 /\ WalkTime(1) = now
  <2>1. LastPoint.ts = now
    BY <1>5, LastPointType, SMT DEF n
  <2>2. WalkWeeks = 1 /\ 1 \in 1..WalkWeeks
    BY <2>1, WalkBounds, SMT
  <2>3. WalkTime(1) \in 0..now /\ LastPoint.ts <= WalkTime(1)
    BY <2>2, WalkTimes
  <2> QED
    BY <2>1, <2>2, <2>3, LastPointType, SMT
<1> QED
  BY <1>1, <1>2, <1>4, <1>5 DEF n

(* A walk keeps the points of the total in order, a week apart at most. *)
LEMMA HistoryKept ==
    ASSUME TypeOK, HistoryOK, now' = now, ScheduleKept, NEW f, NEW e, TotalStep(f, e)
    PROVE  HistoryOK'
<1> DEFINE n == Len(point_history)
<1>1. /\ n \in Nat \ {0} /\ WalkWeeks \in Nat \ {0} /\ Len(point_history') = n + WalkWeeks
      /\ \A i \in 1..n : point_history'[i] = point_history[i]
      /\ \A k \in 1..WalkWeeks : point_history'[n + k].ts = WalkTime(k)
      /\ n = 1 => WalkWeeks = 1 /\ WalkTime(1) = now
  BY HistoryGoesOn
<1>2. /\ point_history[1] = [NoPoint EXCEPT !.ts = StartTime]
      /\ \A i \in 2 .. n - 1 : point_history[i + 1].ts <= point_history[i].ts + WEEK
      /\ \A s \in Times : n = 1 \/ s <= point_history[2].ts => slope_changes[s] = 0
  BY DEF HistoryOK
<1>3. n > 1 => LastPoint = point_history[n]
  BY LastPointType
<1>4. n > 1 => point_history[2].ts \in 0..now
  <2>1. SUFFICES ASSUME n > 1 PROVE point_history[2].ts \in 0..now
    OBVIOUS
  <2>2. 2 \in 1..n /\ point_history \in Seq(Point)
    BY <1>1, <2>1, SMT DEF TypeOK
  <2>3. point_history[2] \in Point
    BY <2>2, ElementOfSeq
  <2> QED
    BY <2>3 DEF Point
<1>5. now \in Nat
  BY LastPointType
<1> HIDE DEF n
<1>6. Len(point_history') > 0 /\ point_history'[1] = [NoPoint EXCEPT !.ts = StartTime]
  BY <1>1, <1>2, SMT
<1>7. ASSUME NEW i \in 2 .. n + WalkWeeks - 1
      PROVE  point_history'[i + 1].ts <= point_history'[i].ts + WEEK
  <2>1. CASE i < n
    <3>1. i \in 1..n /\ i + 1 \in 1..n /\ i \in 2 .. n - 1
      BY <1>1, <2>1, SMT
    <3> QED
      BY <1>1, <1>2, <3>1
  <2>2. CASE i = n
    <3>1. n \in 1..n /\ n > 1 /\ 1 \in 1..WalkWeeks
      BY <1>1, <2>2, SMT
    <3>2. WalkTime(1) <= LastPoint.ts + WEEK
      BY <3>1, WalkTimes
    <3> QED
      BY <1>1, <1>3, <2>2, <3>1, <3>2
  <2>3. CASE i > n
    <3>1. PICK k \in 1..WalkWeeks : i + 1 = n + k /\ k > 1
      BY <1>1, <2>3, SMT
    <3>2. k - 1 \in 1..WalkWeeks /\ i = n + (k - 1)
      BY <1>1, <3>1, SMT
    <3>3. WalkTime(k) <= WalkTime(k - 1) + WEEK
      BY <3>1, WalkTimes
    <3>4. point_history'[i].ts = WalkTime(k - 1)
      BY <1>1, <3>2
    <3>5. point_history'[i + 1].ts = WalkTime(k)
      BY <1>1, <3>1
    <3> QED
      BY <3>3, <3>4, <3>5
  <2> QED
    BY <1>1, <2>1, <2>2, <2>3, SMT
<1>8. ASSUME NEW s \in Times, Len(point_history') = 1 \/ s <= point_history'[2].ts
      PROVE  slope_changes'[s] = 0
  <2>1. s <= point_history'[2].ts
    BY <1>1, <1>8, SMT
  <2>2. CASE n = 1
    <3>1. 1 \in 1..WalkWeeks /\ n + 1 = 2
      BY <1>1, <2>2, SMT
    <3>2. point_history'[2].ts = now
      BY <1>1, <2>2, <3>1
    <3> QED
      BY <1>2, <2>1, <2>2, <3>2 DEF ScheduleKept
  <2>3. CASE n # 1
    <3>1. 2 \in 1..n /\ n > 1
      BY <1>1, <2>3, SMT
    <3>2. point_history'[2] = point_history[2]
      BY <1>1, <3>1
    <3>3. s <= point_history[2].ts /\ s <= now
      BY <1>4, <1>5, <2>1, <3>1, <3>2, EscrowConstants, SMT DEF Times
    <3> QED
      BY <1>2, <3>3 DEF ScheduleKept
  <2> QED
    BY <2>2, <2>3
<1> QED
  BY <1>1, <1>6, <1>7, <1>8 DEF HistoryOK

(* A user's last point is of the lock as it is. *)
LEMMA UsersKept ==
    ASSUME TypeOK, UsersCurrent, \A v \in Users : UserStep(v)
    PROVE  UsersCurrent'
<1> SUFFICES ASSUME NEW u \in Users
             PROVE  /\ Len(user_point_history'[u]) > 0
                    /\ user_point_history'[u][1] = NoPoint
                    /\ Last(user_point_history'[u])
                           = PointOf(locked'[u], Last(user_point_history'[u]).ts)
  BY DEF UsersCurrent, NoPoint
<1> DEFINE h == user_point_history[u]
           p == PointOf(locked'[u], now)
<1>1. h \in Seq(Point) /\ Len(h) > 0 /\ h[1] = NoPoint
      /\ Last(h) = PointOf(locked[u], Last(h).ts)
  BY DEF TypeOK, UsersCurrent
<1>2. CASE user_point_history'[u] = h /\ locked'[u] = locked[u]
  BY <1>1, <1>2
<1>3. CASE user_point_history'[u] = Append(h, p)
  <2>1. p.ts = now
    BY DEF PointOf
  <2> HIDE DEF p, h
  <2>2. /\ Len(Append(h, p)) = Len(h) + 1
        /\ Append(h, p)[1] = h[1]
        /\ Append(h, p)[Len(h) + 1] = p
    BY <1>1, AppendProperties, SMT
  <2>3. Last(Append(h, p)) = p
    BY <2>2 DEF Last
  <2>4. Len(h) + 1 > 0
    BY <1>1, SMT
  <2> QED
    BY <1>1, <1>3, <2>1, <2>2, <2>3, <2>4 DEF p
<1> QED
  BY <1>2, <1>3 DEF UserStep

(* A checkpoint with the locks and tokens in order. *)
LEMMA CheckpointsKeep ==
    ASSUME EscrowInv, Checkpoints, MoneyOK, locked' \in [Users -> Lock], nft' \subseteq Users,
           \A u \in Users : LockOK(locked'[u]) /\ (u \in nft' <=> locked'[u].amount > 0)
    PROVE  EscrowInv'
<1>1. PICK f, e : TotalStep(f, e)
  BY DEF Checkpoints
<1>2. /\ TypeOK /\ LocksOK /\ UsersCurrent /\ HistoryOK
      /\ now' = now /\ ScheduleKept /\ \A v \in Users : UserStep(v)
      /\ user_point_history' \in [Users -> Seq(Point)]
  BY DEF EscrowInv, Checkpoints
<1>3. HistoryOK'
  BY <1>1, <1>2, HistoryKept
<1>4. UsersCurrent'
  BY <1>2, UsersKept
<1>5. LocksOK'
  BY DEF LocksOK, LockOK, MoneyOK, IsMultiple
<1>6. TypeOK'
  <2>1. Point' = Point
    BY <1>2 DEF Point
  <2>2. point_history' \in Seq(Point)
    BY <1>1, <1>2, HistoryGoesOn
  <2>3. now' \in 0..MaxTime
    BY <1>2 DEF TypeOK
  <2>4. slope_changes' \in [Times \cup {MaxUint} -> Int]
    BY <1>2 DEF ScheduleKept
  <2> QED
    BY <1>2, <2>1, <2>2, <2>3, <2>4 DEF TypeOK, MoneyOK
<1> QED
  BY <1>3, <1>4, <1>5, <1>6 DEF EscrowInv

(* A user's lock becomes another one. *)
LEMMA RelocksKeep ==
    ASSUME EscrowInv, NEW u \in Users, NEW new, Relocks(u, new)
    PROVE  EscrowInv'
<1>1. /\ new \in Lock /\ LockOK(new)
      /\ locked' = [locked EXCEPT ![u] = new]
      /\ Checkpoint(u, locked[u], new)
      /\ nft' = IF new.amount > 0 THEN nft \cup {u} ELSE nft \ {u}
      /\ now' = now
      /\ MoneyOK
  BY DEF Relocks
<1>2. /\ TypeOK /\ LocksOK /\ locked \in [Users -> Lock] /\ nft \subseteq Users
  BY DEF EscrowInv, TypeOK
<1>3. Checkpoints
  BY <1>1, <1>2, CheckpointShape
<1>4. locked' \in [Users -> Lock] /\ nft' \subseteq Users
  BY <1>1, <1>2
<1>5. ASSUME NEW v \in Users
      PROVE  LockOK(locked'[v]) /\ (v \in nft' <=> locked'[v].amount > 0)
  <2>1. LockOK(locked[v]) /\ (v \in nft <=> locked[v].amount > 0)
    BY <1>2, HoldersHave
  <2>2. locked'[v] = IF v = u THEN new ELSE locked[v]
    BY <1>1, <1>2
  <2> QED
    BY <1>1, <2>1, <2>2
<1> QED
  BY <1>1, <1>3, <1>4, <1>5, CheckpointsKeep

(* A lock moves into another one. *)
LEMMA MergeKeeps ==
    ASSUME EscrowInv, NEW owner \in Users, NEW to \in Users, Merges(owner, to)
    PROVE  EscrowInv'
<1>1. /\ owner # to
      /\ locked[owner].amount > 0 /\ locked[to].amount > 0
      /\ locked[owner].end = locked[to].end /\ locked[to].end > now
      /\ MergePositions(owner, to)
      /\ nft' = nft \ {owner}
      /\ now' = now /\ slope_changes' = slope_changes
      /\ MoneyOK
  BY DEF Merges
<1>2. TypeOK /\ LocksOK /\ nft \subseteq Users
  BY DEF EscrowInv, TypeOK
<1>3. /\ Checkpoints
      /\ locked' \in [Users -> Lock]
      /\ locked'[owner] = NoLock
      /\ locked'[to].amount = locked[to].amount + locked[owner].amount
      /\ locked'[to].end = locked[to].end
      /\ \A v \in Users \ {owner, to} : locked'[v] = locked[v]
  BY <1>1, <1>2, MergeShape
<1>4. \A v \in Users : /\ LockOK(locked[v]) /\ (v \in nft <=> locked[v].amount > 0)
                       /\ locked[v].amount \in Nat /\ locked[v].end \in Nat
  BY <1>2, HoldersHave
<1>5. LockOK(locked'[owner]) /\ (owner \in nft' <=> locked'[owner].amount > 0)
  <2>1. IsMultiple(0, MAXTIME) /\ IsMultiple(0, WEEK)
    <3>1. 0 * MAXTIME = 0 /\ 0 * WEEK = 0
      BY EscrowConstants, SMT
    <3> QED
      BY <3>1, MultipleOf, EscrowConstants
  <2>2. NoLock.amount = 0 /\ NoLock.end = 0 /\ ~(0 > 0)
    BY SMT DEF NoLock
  <2> QED
    BY <1>1, <1>3, <2>1, <2>2 DEF LockOK
<1>6. LockOK(locked'[to]) /\ (to \in nft' <=> locked'[to].amount > 0)
  <2>1. locked'[to].amount \in Nat /\ locked'[to].amount > 0 /\ locked'[to].amount # 0
    BY <1>1, <1>3, <1>4, SMT
  <2>2. IsMultiple(locked'[to].amount, MAXTIME)
    <3>1. /\ locked[to].amount \in Nat /\ IsMultiple(locked[to].amount, MAXTIME)
          /\ locked[owner].amount \in Nat /\ IsMultiple(locked[owner].amount, MAXTIME)
          /\ MAXTIME \in Nat \ {0}
      BY <1>4, EscrowConstants DEF LockOK
    <3> QED
      BY <1>3, <2>1, <3>1, MultipleSum, Zenon
  <2>3. to \in nft'
    BY <1>1, <1>4
  <2> QED
    BY <1>3, <1>4, <2>1, <2>2, <2>3 DEF LockOK
<1>7. \A v \in Users \ {owner, to} : LockOK(locked'[v]) /\ (v \in nft' <=> locked'[v].amount > 0)
  BY <1>1, <1>3, <1>4
<1>8. nft' \subseteq Users
  BY <1>1, <1>2
<1> QED
  BY <1>1, <1>3, <1>5, <1>6, <1>7, <1>8, CheckpointsKeep

(* The clock leaves all but itself. *)
LEMMA TickKeeps ==
    ASSUME EscrowInv, Tick
    PROVE  EscrowInv'
<1>1. /\ now < MaxTime /\ now' = now + 1
      /\ UNCHANGED <<locked, supply, nft, wallet, held, point_history,
                     user_point_history, slope_changes>>
  BY DEF Tick
<1>2. TypeOK /\ LocksOK /\ UsersCurrent /\ HistoryOK
  BY DEF EscrowInv
<1>3. LocksOK' /\ UsersCurrent' /\ HistoryOK'
  <2>1. LocksOK'
    BY <1>1, <1>2 DEF LocksOK
  <2>2. UsersCurrent'
    BY <1>1, <1>2 DEF UsersCurrent
  <2>3. HistoryOK'
    BY <1>1, <1>2 DEF HistoryOK
  <2> QED
    BY <2>1, <2>2, <2>3
<1>4. now \in Nat /\ now' \in 0..MaxTime
  BY <1>1, <1>2, LastPointType, EscrowConstants, SMT
<1>5. Point \subseteq Point'
  <2>1. 0..now \subseteq 0..now'
    BY <1>1, <1>4, SMT
  <2> QED
    BY <2>1 DEF Point
<1>6. \A s \in Seq(Point) : s \in Seq(Point')
  BY <1>5, SMT
<1>7. point_history' \in Seq(Point') /\ user_point_history' \in [Users -> Seq(Point')]
  BY <1>1, <1>2, <1>6 DEF TypeOK
<1>8. TypeOK'
  BY <1>1, <1>2, <1>4, <1>7 DEF TypeOK
<1> QED
  BY <1>3, <1>8 DEF EscrowInv

(* checkpoint() leaves all but the total. *)
LEMMA CallKeeps ==
    ASSUME EscrowInv, CheckpointCall
    PROVE  EscrowInv'
<1>1. TypeOK /\ LocksOK
  BY DEF EscrowInv
<1>2. Checkpoints /\ UNCHANGED <<now, locked, supply, nft, wallet, held, user_point_history,
                                 slope_changes>>
  BY <1>1, CallShape
<1>3. MoneyOK
  BY <1>1, <1>2 DEF MoneyOK, TypeOK, LocksOK
<1>4. \A u \in Users : LockOK(locked'[u]) /\ (u \in nft' <=> locked'[u].amount > 0)
  BY <1>1, <1>2, HoldersHave
<1>5. locked' \in [Users -> Lock] /\ nft' \subseteq Users
  BY <1>1, <1>2 DEF TypeOK
<1> QED
  BY <1>2, <1>3, <1>4, <1>5, CheckpointsKeep

(* Locks, points and histories are in order from the start. *)
LEMMA EscrowInvInit ==
    ASSUME Init
    PROVE  EscrowInv
<1> DEFINE p0 == [NoPoint EXCEPT !.ts = StartTime]
<1>1. /\ now = StartTime
      /\ locked = [u \in Users |-> NoLock]
      /\ supply = 0 /\ nft = {} /\ wallet = [u \in Users |-> Funds] /\ held = 0
      /\ point_history = <<p0>>
      /\ user_point_history = [u \in Users |-> <<NoPoint>>]
      /\ slope_changes = [t \in Times \cup {MaxUint} |-> 0]
  BY DEF Init
<1>2. /\ StartTime \in Nat /\ StartTime <= MaxTime /\ MaxTime \in Nat /\ Funds \in Nat
      /\ MAXTIME \in Nat \ {0} /\ WEEK \in Nat \ {0}
  BY EscrowConstants
<1>3. NoLock \in Lock /\ NoLock.amount = 0 /\ NoLock.end = 0
  BY <1>2, SMT DEF NoLock, Lock, Times
<1>4. IsMultiple(0, MAXTIME) /\ IsMultiple(0, WEEK)
  <2>1. 0 * MAXTIME = 0 /\ 0 * WEEK = 0
    BY <1>2, SMT
  <2> QED
    BY <1>2, <2>1, MultipleOf
<1>5. p0 \in Point /\ NoPoint \in Point
  BY <1>1, <1>2, SMT DEF Point, NoPoint
<1>6. TypeOK
  <2>1. now \in 0..MaxTime
    BY <1>1, <1>2, SMT
  <2> HIDE DEF p0
  <2>2. point_history \in Seq(Point) /\ user_point_history \in [Users -> Seq(Point)]
    BY <1>1, <1>5, SMT
  <2>3. slope_changes \in [Times \cup {MaxUint} -> Int]
    BY <1>1, SMT
  <2> QED
    BY <1>1, <1>2, <1>3, <2>1, <2>2, <2>3 DEF TypeOK
<1>7. LocksOK
  <2>1. \A u \in Users : locked[u] = NoLock /\ u \notin nft
    BY <1>1
  <2> QED
    BY <1>1, <1>3, <1>4, <2>1 DEF LocksOK
<1>8. UsersCurrent
  <2>1. ASSUME NEW u \in Users
        PROVE  /\ Len(user_point_history[u]) > 0
               /\ user_point_history[u][1] = NoPoint
               /\ Last(user_point_history[u]) = PointOf(locked[u], Last(user_point_history[u]).ts)
    <3>1. user_point_history[u] = <<NoPoint>> /\ locked[u] = NoLock
      BY <1>1
    <3> DEFINE h == <<NoPoint>>
    <3>2. Len(h) = 1 /\ h[1] = NoPoint /\ Len(h) > 0
      BY SMT
    <3>3. Last(h) = NoPoint
      BY <3>2 DEF Last
    <3>4. NoPoint = PointOf(NoLock, NoPoint.ts)
      <4>1. NoPoint.ts = 0
        BY DEF NoPoint
      <4>2. ~Live(NoLock, 0)
        BY SMT DEF Live, NoLock
      <4>3. Slope(NoLock, 0) = 0 /\ Bias(NoLock, 0) = 0 * (0 - 0)
        BY <4>2 DEF Slope, Bias, NoLock
      <4>4. Bias(NoLock, 0) = 0
        BY <4>3, SMT
      <4> QED
        BY <4>1, <4>3, <4>4 DEF PointOf, NoPoint
    <3> QED
      BY <3>1, <3>2, <3>3, <3>4
  <2> QED
    BY <2>1 DEF UsersCurrent
<1>9. HistoryOK
  <2>1. Len(<<p0>>) = 1 /\ <<p0>>[1] = p0
    BY SMT
  <2>2. \A i \in 2 .. 1 - 1 : FALSE
    BY SMT
  <2> QED
    BY <1>1, <2>1, <2>2, SMT DEF HistoryOK
<1> QED
  BY <1>6, <1>7, <1>8, <1>9 DEF EscrowInv

(* Every step is a relock, a merge, a checkpoint or a tick. *)
LEMMA EscrowInvStep ==
    ASSUME EscrowInv, [Next]_vars
    PROVE  EscrowInv'
<1>0. TypeOK /\ LocksOK
  BY DEF EscrowInv
<1>1. CASE Operation
  <2>1. ASSUME NEW u \in Users, NEW v \in Values, NEW t \in Times, CreateLock(u, v, t)
        PROVE  EscrowInv'
    BY <1>0, <2>1, CreateRelocks, RelocksKeep
  <2>2. ASSUME NEW p \in Users, NEW u \in Users, NEW v \in Values, IncreaseAmount(p, u, v)
        PROVE  EscrowInv'
    BY <1>0, <2>2, IncreaseRelocks, RelocksKeep
  <2>3. ASSUME NEW u \in Users, NEW t \in Times, IncreaseUnlockTime(u, t)
        PROVE  EscrowInv'
    BY <1>0, <2>3, ExtendRelocks, RelocksKeep
  <2>4. ASSUME NEW u \in Users, InfiniteLockToggle(u)
        PROVE  EscrowInv'
    BY <1>0, <2>4, ToggleRelocks, RelocksKeep
  <2>5. ASSUME NEW u \in Users, Withdraw(u)
        PROVE  EscrowInv'
    BY <1>0, <2>5, WithdrawRelocks, RelocksKeep
  <2>6. ASSUME NEW owner \in Users, NEW to \in Users, Transfer(owner, to)
        PROVE  EscrowInv'
    BY <1>0, <2>6, TransferMerges, MergeKeeps
  <2>7. CASE CheckpointCall
    BY <2>7, CallKeeps
  <2> QED
    BY <1>1, <2>1, <2>2, <2>3, <2>4, <2>5, <2>6, <2>7 DEF Operation
<1>2. CASE Tick
  BY <1>2, TickKeeps
<1>3. CASE vars' = vars
  <2>1. UNCHANGED <<now, locked, supply, nft, wallet, held, point_history,
                    user_point_history, slope_changes>>
    BY <1>3 DEF vars
  <2>2. Point' = Point
    BY <2>1 DEF Point
  <2> QED
    BY <2>1, <2>2 DEF EscrowInv, TypeOK, LocksOK, UsersCurrent, HistoryOK
<1> QED
  BY <1>1, <1>2, <1>3 DEF Next

(* The type invariant, multiples, NFTs and points are as they should be, after
   any operations. *)
THEOREM EscrowInvariant == Spec => []EscrowInv
<1>1. Init => EscrowInv
  BY EscrowInvInit
<1>2. EscrowInv /\ [Next]_vars => EscrowInv'
  BY EscrowInvStep
<1> QED
  BY <1>1, <1>2, PTL DEF Spec

-----------------------------------------------------------------------------
(***************************************************************************)
(* The contract implements VeLocks                                         *)
(***************************************************************************)
(* Votes read from the last point of a user are the weight of the lock. *)
LEMMA VotesAreWeights ==
    ASSUME EscrowInv, NEW u \in Users
    PROVE  getVotes(u) = Bias(locked[u], now)
<1> DEFINE h == user_point_history[u]
           p == Last(h)
<1>1. TypeOK /\ h \in Seq(Point) /\ Len(h) > 0 /\ p = PointOf(locked[u], p.ts)
  BY DEF EscrowInv, TypeOK, UsersCurrent
<1>2. locked[u] \in Lock /\ now \in Nat /\ now < MaxUint
  BY <1>1, LastPointType, EscrowConstants, SMT DEF TypeOK
<1>3. p.ts \in Nat /\ p.ts <= now
  <2>1. p \in Point
    BY <1>1, SMT DEF Last
  <2> HIDE DEF p
  <2> QED
    BY <1>2, <2>1, SMT DEF Point
<1>4. p.bias = Bias(locked[u], p.ts) /\ p.slope = Slope(locked[u], p.ts)
  BY <1>1 DEF PointOf
<1>5. getVotes(u) = Positive(p.bias - p.slope * (now - p.ts))
  BY DEF getVotes
<1> HIDE DEF p
<1>6. Positive(Bias(locked[u], p.ts) - Slope(locked[u], p.ts) * (now - p.ts))
        = Bias(locked[u], now)
  BY <1>2, <1>3, LockLine
<1> QED
  BY <1>4, <1>5, <1>6

\* The votes of VeLocks.
Votes == [u \in Users |-> getVotes(u)]

(* All users' votes are the weights of their locks. *)
LEMMA VotesWeigh == EscrowInv => Votes = [u \in Users |-> Bias(locked[u], now)]
  BY VotesAreWeights DEF Votes

(* After a step they are, too. *)
LEMMA NextVotesWeigh == EscrowInv' => Votes' = [u \in Users |-> Bias(locked'[u], now')]
<1>1. (EscrowInv => Votes = [u \in Users |-> Bias(locked[u], now)])'
  BY VotesWeigh, PTL
<1> QED
  BY <1>1

(* The instance weighs locks the same. *)
LEMMA SameWeights ==
    ASSUME NEW locks, NEW t
    PROVE  Locks!Weighed(locks, t) = [u \in Users |-> Bias(locks[u], t)]
<1>1. \A l, r : Locks!Live(l, r) = Live(l, r)
  BY DEF Locks!Live, Live
<1>2. \A l, r : Locks!Slope(l, r) = Slope(l, r)
  BY <1>1 DEF Locks!Slope, Slope
<1>3. \A l, r : Locks!Bias(l, r) = Bias(l, r)
  BY <1>1, <1>2 DEF Locks!Bias, Bias
<1> QED
  BY <1>3 DEF Locks!Weighed

(* Locks that change leave the votes in step. *)
LEMMA LocksBecome ==
    ASSUME EscrowInv', now' = now, NEW locks, locked' = locks
    PROVE  Locks!Becomes(locks)
<1>1. Votes' = [u \in Users |-> Bias(locked'[u], now')]
  BY NextVotesWeigh
<1>2. Votes' = Locks!Weighed(locks, now)
  BY <1>1, SameWeights, Zenon
<1> QED
  BY <1>2 DEF Locks!Becomes, Votes

(* The initial states are those of VeLocks. *)
LEMMA MapsToInit ==
    ASSUME Init
    PROVE  Locks!VeInit
<1>1. EscrowInv
  BY EscrowInvInit
<1>2. now = StartTime /\ locked = [u \in Users |-> NoLock]
  BY DEF Init
<1>3. ASSUME NEW u \in Users PROVE Bias(locked[u], now) = 0
  <2>1. ~Live(NoLock, now)
    BY SMT DEF Live, NoLock
  <2>2. Bias(NoLock, now) = 0 * (0 - now)
    BY <2>1 DEF Slope, Bias, NoLock
  <2>3. now \in Nat
    BY <1>2, EscrowConstants
  <2> QED
    BY <1>2, <2>2, <2>3, SMT
<1>4. Votes = [u \in Users |-> 0]
  BY <1>1, <1>3, VotesWeigh
<1>5. Locks!NoLock = NoLock
  BY DEF Locks!NoLock, NoLock
<1> QED
  BY <1>2, <1>4, <1>5 DEF Locks!VeInit, Votes

(* Every step is a step of VeLocks or leaves its variables alone. *)
LEMMA MapsToStep ==
    ASSUME EscrowInv, EscrowInv', [Next]_vars
    PROVE  [Locks!VeNext]_Locks!veVars
<1>0. TypeOK /\ LocksOK /\ locked \in [Users -> Lock]
  BY DEF EscrowInv, TypeOK
<1>1. ASSUME NEW u \in Users, NEW v \in Values, NEW t \in Times, CreateLock(u, v, t)
      PROVE  Locks!CreateLock(u, v, t)
  <2> DEFINE new == [amount |-> RoundedDeposit(v), end |-> RoundToWeek(t)]
  <2>1. /\ Relocks(u, new) /\ v >= MAXTIME /\ locked[u].amount = 0
        /\ RoundToWeek(t) > now /\ RoundToWeek(t) <= now + MAXTIME
    BY <1>0, <1>1, CreateRelocks
  <2>2. locked' = [locked EXCEPT ![u] = new] /\ now' = now
    BY <2>1 DEF Relocks
  <2>3. Locks!Becomes([locked EXCEPT ![u] = new])
    BY <2>2, LocksBecome, Zenon
  <2>4. Locks!RoundToWeek(t) = RoundToWeek(t) /\ Locks!Rounded(v) = RoundedDeposit(v)
    BY DEF Locks!RoundToWeek, RoundToWeek, Locks!Rounded, RoundedDeposit
  <2> QED
    BY <2>1, <2>3, <2>4 DEF Locks!CreateLock
<1>2. ASSUME NEW p \in Users, NEW u \in Users, NEW v \in Values, IncreaseAmount(p, u, v)
      PROVE  Locks!IncreaseAmount(u, v)
  <2> DEFINE new == [locked[u] EXCEPT !.amount = @ + RoundedDeposit(v)]
  <2>1. Relocks(u, new) /\ v >= MAXTIME /\ Live(locked[u], now)
    BY <1>0, <1>2, IncreaseRelocks
  <2>2. locked' = [locked EXCEPT ![u] = new] /\ now' = now
    BY <2>1 DEF Relocks
  <2>3. locked' = [locked EXCEPT ![u].amount = @ + RoundedDeposit(v)]
    BY <1>0, <2>2
  <2>4. Locks!Becomes([locked EXCEPT ![u].amount = @ + RoundedDeposit(v)])
    BY <2>2, <2>3, LocksBecome, Zenon
  <2>5. Locks!Live(locked[u], now) /\ Locks!Rounded(v) = RoundedDeposit(v)
    BY <2>1 DEF Locks!Live, Live, Locks!Rounded, RoundedDeposit
  <2> QED
    BY <2>1, <2>4, <2>5 DEF Locks!IncreaseAmount
<1>3. ASSUME NEW u \in Users, NEW t \in Times, IncreaseUnlockTime(u, t)
      PROVE  Locks!IncreaseUnlockTime(u, t)
  <2> DEFINE new == [locked[u] EXCEPT !.end = RoundToWeek(t)]
  <2>1. /\ Relocks(u, new) /\ Live(locked[u], now)
        /\ RoundToWeek(t) > locked[u].end /\ RoundToWeek(t) <= now + MAXTIME
    BY <1>0, <1>3, ExtendRelocks
  <2>2. locked' = [locked EXCEPT ![u] = new] /\ now' = now
    BY <2>1 DEF Relocks
  <2>3. locked' = [locked EXCEPT ![u].end = RoundToWeek(t)]
    BY <1>0, <2>2
  <2>4. Locks!Becomes([locked EXCEPT ![u].end = RoundToWeek(t)])
    BY <2>2, <2>3, LocksBecome, Zenon
  <2>5. Locks!Live(locked[u], now) /\ Locks!RoundToWeek(t) = RoundToWeek(t)
    BY <2>1 DEF Locks!Live, Live, Locks!RoundToWeek, RoundToWeek
  <2> QED
    BY <2>1, <2>4, <2>5 DEF Locks!IncreaseUnlockTime
<1>4. ASSUME NEW u \in Users, InfiniteLockToggle(u)
      PROVE  Locks!InfiniteLockToggle(u)
  <2> DEFINE new == [locked[u] EXCEPT
                         !.end = IF @ = MaxUint THEN LongestEnd(now) ELSE MaxUint]
  <2>1. Relocks(u, new) /\ Live(locked[u], now)
    BY <1>0, <1>4, ToggleRelocks
  <2>2. locked' = [locked EXCEPT ![u] = new] /\ now' = now
    BY <2>1 DEF Relocks
  <2>3. locked' = [locked EXCEPT ![u].end = IF @ = MaxUint THEN LongestEnd(now) ELSE MaxUint]
    BY <1>0, <2>2
  <2>4. Locks!Becomes([locked EXCEPT ![u].end = IF @ = MaxUint THEN LongestEnd(now) ELSE MaxUint])
    BY <2>2, <2>3, LocksBecome, Zenon
  <2>5. Locks!Live(locked[u], now) /\ Locks!LongestEnd(now) = LongestEnd(now)
    BY <2>1 DEF Locks!Live, Live, Locks!LongestEnd, LongestEnd, Locks!RoundToWeek, RoundToWeek
  <2> QED
    BY <2>4, <2>5 DEF Locks!InfiniteLockToggle
<1>5. ASSUME NEW u \in Users, Withdraw(u)
      PROVE  Locks!Withdraw(u)
  <2>1. Relocks(u, NoLock) /\ locked[u].amount > 0 /\ now >= locked[u].end
    BY <1>0, <1>5, WithdrawRelocks
  <2>2. locked' = [locked EXCEPT ![u] = NoLock] /\ now' = now
    BY <2>1 DEF Relocks
  <2>3. Locks!Becomes([locked EXCEPT ![u] = NoLock])
    BY <2>2, LocksBecome, Zenon
  <2>4. Locks!NoLock = NoLock
    BY DEF Locks!NoLock, NoLock
  <2> QED
    BY <2>1, <2>3, <2>4 DEF Locks!Withdraw
<1>6. ASSUME NEW owner \in Users, NEW to \in Users, Transfer(owner, to)
      PROVE  Locks!Transfer(owner, to)
  <2>1. Merges(owner, to) /\ VeTransferAllowed(owner, to)
    BY <1>0, <1>6, TransferMerges
  <2>2. locked' = [locked EXCEPT ![owner] = NoLock,
                                 ![to] = [locked[to] EXCEPT !.amount = @ + locked[owner].amount]]
        /\ now' = now /\ locked[owner].amount > 0 /\ owner # to
    BY <2>1, Zenon DEF Merges, MergePositions
  <2>3. locked' = [locked EXCEPT ![owner] = NoLock, ![to].amount = @ + locked[owner].amount]
    BY <1>0, <2>2
  <2>4. Locks!Becomes([locked EXCEPT ![owner] = NoLock, ![to].amount = @ + locked[owner].amount])
    BY <2>2, <2>3, LocksBecome, Zenon
  <2>5. Locks!CanMerge(owner, to)
    BY <2>1 DEF Locks!CanMerge, VeTransferAllowed, Locks!IsLongest, IsLongest,
                Locks!LongestEnd, LongestEnd, Locks!RoundToWeek, RoundToWeek
  <2>6. Locks!NoLock = NoLock
    BY DEF Locks!NoLock, NoLock
  <2> QED
    BY <2>2, <2>4, <2>5, <2>6 DEF Locks!Transfer
<1>7. ASSUME Tick PROVE Locks!Tick
  <2>1. now < MaxTime /\ now' = now + 1 /\ locked' = locked
    BY <1>7 DEF Tick
  <2>2. Votes' = [u \in Users |-> Bias(locked'[u], now')]
    BY VotesWeigh, NextVotesWeigh
  <2>3. Votes' = Locks!Weighed(locked, now + 1)
    BY <2>1, <2>2, SameWeights
  <2> QED
    BY <2>1, <2>3 DEF Locks!Tick, Votes
<1>8. ASSUME now' = now, locked' = locked PROVE UNCHANGED Locks!veVars
  <2>1. Votes = [u \in Users |-> Bias(locked[u], now)]
        /\ Votes' = [u \in Users |-> Bias(locked'[u], now')]
    BY VotesWeigh, NextVotesWeigh
  <2>2. Votes' = Votes
    BY <1>8, <2>1
  <2> QED
    BY <1>8, <2>2 DEF Locks!veVars, Votes
<1>9. CASE CheckpointCall
  BY <1>8, <1>9 DEF CheckpointCall
<1>10. CASE vars' = vars
  BY <1>8, <1>10 DEF vars
<1> QED
  <2>1. Locks!Times = Times
    BY DEF Locks!Times, Times
  <2>2. CASE Operation
    BY <1>1, <1>2, <1>3, <1>4, <1>5, <1>6, <1>9, <2>1, <2>2, Zenon
    DEF Operation, Locks!VeNext, Locks!Locking
  <2>3. CASE Tick
    BY <1>7, <2>3 DEF Locks!VeNext
  <2> QED
    BY <1>10, <2>2, <2>3 DEF Next

(* Every operation of the contract is one on locks, and the votes that it
   answers with weigh what VeLocks says they do. *)
THEOREM EscrowImplementsVeLocks == Spec => ImplementsVeLocks
<1>1. Init => Locks!VeInit
  BY MapsToInit
<1>2. EscrowInv /\ EscrowInv' /\ [Next]_vars => [Locks!VeNext]_Locks!veVars
  BY MapsToStep
<1> QED
  BY <1>1, <1>2, EscrowInvariant, PTL DEF Spec, ImplementsVeLocks, Locks!VeSpec

-----------------------------------------------------------------------------
(***************************************************************************)
(* Reading the past                                                        *)
(***************************************************************************)
(* A set of indices has a last one. *)
LEMMA LastIndex ==
    ASSUME NEW n \in Nat, NEW I \in SUBSET (1..n), I # {}
    PROVE  Max(I) \in I /\ \A i \in I : i <= Max(I)
<1>1. I \in SUBSET Nat /\ \A i \in I : i \in Nat
  OBVIOUS
<1>2. IsFiniteSet(I)
  <2>1. IsFiniteSet(1..n)
    BY FS_Interval
  <2> QED
    BY <2>1, FS_Subset
<1>3. Max(I) \in I /\ \A i \in I : Max(I) >= i
  BY <1>1, <1>2, MaxIsLargest
<1> QED
  BY <1>1, <1>3, SMT

\* i is the last index of a point not later than t.
IsLastAt(h, t, i) ==
    /\ i \in 1..Len(h) /\ h[i].ts <= t
    /\ \A j \in 1..Len(h) : h[j].ts <= t => j <= i

(* What the binary search finds. *)
LEMMA LastAtFinds ==
    ASSUME NEW S, NEW h \in Seq(S), NEW t, Len(h) > 0, h[1].ts <= t
    PROVE  \E i : IsLastAt(h, t, i) /\ LastAt(h, t) = h[i]
<1> DEFINE I == {i \in DOMAIN h : h[i].ts <= t}
           n == Len(h)
<1>1. DOMAIN h = 1..n /\ n \in Nat
  BY LenProperties
<1>2. 1 \in 1..n
  BY <1>1, SMT
<1>3. I \in SUBSET (1..n) /\ I # {}
  BY <1>1, <1>2
<1>4. LastAt(h, t) = h[Max(I)]
  BY DEF LastAt
<1>5. \A j \in 1..n : h[j].ts <= t => j \in I
  BY <1>1
<1>6. \A j \in I : j \in 1..n /\ h[j].ts <= t
  BY <1>1
<1> HIDE DEF I, n
<1>7. Max(I) \in I /\ \A i \in I : i <= Max(I)
  BY <1>1, <1>3, LastIndex
<1> QED
  BY <1>4, <1>5, <1>6, <1>7 DEF IsLastAt, n

(* The last one is the only one. *)
LEMMA OneLastAt ==
    ASSUME NEW h, NEW t, NEW i, NEW j, IsLastAt(h, t, i), IsLastAt(h, t, j)
    PROVE  i = j
<1>1. i \in 1..Len(h) /\ j \in 1..Len(h) /\ i <= j /\ j <= i
  BY DEF IsLastAt
<1>2. i \in Int /\ j \in Int
  BY <1>1, SMT
<1> QED
  BY <1>1, <1>2, SMT

(* Points that come later do not change what is found. *)
LEMMA LastAtKept ==
    ASSUME NEW S, NEW h \in Seq(S), NEW R, NEW g \in Seq(R), NEW t, Len(h) > 0, h[1].ts <= t,
           Len(g) >= Len(h),
           \A i \in 1..Len(h) : g[i] = h[i],
           \A i \in 1..Len(g) : i > Len(h) => ~(g[i].ts <= t)
    PROVE  LastAt(g, t) = LastAt(h, t)
<1>1. Len(h) \in Nat /\ Len(g) \in Nat /\ 1 \in 1..Len(h) /\ Len(g) > 0
  BY LenProperties, SMT
<1>2. PICK i : IsLastAt(h, t, i) /\ LastAt(h, t) = h[i]
  BY LastAtFinds
<1>3. g[1].ts <= t
  BY <1>1
<1>4. PICK k : IsLastAt(g, t, k) /\ LastAt(g, t) = g[k]
  BY <1>1, <1>3, LastAtFinds
<1>5. k \in 1..Len(h)
  BY <1>1, <1>4, SMT DEF IsLastAt
<1>6. k <= i
  BY <1>2, <1>4, <1>5 DEF IsLastAt
<1>7. i \in 1..Len(g)
  BY <1>1, <1>2, SMT DEF IsLastAt
<1>8. i <= k
  BY <1>2, <1>4, <1>7 DEF IsLastAt
<1>9. i = k
  BY <1>2, <1>5, <1>6, <1>8, SMT DEF IsLastAt
<1> QED
  BY <1>2, <1>4, <1>5, <1>9

-----------------------------------------------------------------------------
\* One step of total_supply_at, to a time at which the slope changes by d.
LineStep(p, t, d) == [bias |-> p.bias - p.slope * WEEK, slope |-> p.slope + d, ts |-> t]

\* The recursive function in total_supply_at, for a schedule of slope changes.
IsLine(f, point, schedule, n) ==
    f = [k \in 0..n |-> IF k = 0 THEN point
                        ELSE LineStep(f[k - 1], point.ts + k * WEEK,
                                      schedule[point.ts + k * WEEK])]

SupplySteps(point, t) ==
    Positive(Min({(t - point.ts - 1) \div WEEK, CHECKPOINT_WEEKS}))

SupplyFrom(point, schedule, t) ==
    LET n == SupplySteps(point, t)
        end == (CHOOSE f : IsLine(f, point, schedule, n))[n]
    IN  Positive(end.bias - end.slope * (t - end.ts))

SupplyOf(history, schedule, t) ==
    IF Len(history) = 1 \/ t < history[1].ts
    THEN 0
    ELSE SupplyFrom(LastAt(history, t), schedule, t)

(* The view of the total, as a function of the history and the schedule. *)
LEMMA SupplyIs == \A t : total_supply_at(t) = SupplyOf(point_history, slope_changes, t)
  BY DEF total_supply_at, SupplyOf, SupplyFrom, SupplySteps, IsLine, LineStep

(* The steps do not reach t, and there are none within a week. *)
LEMMA StepsBefore ==
    ASSUME NEW T \in Nat, NEW point, point.ts = T, NEW t \in Nat, T <= t
    PROVE  /\ SupplySteps(point, t) \in Nat
           /\ \A k \in 1..SupplySteps(point, t) : T + k * WEEK \in Nat /\ T + k * WEEK < t
           /\ t <= T + WEEK => SupplySteps(point, t) = 0
<1> DEFINE d == t - T - 1
           c == d \div WEEK
           m == IF c <= CHECKPOINT_WEEKS THEN c ELSE CHECKPOINT_WEEKS
<1>1. WEEK \in Nat \ {0} /\ CHECKPOINT_WEEKS \in Nat \ {0} /\ d \in Int /\ d >= -1
      /\ t = T + 1 + d
  BY EscrowConstants, SMT
<1>2. SupplySteps(point, t) = Positive(Min({c, CHECKPOINT_WEEKS}))
  BY DEF SupplySteps
<1> HIDE DEF d
<1>3. CASE d >= 0
  <2>0. d \in Nat
    BY <1>1, <1>3, SMT
  <2>1. c \in Nat /\ c * WEEK <= d /\ d < c * WEEK + WEEK
    BY <1>1, <2>0, DivBounds
  <2> HIDE DEF c
  <2>2. Min({c, CHECKPOINT_WEEKS}) = m /\ m \in Nat /\ m <= c
    BY <1>1, <2>1, MinOfTwo, SMT
  <2>3. Positive(m) = m
    BY <2>2, PositiveType, SMT
  <2> HIDE DEF m
  <2>4. ASSUME NEW k \in 1..m PROVE T + k * WEEK \in Nat /\ T + k * WEEK < t
    <3>1. k * WEEK <= c * WEEK /\ k \in Nat
      BY <1>1, <2>1, <2>2, ProductMonotone, SMT
    <3>2. k * WEEK \in Nat /\ c * WEEK \in Nat
      BY <1>1, <2>1, <3>1, SMT
    <3> QED
      BY <1>1, <2>1, <3>1, <3>2, SMT
  <2>5. ASSUME t <= T + WEEK PROVE m = 0
    <3>1. c * WEEK < WEEK
      BY <1>1, <2>1, <2>5, SMT
    <3>2. ASSUME c >= 1 PROVE FALSE
      <4>1. 1 * WEEK <= c * WEEK
        BY <1>1, <2>1, <3>2, ProductMonotone, SMT
      <4> QED
        BY <1>1, <2>1, <3>1, <4>1, SMT
    <3> QED
      BY <2>1, <2>2, <3>2, SMT
  <2> QED
    BY <1>2, <2>2, <2>3, <2>4, <2>5
<1>4. CASE d = -1
  <2>1. c = -1
    BY <1>1, <1>4, SMT
  <2>2. Min({c, CHECKPOINT_WEEKS}) = -1
    BY <1>1, <2>1, MinOfTwo, SMT
  <2>3. Positive(-1) = 0
    BY PositiveType, SMT
  <2>4. SupplySteps(point, t) = 0
    BY <1>2, <2>2, <2>3
  <2> QED
    BY <2>4, SMT
<1> QED
  BY <1>1, <1>3, <1>4, SMT

(* Only slope changes before t matter. *)
LEMMA SameSchedule ==
    ASSUME NEW T \in Nat, NEW point, point.ts = T, NEW t \in Nat, T <= t,
           NEW a, NEW b, \A s \in Nat : s < t => a[s] = b[s]
    PROVE  SupplyFrom(point, a, t) = SupplyFrom(point, b, t)
<1> DEFINE n == SupplySteps(point, t)
<1>1. \A k \in 1..n : a[T + k * WEEK] = b[T + k * WEEK]
  BY StepsBefore
<1>2. \A k \in 0..n : k # 0 => k \in 1..n
  BY StepsBefore, SMT
<1> HIDE DEF n
<1>3. ASSUME NEW f PROVE IsLine(f, point, a, n) <=> IsLine(f, point, b, n)
  <2>1. [k \in 0..n |-> IF k = 0 THEN point
              ELSE LineStep(f[k - 1], point.ts + k * WEEK, a[point.ts + k * WEEK])]
        = [k \in 0..n |-> IF k = 0 THEN point
              ELSE LineStep(f[k - 1], point.ts + k * WEEK, b[point.ts + k * WEEK])]
    BY <1>1, <1>2, Zenon
  <2> QED
    BY <2>1, Zenon DEF IsLine
<1>4. (CHOOSE f : IsLine(f, point, a, n)) = (CHOOSE f : IsLine(f, point, b, n))
  BY <1>3
<1> QED
  BY <1>4, Zenon DEF SupplyFrom, n

(* From a point of nothing, with nothing scheduled, nothing comes. *)
LEMMA NothingComes ==
    ASSUME NEW T \in Nat, NEW t \in Nat, T <= t,
           NEW a, \A s \in Nat : s < t => a[s] = 0
    PROVE  SupplyFrom([bias |-> 0, slope |-> 0, ts |-> T], a, t) = 0
<1> DEFINE point == [bias |-> 0, slope |-> 0, ts |-> T]
           n == SupplySteps(point, t)
           zero(k) == [bias |-> 0, slope |-> 0, ts |-> T + k * WEEK]
           f == CHOOSE g : IsLine(g, point, a, n)
           G == {m \in Nat : m <= n => f[m] = zero(m)}
<1>1. /\ n \in Nat
      /\ \A k \in 1..n : T + k * WEEK \in Nat /\ T + k * WEEK < t
      /\ WEEK \in Nat /\ point.ts = T
  BY StepsBefore, EscrowConstants
<1>2. \A k \in 1..n : a[T + k * WEEK] = 0
  BY <1>1
<1>3. zero(0) = point
  BY <1>1, SMT
<1>4. \A k \in 0..n : k # 0 => k \in 1..n
  BY <1>1, SMT
<1>5. ASSUME NEW k \in 1..n
      PROVE  LineStep(zero(k - 1), T + k * WEEK, a[T + k * WEEK]) = zero(k)
  <2>1. 0 - 0 * WEEK = 0 /\ 0 + 0 = 0
    BY <1>1, SMT
  <2>2. zero(k - 1).bias = 0 /\ zero(k - 1).slope = 0
    OBVIOUS
  <2>3. zero(k) = [bias |-> 0, slope |-> 0, ts |-> T + k * WEEK]
    OBVIOUS
  <2> HIDE DEF zero
  <2>4. LineStep(zero(k - 1), T + k * WEEK, 0) = [bias |-> 0, slope |-> 0, ts |-> T + k * WEEK]
    BY <2>1, <2>2 DEF LineStep
  <2> QED
    BY <1>2, <2>3, <2>4
<1> HIDE DEF zero, point, n
<1>6. IsLine([k \in 0..n |-> zero(k)], point, a, n)
  <2> DEFINE g == [k \in 0..n |-> zero(k)]
  <2>1. ASSUME NEW k \in 0..n
        PROVE  g[k] = IF k = 0 THEN point
                      ELSE LineStep(g[k - 1], T + k * WEEK, a[T + k * WEEK])
    <3>1. CASE k = 0
      BY <1>3, <3>1
    <3>2. CASE k # 0
      <4>1. k \in 1..n /\ k - 1 \in 0..n
        BY <1>1, <3>2, SMT
      <4> QED
        BY <1>5, <3>2, <4>1
    <3> QED
      BY <3>1, <3>2
  <2>2. g = [k \in 0..n |-> g[k]]
    OBVIOUS
  <2> HIDE DEF g
  <2>3. IsLine(g, point, a, n)
    BY <1>1, <2>1, <2>2, Zenon DEF IsLine
  <2> QED
    BY <2>3 DEF g
<1>7. IsLine(f, point, a, n)
  BY <1>6
<1>8. n \in G
  <2>1. 0 \in G
    <3>1. 0 \in 0..n
      BY <1>1, SMT
    <3>2. f[0] = point
      BY <1>7, <3>1, Zenon DEF IsLine
    <3> QED
      BY <1>3, <3>2
  <2>2. ASSUME NEW m \in Nat, m \in G PROVE m + 1 \in G
    <3>1. SUFFICES ASSUME m + 1 <= n PROVE f[m + 1] = zero(m + 1)
      OBVIOUS
    <3>2. m + 1 \in 1..n /\ m + 1 \in 0..n /\ m + 1 # 0 /\ (m + 1) - 1 = m /\ m <= n
      BY <1>1, <3>1, SMT
    <3>3. f[m + 1] = LineStep(f[(m + 1) - 1], T + (m + 1) * WEEK, a[T + (m + 1) * WEEK])
      BY <1>1, <1>7, <3>2, Zenon DEF IsLine
    <3>4. f[(m + 1) - 1] = zero((m + 1) - 1)
      BY <2>2, <3>2
    <3> QED
      BY <1>5, <3>2, <3>3, <3>4
  <2> HIDE DEF G
  <2> QED
    BY <1>1, <2>1, <2>2, StepInduction
<1>9. f[n] = zero(n)
  BY <1>1, <1>8
<1>10. SupplyFrom(point, a, t) = Positive(f[n].bias - f[n].slope * (t - f[n].ts))
  BY DEF SupplyFrom, n
<1> HIDE DEF f
<1>11. f[n].bias = 0 /\ f[n].slope = 0 /\ f[n].ts = T + n * WEEK
  BY <1>9 DEF zero
<1>12. 0 - 0 * (t - (T + n * WEEK)) = 0
  BY <1>1, SMT
<1>13. Positive(0) = 0
  BY PositiveType
<1> QED
  BY <1>10, <1>11, <1>12, <1>13 DEF point

(* The view of a user's votes, as a function of the history. *)
LEMMA VotesAre ==
    ASSUME NEW u, NEW t
    PROVE  getPastVotes(u, t) = VotesAt(user_point_history[u], t)
  BY DEF getPastVotes, VotesAt

(* What a user had before now is not changed by a point of now. *)
LEMMA UsersFrozen ==
    ASSUME EscrowInv, Checkpoints, NEW u \in Users, NEW t \in 0 .. now - 1
    PROVE  VotesAt(user_point_history'[u], t) = VotesAt(user_point_history[u], t)
<1> DEFINE h == user_point_history[u]
           p == PointOf(locked'[u], now)
<1>1. /\ h \in Seq(Point) /\ Len(h) > 0 /\ h[1] = NoPoint /\ now \in Nat
      /\ user_point_history'[u] \in Seq(Point) /\ UserStep(u)
  BY LastPointType DEF EscrowInv, TypeOK, UsersCurrent, Checkpoints
<1>2. CASE user_point_history'[u] = h
  BY <1>2
<1>3. CASE user_point_history'[u] = Append(h, p)
  <2>1. p.ts = now
    BY DEF PointOf
  <2> DEFINE g == Append(h, p)
  <2> HIDE DEF p, h
  <2>2. /\ Len(g) = Len(h) + 1 /\ g[Len(h) + 1] = p
        /\ \A i \in 1..Len(h) : g[i] = h[i]
        /\ g \in Seq(Point) /\ Len(h) \in Nat
    <3>1. g \in Seq(Point)
      BY <1>1, <1>3 DEF h
    <3> QED
      BY <1>1, <3>1, AppendProperties, LenProperties, SMT
  <2> HIDE DEF g
  <2>3. h[1].ts <= t
    BY <1>1, SMT DEF NoPoint
  <2>4. ASSUME NEW i \in 1..Len(g), i > Len(h) PROVE ~(g[i].ts <= t)
    <3>1. i = Len(h) + 1
      BY <2>2, <2>4, SMT
    <3> QED
      BY <1>1, <2>1, <2>2, <3>1, SMT
  <2>5. LastAt(g, t) = LastAt(h, t)
    <3>1. Len(g) >= Len(h)
      BY <2>2, SMT
    <3> QED
      BY <1>1, <2>2, <2>3, <2>4, <3>1, LastAtKept
  <2> QED
    BY <1>3, <2>5 DEF g, h, VotesAt
<1> QED
  BY <1>1, <1>2, <1>3 DEF UserStep

(* The total before the last checkpoint is not changed by the next. *)
LEMMA TotalFrozen ==
    ASSUME EscrowInv, EscrowInv', Checkpoints, NEW t \in 0 .. LastPoint.ts - 1
    PROVE  SupplyOf(point_history', slope_changes', t)
               = SupplyOf(point_history, slope_changes, t)
<1> DEFINE n == Len(point_history)
<1>1. PICK f, e : TotalStep(f, e)
  BY DEF Checkpoints
<1>2. TypeOK /\ HistoryOK /\ ScheduleKept /\ now' = now /\ HistoryOK' /\ TypeOK'
  BY DEF EscrowInv, Checkpoints
<1>3. /\ n \in Nat \ {0} /\ WalkWeeks \in Nat \ {0} /\ Len(point_history') = n + WalkWeeks
      /\ point_history' \in Seq(Point)
      /\ \A i \in 1..n : point_history'[i] = point_history[i]
      /\ \A k \in 1..WalkWeeks : point_history'[n + k].ts = WalkTime(k)
      /\ n = 1 => WalkWeeks = 1 /\ WalkTime(1) = now
  BY <1>1, <1>2, HistoryGoesOn
<1>4. now \in Nat /\ now <= MaxTime /\ LastPoint.ts \in 0..now /\ t \in Nat /\ t < now
  BY <1>2, LastPointType, SMT
<1>5. point_history \in Seq(Point)
  BY <1>2 DEF TypeOK
<1> HIDE DEF n
<1>6. ASSUME NEW i \in 1..Len(point_history'), i > n PROVE ~(point_history'[i].ts <= t)
  <2>1. PICK k \in 1..WalkWeeks : i = n + k
    BY <1>3, <1>6, SMT
  <2>2. WalkTime(k) \in 0..now /\ LastPoint.ts <= WalkTime(k)
    BY <1>2, <2>1, WalkTimes
  <2>3. point_history'[i].ts = WalkTime(k)
    BY <1>3, <2>1
  <2> QED
    BY <1>4, <2>2, <2>3, SMT
<1>7. point_history'[1] = point_history[1] /\ Len(point_history') # 1 /\ 1 \in 1..n
  BY <1>3, SMT
<1>8. CASE t < point_history[1].ts
  BY <1>7, <1>8 DEF SupplyOf
<1>9. CASE ~(t < point_history[1].ts)
  <2>1. \A i \in 1..n : point_history[i] \in Point
    BY <1>5, ElementOfSeq DEF n
  <2>2. \A i \in 1..n : point_history[i].ts \in Nat
    BY <1>4, <2>1, SMT DEF Point
  <2>3. point_history[1].ts <= t
    BY <1>4, <1>7, <1>9, <2>2, SMT
  <2>4. LastAt(point_history', t) = LastAt(point_history, t)
    <3>1. Len(point_history') >= Len(point_history) /\ Len(point_history) > 0
      BY <1>3, SMT DEF n
    <3>2. \A i \in 1..Len(point_history) : point_history'[i] = point_history[i]
      BY <1>3 DEF n
    <3>3. \A i \in 1..Len(point_history') :
              i > Len(point_history) => ~(point_history'[i].ts <= t)
      BY <1>6 DEF n
    <3> QED
      BY <1>3, <1>5, <2>3, <3>1, <3>2, <3>3, LastAtKept
  <2>5. PICK i : IsLastAt(point_history, t, i) /\ LastAt(point_history, t) = point_history[i]
    BY <1>3, <1>5, <2>3, LastAtFinds, SMT DEF n
  <2>6. i \in 1..n /\ point_history[i].ts <= t
    BY <2>5 DEF IsLastAt, n
  <2>7. CASE n # 1
    <3>1. \A s \in Nat : s < t => slope_changes'[s] = slope_changes[s]
      <4>1. \A s \in Nat : s < t => s \in Times /\ s <= now
        BY <1>4, EscrowConstants, SMT DEF Times
      <4> QED
        BY <1>2, <4>1 DEF ScheduleKept
    <3>2. SupplyFrom(point_history[i], slope_changes', t)
              = SupplyFrom(point_history[i], slope_changes, t)
      <4>1. /\ point_history[i].ts \in Nat /\ point_history[i].ts = point_history[i].ts
            /\ t \in Nat /\ point_history[i].ts <= t
        BY <1>4, <2>2, <2>6
      <4> QED
        BY <3>1, <4>1, SameSchedule, Zenon
    <3>3. SupplyOf(point_history', slope_changes', t)
              = SupplyFrom(LastAt(point_history', t), slope_changes', t)
      BY <1>7, <1>9 DEF SupplyOf
    <3>4. SupplyOf(point_history, slope_changes, t)
              = SupplyFrom(LastAt(point_history, t), slope_changes, t)
      BY <1>9, <2>7 DEF SupplyOf, n
    <3> QED
      BY <2>4, <2>5, <3>2, <3>3, <3>4
  <2>8. CASE n = 1
    <3>1. SupplyOf(point_history, slope_changes, t) = 0
      BY <2>8 DEF SupplyOf, n
    <3>2. i = 1
      BY <2>6, <2>8, SMT
    <3>3. point_history[1] = [bias |-> 0, slope |-> 0, ts |-> StartTime]
      BY <1>2 DEF HistoryOK, NoPoint
    <3>4. \A s \in Nat : s < t => slope_changes'[s] = 0
      <4>1. point_history'[2].ts = now
        <5>1. 1 \in 1..WalkWeeks /\ n + 1 = 2
          BY <1>3, <2>8, SMT
        <5> QED
          BY <1>3, <2>8, <5>1
      <4>2. \A s \in Nat : s < t => s \in Times /\ s <= now
        BY <1>4, EscrowConstants, SMT DEF Times
      <4>3. \A s \in Times : s <= now => slope_changes'[s] = 0
        BY <1>2, <4>1 DEF HistoryOK
      <4> QED
        BY <4>2, <4>3
    <3>5. SupplyFrom([bias |-> 0, slope |-> 0, ts |-> StartTime], slope_changes', t) = 0
      <4>1. StartTime <= t
        BY <2>3, <3>3
      <4> QED
        BY <1>4, <3>4, <4>1, NothingComes, EscrowConstants
    <3>6. SupplyOf(point_history', slope_changes', t)
              = SupplyFrom(LastAt(point_history', t), slope_changes', t)
      BY <1>7, <1>9 DEF SupplyOf
    <3> QED
      BY <2>4, <2>5, <3>1, <3>2, <3>3, <3>5, <3>6
  <2> QED
    BY <2>7, <2>8
<1> QED
  BY <1>8, <1>9

(* Every operation checkpoints. *)
LEMMA OperationCheckpoints ==
    ASSUME EscrowInv, Operation
    PROVE  Checkpoints
<1>0. TypeOK /\ LocksOK
  BY DEF EscrowInv
<1>1. ASSUME NEW u \in Users, NEW new, Relocks(u, new) PROVE Checkpoints
  <2>1. /\ new \in Lock /\ locked' = [locked EXCEPT ![u] = new]
        /\ Checkpoint(u, locked[u], new) /\ now' = now
    BY <1>1 DEF Relocks
  <2> QED
    BY <1>0, <2>1, CheckpointShape
<1>2. ASSUME NEW owner \in Users, NEW to \in Users, Merges(owner, to) PROVE Checkpoints
  <2>1. owner # to /\ MergePositions(owner, to) /\ slope_changes' = slope_changes /\ now' = now
    BY <1>2 DEF Merges
  <2> QED
    BY <1>0, <2>1, MergeShape
<1>3. ASSUME NEW u \in Users, NEW v \in Values, NEW t \in Times, CreateLock(u, v, t)
      PROVE  Checkpoints
  BY <1>0, <1>1, <1>3, CreateRelocks
<1>4. ASSUME NEW p \in Users, NEW u \in Users, NEW v \in Values, IncreaseAmount(p, u, v)
      PROVE  Checkpoints
  BY <1>0, <1>1, <1>4, IncreaseRelocks
<1>5. ASSUME NEW u \in Users, NEW t \in Times, IncreaseUnlockTime(u, t)
      PROVE  Checkpoints
  BY <1>0, <1>1, <1>5, ExtendRelocks
<1>6. ASSUME NEW u \in Users, InfiniteLockToggle(u)
      PROVE  Checkpoints
  BY <1>0, <1>1, <1>6, ToggleRelocks
<1>7. ASSUME NEW u \in Users, Withdraw(u)
      PROVE  Checkpoints
  BY <1>0, <1>1, <1>7, WithdrawRelocks
<1>8. ASSUME NEW owner \in Users, NEW to \in Users, Transfer(owner, to)
      PROVE  Checkpoints
  BY <1>0, <1>2, <1>8, TransferMerges
<1>9. CASE CheckpointCall
  BY <1>0, <1>9, CallShape
<1> QED
  BY <1>3, <1>4, <1>5, <1>6, <1>7, <1>8, <1>9 DEF Operation

(* The same after a step. *)
LEMMA NextVotesAre ==
    \A u, t : getPastVotes(u, t)' = VotesAt(user_point_history'[u], t)
  BY DEF getPastVotes, VotesAt, LastAt

(* The view of the total after a step. *)
LEMMA NextSupplyIs ==
    \A t : total_supply_at(t)' = SupplyOf(point_history', slope_changes', t)
<1>1. (\A t : total_supply_at(t) = SupplyOf(point_history, slope_changes, t))'
  BY SupplyIs, PTL
<1> QED
  BY <1>1

(* No step changes an answer about the past. *)
LEMMA FrozenStep ==
    ASSUME EscrowInv, EscrowInv', [Next]_vars
    PROVE  [/\ \A u \in Users, t \in 0..(now - 1) : getPastVotes(u, t)' = getPastVotes(u, t)
            /\ \A t \in 0..(LastPoint.ts - 1) : total_supply_at(t)' = total_supply_at(t)]_vars
<1>1. CASE Operation
  <2>1. Checkpoints
    BY <1>1, OperationCheckpoints
  <2>2. \A u \in Users, t \in 0..(now - 1) : getPastVotes(u, t)' = getPastVotes(u, t)
    BY <2>1, UsersFrozen, VotesAre, NextVotesAre
  <2>3. \A t \in 0..(LastPoint.ts - 1) : total_supply_at(t)' = total_supply_at(t)
    BY <2>1, TotalFrozen, SupplyIs, NextSupplyIs
  <2> QED
    BY <2>2, <2>3
<1>2. CASE Tick
  <2>1. /\ user_point_history' = user_point_history
        /\ point_history' = point_history /\ slope_changes' = slope_changes
    BY <1>2 DEF Tick
  <2>2. \A u \in Users, t \in 0..(now - 1) : getPastVotes(u, t)' = getPastVotes(u, t)
    BY <2>1, VotesAre, NextVotesAre
  <2>3. \A t \in 0..(LastPoint.ts - 1) : total_supply_at(t)' = total_supply_at(t)
    BY <2>1, SupplyIs, NextSupplyIs
  <2> QED
    BY <2>2, <2>3
<1> QED
  BY <1>1, <1>2 DEF Next

(* Answers about the past are final: no operation of anybody changes them. *)
THEOREM PastStaysFrozen == Spec => PastIsFrozen
  BY EscrowInvariant, FrozenStep, PTL DEF Spec, PastIsFrozen

-----------------------------------------------------------------------------
(***************************************************************************)
(* Sums over the locks                                                     *)
(***************************************************************************)
\* No lock ends after s and by t.
NoneEnds(locks, s, t) == \A u \in Users : ~Ends(locks[u], s, t)

(* What the locks weigh are naturals. *)
LEMMA WeightsType ==
    ASSUME NEW locks \in [Users -> Lock], NEW t \in Nat
    PROVE  /\ Slopes(locks, t) \in [Users -> Nat] /\ Total(Slopes(locks, t)) \in Nat
           /\ Biases(locks, t) \in [Users -> Nat] /\ Total(Biases(locks, t)) \in Nat
<1>1. \A u \in Users : Slope(locks[u], t) \in Nat /\ Bias(locks[u], t) \in Nat
  BY LockNumbers
<1>2. Slopes(locks, t) \in [Users -> Nat] /\ Biases(locks, t) \in [Users -> Nat]
  BY <1>1 DEF Slopes, Biases
<1> QED
  BY <1>2, TotalType, EscrowConstants

(* What ends at a time is a sum of naturals. *)
LEMMA EndingType ==
    ASSUME NEW locks \in [Users -> Lock], NEW t \in Nat \ {0}
    PROVE  Ending(locks, t) \in [Users -> Nat] /\ Total(Ending(locks, t)) \in Nat
<1>1. t - 1 \in Nat
  BY SMT
<1>2. \A u \in Users : Slope(locks[u], t - 1) \in Nat
  BY <1>1, LockNumbers
<1>3. Ending(locks, t) \in [Users -> Nat]
  BY <1>2 DEF Ending
<1> QED
  BY <1>3, TotalType, EscrowConstants

(* While no lock ends, the sum is a line. *)
LEMMA SumLine ==
    ASSUME NEW locks \in [Users -> Lock], NEW s \in Nat, NEW t \in Nat, s <= t, t < MaxUint,
           NoneEnds(locks, s, t - 1)
    PROVE  Total(Biases(locks, s)) - Total(Slopes(locks, s)) * (t - s) = Total(Biases(locks, t))
<1> DEFINE a == Biases(locks, s)
           b == Biases(locks, t)
           c == Slopes(locks, s)
           d == [u \in Users |-> (t - s) * c[u]]
           k == t - s
<1>1. a \in [Users -> Nat] /\ b \in [Users -> Nat] /\ c \in [Users -> Nat]
      /\ Total(a) \in Nat /\ Total(b) \in Nat /\ Total(c) \in Nat
  BY WeightsType
<1>2. k \in Nat /\ IsFiniteSet(Users)
  BY EscrowConstants, SMT
<1>3. ASSUME NEW u \in Users PROVE a[u] = b[u] + k * c[u]
  <2>1. ~Ends(locks[u], s, t - 1)
    BY DEF NoneEnds
  <2>2. Bias(locks[u], s) - Slope(locks[u], s) * (t - s) = Bias(locks[u], t)
    BY <2>1, LockLine
  <2>3. a[u] = Bias(locks[u], s) /\ b[u] = Bias(locks[u], t) /\ c[u] = Slope(locks[u], s)
    BY DEF Biases, Slopes
  <2>4. a[u] - c[u] * k = b[u] /\ a[u] \in Nat /\ b[u] \in Nat /\ c[u] \in Nat
    BY <1>1, <2>2, <2>3
  <2> HIDE DEF a, b, c, k
  <2> QED
    BY <1>2, <2>4, SMT
<1> HIDE DEF a, b, c, k
<1>4. \A u \in Users : k * c[u] \in Nat
  BY <1>1, <1>2, SMT
<1>5. d \in [Users -> Nat] /\ \A u \in Users : d[u] = k * c[u]
  BY <1>4 DEF k
<1>6. \A u \in Users : a[u] = b[u] + d[u]
  BY <1>3, <1>5
<1> HIDE DEF d
<1>7. Total(a) = Total(b) + Total(d)
  BY <1>1, <1>2, <1>5, <1>6, TotalPlus
<1>8. Total(d) = k * Total(c)
  BY <1>1, <1>2, <1>5, TotalScaled
<1>9. Total(a) - Total(c) * k = Total(b)
  BY <1>1, <1>2, <1>7, <1>8, SMT
<1> QED
  BY <1>9 DEF a, b, c, k

(* Locks that end at t take their slopes with them. *)
LEMMA SumEnds ==
    ASSUME NEW locks \in [Users -> Lock], NEW s \in Nat, NEW t \in Nat, s < t, t < MaxUint,
           NoneEnds(locks, s, t - 1)
    PROVE  Total(Slopes(locks, s)) = Total(Slopes(locks, t)) + Total(Ending(locks, t))
<1> DEFINE a == Slopes(locks, s)
           b == Slopes(locks, t)
           c == Ending(locks, t)
<1>1. /\ a \in [Users -> Nat] /\ b \in [Users -> Nat] /\ c \in [Users -> Nat]
      /\ t - 1 \in Nat /\ s <= t - 1 /\ t - 1 < MaxUint
  <2>1. t - 1 \in Nat /\ s <= t - 1 /\ t - 1 < MaxUint /\ t \in Nat \ {0}
    BY EscrowConstants, SMT
  <2> QED
    BY <2>1, WeightsType, EndingType
<1>2. ASSUME NEW u \in Users PROVE a[u] = b[u] + c[u]
  <2> DEFINE lock == locks[u]
  <2>1. lock \in Lock /\ lock.end \in Nat
    BY LockNumbers
  <2>2. ~Ends(lock, s, t - 1)
    BY DEF NoneEnds
  <2>3. Slope(lock, t - 1) = Slope(lock, s)
    BY <1>1, <2>1, <2>2, LockLine
  <2>4. a[u] = Slope(lock, s) /\ b[u] = Slope(lock, t)
        /\ c[u] = IF lock.end = t THEN Slope(lock, t - 1) ELSE 0
    BY DEF Slopes, Ending
  <2>5. /\ ~Ends(lock, s, t) => Slope(lock, t) = Slope(lock, s)
        /\ Ends(lock, s, t) => Slope(lock, t) = 0
    BY <1>1, <2>1, LockLine
  <2>6. Slope(lock, s) \in Nat
    BY LockNumbers
  <2> HIDE DEF lock, a, b, c
  <2>7. CASE lock.end = t
    <3>1. Ends(lock, s, t)
      BY <2>7 DEF Ends
    <3> QED
      BY <2>3, <2>4, <2>5, <2>6, <2>7, <3>1, SMT
  <2>8. CASE lock.end # t
    <3>1. ~Ends(lock, s, t)
      BY <1>1, <2>1, <2>2, <2>8, SMT DEF Ends
    <3> QED
      BY <2>4, <2>5, <2>6, <2>8, <3>1, SMT
  <2> QED
    BY <2>7, <2>8
<1> HIDE DEF a, b, c
<1>3. Total(a) = Total(b) + Total(c)
  BY <1>1, <1>2, TotalPlus, EscrowConstants
<1> QED
  BY <1>3 DEF a, b, c

(* While no lock ends, the slope is the same. *)
LEMMA SumFlat ==
    ASSUME NEW locks \in [Users -> Lock], NEW s \in Nat, NEW t \in Nat, s <= t, t < MaxUint,
           NoneEnds(locks, s, t)
    PROVE  Slopes(locks, t) = Slopes(locks, s)
<1>1. ASSUME NEW u \in Users PROVE Slope(locks[u], t) = Slope(locks[u], s)
  BY LockLine DEF NoneEnds
<1> QED
  BY <1>1 DEF Slopes

(* Between two weeks no lock ends. *)
LEMMA NoneWithinWeek ==
    ASSUME NEW locks \in [Users -> Lock], NEW b \in Nat, IsMultiple(b, WEEK),
           NEW s \in Nat, NEW t \in Int, b <= s, t < b + WEEK, t < MaxUint,
           \A u \in Users : locks[u].end # MaxUint => IsMultiple(locks[u].end, WEEK)
    PROVE  NoneEnds(locks, s, t)
<1> SUFFICES ASSUME NEW u \in Users, Ends(locks[u], s, t) PROVE FALSE
  BY DEF NoneEnds
<1> DEFINE end == locks[u].end
           p == end \div WEEK
           q == b \div WEEK
<1>1. end \in Nat /\ s < end /\ end <= t /\ WEEK \in Nat \ {0} /\ MaxUint \in Nat
  BY LockNumbers, EscrowConstants DEF Ends
<1>2. IsMultiple(end, WEEK)
  <2> HIDE DEF end
  <2>1. end # MaxUint
    BY <1>1, SMT
  <2> QED
    BY <2>1 DEF end
<1> HIDE DEF end
<1>3. p \in Nat /\ q \in Nat /\ end = p * WEEK /\ b = q * WEEK
  BY <1>1, <1>2, DivBounds DEF IsMultiple
<1> HIDE DEF p, q
<1>4. (q + 1) * WEEK = q * WEEK + WEEK
  BY <1>1, <1>3, SMT
<1>5. b < end /\ end < b + WEEK
  BY <1>1, SMT
<1>6. ~(p <= q)
  <2>1. ASSUME p <= q PROVE FALSE
    <3>1. p * WEEK <= q * WEEK
      BY <1>1, <1>3, <2>1, ProductMonotone
    <3> QED
      BY <1>1, <1>3, <1>5, <3>1, SMT
  <2> QED
    BY <2>1
<1>7. ~(q + 1 <= p)
  <2>1. ASSUME q + 1 <= p PROVE FALSE
    <3>1. (q + 1) * WEEK <= p * WEEK
      BY <1>1, <1>3, <2>1, ProductMonotone, SMT
    <3> QED
      BY <1>1, <1>3, <1>4, <1>5, <3>1, SMT
  <2> QED
    BY <2>1
<1> QED
  BY <1>3, <1>6, <1>7, SMT

(* Beginnings of weeks. *)
LEMMA WeekTimes ==
    ASSUME TypeOK, NEW k \in Nat
    PROVE  WalkStart + k * WEEK \in Nat /\ IsMultiple(WalkStart + k * WEEK, WEEK)
<1> DEFINE q == WalkStart \div WEEK
<1>1. WEEK \in Nat \ {0} /\ WalkStart \in Nat /\ q \in Nat /\ WalkStart = q * WEEK
  BY EscrowConstants, WalkBounds, DivBounds DEF IsMultiple
<1> HIDE DEF q
<1>2. WalkStart + k * WEEK = (q + k) * WEEK /\ q + k \in Nat
  BY <1>1, SMT
<1>3. IsMultiple((q + k) * WEEK, WEEK)
  BY <1>1, <1>2, MultipleOf
<1>4. WalkStart + k * WEEK \in Nat
  BY <1>1, SMT
<1> QED
  BY <1>2, <1>3, <1>4

(* No lock weighs nothing. *)
LEMMA NoLockWeighs ==
    ASSUME NEW t \in Nat
    PROVE  /\ Slope(NoLock, t) = 0 /\ Bias(NoLock, t) = 0
           /\ NoLock \in Lock /\ NoLock.end = 0 /\ NoLock.amount = 0
<1>1. ~Live(NoLock, t)
  BY SMT DEF Live, NoLock
<1>2. Slope(NoLock, t) = 0 /\ Bias(NoLock, t) = 0 * (0 - t)
  BY <1>1 DEF Slope, Bias, NoLock
<1>3. 0 * (0 - t) = 0
  BY SMT
<1>4. NoLock \in Lock /\ NoLock.end = 0 /\ NoLock.amount = 0
  BY EscrowConstants, SMT DEF NoLock, Lock, Times
<1> QED
  BY <1>2, <1>3, <1>4

(* The slope with which a lock ends is the one it has now. *)
LEMMA EndingNow ==
    ASSUME NEW lock \in Lock, NEW t \in Nat, NEW s \in Nat, t < s, s < MaxUint, lock.end = s
    PROVE  Slope(lock, s - 1) = Slope(lock, t)
<1>1. s - 1 \in Nat /\ t <= s - 1 /\ s - 1 < MaxUint
  BY EscrowConstants, SMT
<1>2. ~Ends(lock, t, s - 1)
  BY SMT DEF Ends
<1> QED
  BY <1>1, <1>2, LockLine

\* The sum of g is that of f with a exchanged for b.
SumShifts(f, g, a, b) == Total(g) = Total(f) + (b - a)

(* A term is exchanged. *)
LEMMA TotalExchanged ==
    ASSUME NEW f \in [Users -> Nat], NEW g \in [Users -> Nat], NEW u \in Users,
           \A v \in Users \ {u} : g[v] = f[v], NEW a, NEW b, f[u] = a, g[u] = b
    PROVE  SumShifts(f, g, a, b)
<1>1. Total(g) = Total(f) - f[u] + g[u]
  BY TotalUpdate, EscrowConstants
<1>2. Total(f) \in Nat /\ f[u] \in Nat /\ g[u] \in Nat
  BY TotalType, EscrowConstants
<1> QED
  BY <1>1, <1>2, SMT DEF SumShifts

(* A user's lock in the sums is exchanged. *)
LEMMA SumExchanged ==
    ASSUME NEW locks \in [Users -> Lock], NEW u \in Users, NEW new \in Lock, NEW t \in Nat,
           NEW next, next = [locks EXCEPT ![u] = new]
    PROVE  /\ SumShifts(Biases(locks, t), Biases(next, t), Bias(locks[u], t), Bias(new, t))
           /\ SumShifts(Slopes(locks, t), Slopes(next, t), Slope(locks[u], t), Slope(new, t))
<1>1. next \in [Users -> Lock] /\ next[u] = new /\ \A v \in Users \ {u} : next[v] = locks[v]
  OBVIOUS
<1>2. /\ Biases(next, t) \in [Users -> Nat] /\ Biases(locks, t) \in [Users -> Nat]
      /\ Slopes(next, t) \in [Users -> Nat] /\ Slopes(locks, t) \in [Users -> Nat]
      /\ Total(Biases(locks, t)) \in Nat /\ Total(Slopes(locks, t)) \in Nat
  BY <1>1, WeightsType
<1>3. /\ Biases(next, t)[u] = Bias(new, t) /\ Biases(locks, t)[u] = Bias(locks[u], t)
      /\ Slopes(next, t)[u] = Slope(new, t) /\ Slopes(locks, t)[u] = Slope(locks[u], t)
      /\ \A v \in Users \ {u} : Biases(next, t)[v] = Biases(locks, t)[v]
                                /\ Slopes(next, t)[v] = Slopes(locks, t)[v]
  BY <1>1 DEF Biases, Slopes
<1>4. SumShifts(Biases(locks, t), Biases(next, t), Bias(locks[u], t), Bias(new, t))
  BY <1>2, <1>3, TotalExchanged, Zenon
<1>5. SumShifts(Slopes(locks, t), Slopes(next, t), Slope(locks[u], t), Slope(new, t))
  BY <1>2, <1>3, TotalExchanged, Zenon
<1> QED
  BY <1>4, <1>5

\* What a lock takes off the slope at s, as it is at t.
Takes(lock, s, t) == IF lock.end = s THEN Slope(lock, t) ELSE 0

(* When one lock is exchanged, what ends at a time changes by its part. *)
LEMMA EndingExchanged ==
    ASSUME NEW locks \in [Users -> Lock], NEW u \in Users, NEW new \in Lock, NEW t \in Nat,
           NEW next, next = [locks EXCEPT ![u] = new], NEW s \in Nat, t < s, s < MaxUint
    PROVE  SumShifts(Ending(locks, s), Ending(next, s), Takes(locks[u], s, t), Takes(new, s, t))
<1>1. /\ next \in [Users -> Lock] /\ next[u] = new /\ \A v \in Users \ {u} : next[v] = locks[v]
      /\ locks[u] \in Lock
  OBVIOUS
<1>2. s \in Nat \ {0}
  BY SMT
<1>3. /\ Ending(next, s) \in [Users -> Nat] /\ Ending(locks, s) \in [Users -> Nat]
      /\ Total(Ending(locks, s)) \in Nat
  BY <1>1, <1>2, EndingType
<1>4. \A v \in Users \ {u} : Ending(next, s)[v] = Ending(locks, s)[v]
  BY <1>1 DEF Ending
<1> DEFINE a == Ending(locks, s)[u]
           b == Ending(next, s)[u]
<1>5. a = IF locks[u].end = s THEN Slope(locks[u], t) ELSE 0
  BY <1>1, EndingNow DEF Ending
<1>6. b = IF new.end = s THEN Slope(new, t) ELSE 0
  BY <1>1, EndingNow DEF Ending
<1> HIDE DEF a, b
<1>7. SumShifts(Ending(locks, s), Ending(next, s), a, b)
  BY <1>3, <1>4, TotalExchanged, Zenon DEF a, b
<1> QED
  BY <1>5, <1>6, <1>7 DEF Takes

(* A term that moves leaves the sum. *)
LEMMA TotalMoved ==
    ASSUME NEW f \in [Users -> Nat], NEW g \in [Users -> Nat],
           NEW x \in Users, NEW y \in Users, x # y,
           g[x] = 0, g[y] = f[y] + f[x], \A v \in Users \ {x, y} : g[v] = f[v]
    PROVE  Total(g) = Total(f)
<1> DEFINE m == [f EXCEPT ![x] = 0]
<1>1. /\ m \in [Users -> Nat] /\ m[x] = 0 /\ m[y] = f[y]
      /\ \A v \in Users \ {x} : m[v] = f[v]
      /\ \A v \in Users \ {y} : g[v] = m[v]
  OBVIOUS
<1> HIDE DEF m
<1>2. SumShifts(f, m, f[x], 0)
  BY <1>1, TotalExchanged, Zenon
<1>3. SumShifts(m, g, f[y], f[y] + f[x])
  BY <1>1, TotalExchanged, Zenon
<1>4. Total(f) \in Nat /\ Total(m) \in Nat /\ f[x] \in Nat /\ f[y] \in Nat
  BY <1>1, TotalType, EscrowConstants
<1> QED
  BY <1>2, <1>3, <1>4, SMT DEF SumShifts

(* Two locks that end together weigh as much as one. *)
LEMMA MergedWeighs ==
    ASSUME NEW a \in Lock, NEW b \in Lock, NEW m \in Lock, NEW t \in Nat,
           IsMultiple(a.amount, MAXTIME), IsMultiple(b.amount, MAXTIME),
           a.amount > 0, b.amount > 0, a.end = b.end, m.end = b.end, b.end > t,
           m.amount = b.amount + a.amount
    PROVE  /\ Slope(m, t) = Slope(b, t) + Slope(a, t)
           /\ Bias(m, t) = Bias(b, t) + Bias(a, t)
<1> DEFINE p == a.amount \div MAXTIME
           q == b.amount \div MAXTIME
           r == m.amount \div MAXTIME
<1>1. /\ a.amount \in Nat /\ b.amount \in Nat /\ m.amount \in Nat /\ b.end \in Nat
      /\ MAXTIME \in Nat \ {0}
  BY LockNumbers, EscrowConstants
<1>2. p \in Nat /\ q \in Nat /\ r = q + p
  <2>1. p \in Nat /\ q \in Nat
    BY <1>1, DivBounds
  <2>2. (b.amount + a.amount) \div MAXTIME = q + p
    BY <1>1, MultiplePlus
  <2> QED
    BY <2>1, <2>2
<1>3. Live(a, t) /\ Live(b, t) /\ Live(m, t)
  BY <1>1, SMT DEF Live
<1>4. CASE b.end = MaxUint
  <2>1. Slope(a, t) = 0 /\ Slope(b, t) = 0 /\ Slope(m, t) = 0
    BY <1>4 DEF Slope
  <2>2. Bias(a, t) = a.amount /\ Bias(b, t) = b.amount /\ Bias(m, t) = m.amount
    BY <1>3, <1>4 DEF Bias
  <2> QED
    BY <2>1, <2>2, SMT
<1>5. CASE b.end # MaxUint
  <2>1. Slope(a, t) = p /\ Slope(b, t) = q /\ Slope(m, t) = r
    BY <1>3, <1>5 DEF Slope
  <2>2. Bias(a, t) = p * (b.end - t) /\ Bias(b, t) = q * (b.end - t) /\ Bias(m, t) = r * (b.end - t)
    BY <1>3, <1>5, <2>1 DEF Bias
  <2> HIDE DEF p, q, r
  <2>3. (q + p) * (b.end - t) = q * (b.end - t) + p * (b.end - t)
    BY <1>1, <1>2, SMT
  <2> QED
    BY <1>2, <2>1, <2>2, <2>3
<1> QED
  BY <1>4, <1>5

(* A merge leaves the sums. *)
LEMMA SumMerged ==
    ASSUME NEW locks \in [Users -> Lock], NEW next \in [Users -> Lock],
           NEW owner \in Users, NEW to \in Users, owner # to,
           IsMultiple(locks[owner].amount, MAXTIME), IsMultiple(locks[to].amount, MAXTIME),
           locks[owner].amount > 0, locks[to].amount > 0, locks[owner].end = locks[to].end,
           next[owner] = NoLock, next[to].end = locks[to].end,
           next[to].amount = locks[to].amount + locks[owner].amount,
           \A v \in Users \ {owner, to} : next[v] = locks[v],
           NEW t \in Nat, locks[to].end > t
    PROVE  /\ Total(Biases(next, t)) = Total(Biases(locks, t))
           /\ Total(Slopes(next, t)) = Total(Slopes(locks, t))
           /\ \A s \in Nat : t < s => Total(Ending(next, s)) = Total(Ending(locks, s))
<1>1. locks[owner] \in Lock /\ locks[to] \in Lock /\ next[to] \in Lock
  OBVIOUS
<1>2. \A r \in Nat : locks[to].end > r =>
          /\ Slope(next[to], r) = Slope(locks[to], r) + Slope(locks[owner], r)
          /\ Bias(next[to], r) = Bias(locks[to], r) + Bias(locks[owner], r)
  BY <1>1, MergedWeighs
<1>3. Total(Biases(next, t)) = Total(Biases(locks, t))
  <2> DEFINE f == Biases(locks, t)
             g == Biases(next, t)
  <2>1. f \in [Users -> Nat] /\ g \in [Users -> Nat]
    BY WeightsType
  <2>2. g[owner] = 0 /\ g[to] = f[to] + f[owner] /\ \A v \in Users \ {owner, to} : g[v] = f[v]
    BY <1>2, NoLockWeighs DEF Biases
  <2> HIDE DEF f, g
  <2>3. Total(g) = Total(f)
    BY <2>1, <2>2, TotalMoved
  <2> QED
    BY <2>3 DEF f, g
<1>4. Total(Slopes(next, t)) = Total(Slopes(locks, t))
  <2> DEFINE f == Slopes(locks, t)
             g == Slopes(next, t)
  <2>1. f \in [Users -> Nat] /\ g \in [Users -> Nat]
    BY WeightsType
  <2>2. g[owner] = 0 /\ g[to] = f[to] + f[owner] /\ \A v \in Users \ {owner, to} : g[v] = f[v]
    BY <1>2, NoLockWeighs DEF Slopes
  <2> HIDE DEF f, g
  <2>3. Total(g) = Total(f)
    BY <2>1, <2>2, TotalMoved
  <2> QED
    BY <2>3 DEF f, g
<1>5. ASSUME NEW s \in Nat, t < s PROVE Total(Ending(next, s)) = Total(Ending(locks, s))
  <2> DEFINE f == Ending(locks, s)
             g == Ending(next, s)
  <2>1. s \in Nat \ {0} /\ s - 1 \in Nat
    BY <1>5, SMT
  <2>2. f \in [Users -> Nat] /\ g \in [Users -> Nat]
    BY <2>1, EndingType
  <2>3. g[owner] = 0
    <3>1. NoLock.end # s
      BY <2>1, NoLockWeighs
    <3> QED
      BY <3>1 DEF Ending
  <2>4. g[to] = f[to] + f[owner]
    <3>1. CASE locks[to].end = s
      <4>1. locks[to].end > s - 1
        BY <3>1, SMT
      <4> QED
        BY <1>2, <2>1, <3>1, <4>1 DEF Ending
    <3>2. CASE locks[to].end # s
      <4>1. g[to] = 0 /\ f[to] = 0 /\ f[owner] = 0
        BY <3>2 DEF Ending
      <4> QED
        BY <4>1, SMT
    <3> QED
      BY <3>1, <3>2
  <2>5. \A v \in Users \ {owner, to} : g[v] = f[v]
    BY DEF Ending
  <2> HIDE DEF f, g
  <2>6. Total(g) = Total(f)
    BY <2>2, <2>3, <2>4, <2>5, TotalMoved
  <2> QED
    BY <2>6 DEF f, g
<1> QED
  BY <1>3, <1>4, <1>5

-----------------------------------------------------------------------------
(***************************************************************************)
(* The walk keeps the sum                                                  *)
(***************************************************************************)
\* The time of the k-th point of the walk, counting the last point before it.
Reached(k) == IF k = 0 THEN LastPoint.ts ELSE WalkTime(k)

(* Steps of the walk begin in a week and do not leave it. *)
LEMMA ReachedTimes ==
    ASSUME TypeOK, NEW k \in 1..WalkWeeks, NEW b, b = WalkStart + (k - 1) * WEEK
    PROVE  /\ Reached(k - 1) \in 0..now
           /\ b \in Nat /\ IsMultiple(b, WEEK)
           /\ b <= Reached(k - 1) /\ Reached(k - 1) < b + WEEK
           /\ WalkStart + k * WEEK = b + WEEK
           /\ b + WEEK > LastPoint.ts
           /\ Reached(k - 1) <= WalkTime(k)
           /\ WalkTime(k) \in 0..now
           /\ WalkTime(k) = IF b + WEEK > now THEN now ELSE b + WEEK
<1>1. /\ WalkStart \in Nat /\ k \in Nat /\ k >= 1 /\ WEEK \in Nat \ {0} /\ now \in Nat
      /\ LastPoint.ts \in 0..now /\ WalkWeeks \in Nat
      /\ WalkStart <= LastPoint.ts /\ LastPoint.ts < WalkStart + WEEK
  <2>1. WalkWeeks \in Nat
    BY WalkBounds
  <2>2. k \in Nat /\ k >= 1
    BY <2>1, SMT
  <2> QED
    BY <2>1, <2>2, WalkBounds, LastPointType, EscrowConstants
<1>2. WalkStart + k * WEEK = b + WEEK /\ k - 1 \in Nat /\ (k - 1) * WEEK \in Nat
      /\ WalkStart <= b
  BY <1>1, SMT
<1>3. b \in Nat /\ IsMultiple(b, WEEK)
  BY <1>1, <1>2, WeekTimes
<1>4. WalkTime(k) \in 0..now /\ WalkTime(k) = (IF b + WEEK > now THEN now ELSE b + WEEK)
      /\ LastPoint.ts <= WalkTime(k)
  BY <1>2, WalkTimes DEF WalkTime
<1>5. b + WEEK > LastPoint.ts
  BY <1>1, <1>2, <1>3, SMT
<1>6. CASE k = 1
  <2>1. Reached(k - 1) = LastPoint.ts /\ b = WalkStart
    BY <1>1, <1>6, SMT DEF Reached
  <2> QED
    BY <1>1, <1>2, <1>3, <1>4, <1>5, <2>1
<1>7. CASE k # 1
  <2>1. k - 1 \in 1..WalkWeeks /\ k - 1 < WalkWeeks /\ k - 1 # 0 /\ k > 1
    BY <1>1, <1>7, SMT
  <2>2. Reached(k - 1) = WalkTime(k - 1)
    BY <2>1 DEF Reached
  <2>3. WalkTime(k - 1) = b /\ WalkTime(k - 1) \in 0..now /\ WalkTime(k - 1) <= WalkTime(k)
    BY <2>1, WalkTimes
  <2>4. b < b + WEEK
    BY <1>1, <1>3, SMT
  <2> QED
    BY <1>2, <1>3, <1>4, <1>5, <2>2, <2>3, <2>4
<1> QED
  BY <1>6, <1>7

(* Between steps of the walk no lock ends. *)
LEMMA NoneEndsBetween ==
    ASSUME TypeOK, LocksOK, NEW k \in 1..WalkWeeks, NEW t \in Nat, t <= now,
           t < WalkStart + k * WEEK \/ t <= WalkTime(k)
    PROVE  /\ NoneEnds(locked, Reached(k - 1), t - 1)
           /\ t < WalkStart + k * WEEK => NoneEnds(locked, Reached(k - 1), t)
<1> DEFINE b == WalkStart + (k - 1) * WEEK
<1>1. /\ Reached(k - 1) \in Nat /\ b \in Nat /\ IsMultiple(b, WEEK) /\ b <= Reached(k - 1)
      /\ WalkStart + k * WEEK = b + WEEK
      /\ WalkTime(k) = IF b + WEEK > now THEN now ELSE b + WEEK
  BY ReachedTimes, SMT
<1>2. /\ locked \in [Users -> Lock]
      /\ \A u \in Users : locked[u].end # MaxUint => IsMultiple(locked[u].end, WEEK)
  BY DEF TypeOK, LocksOK
<1> HIDE DEF b
<1>3. WEEK \in Nat \ {0} /\ now \in Nat /\ now < MaxUint /\ MaxUint \in Nat
  BY LastPointType, EscrowConstants, SMT
<1>4. t - 1 \in Int /\ t - 1 < b + WEEK /\ t - 1 < MaxUint /\ t < MaxUint
  BY <1>1, <1>3, SMT
<1>5. NoneEnds(locked, Reached(k - 1), t - 1)
  BY <1>1, <1>2, <1>4, NoneWithinWeek
<1>6. ASSUME t < WalkStart + k * WEEK PROVE NoneEnds(locked, Reached(k - 1), t)
  <2>1. t < b + WEEK
    BY <1>1, <1>6
  <2> QED
    BY <1>1, <1>2, <1>4, <2>1, NoneWithinWeek
<1> QED
  BY <1>5, <1>6

(* A sum carried on. *)
LEMMA CarriedSum ==
    ASSUME NEW locks \in [Users -> Lock], NEW s \in Nat, NEW t \in Nat, s <= t, t < MaxUint,
           NoneEnds(locks, s, t - 1), NEW d \in Int,
           Total(Slopes(locks, s)) + d = Total(Slopes(locks, t))
    PROVE  Carried(SumPoint(locks, s), t, d) = SumPoint(locks, t)
<1> DEFINE A == Total(Biases(locks, s))
           S == Total(Slopes(locks, s))
           B == Total(Biases(locks, t))
           C == Total(Slopes(locks, t))
<1>1. A \in Nat /\ S \in Nat /\ B \in Nat /\ C \in Nat
  BY WeightsType
<1>2. A - S * (t - s) = B
  BY SumLine
<1>3. S + d = C
  OBVIOUS
<1>4. SumPoint(locks, s) = [bias |-> A, slope |-> S, ts |-> s]
      /\ SumPoint(locks, t) = [bias |-> B, slope |-> C, ts |-> t]
  BY DEF SumPoint
<1> HIDE DEF A, S, B, C
<1>5. Positive(A - S * (t - s)) = B /\ Positive(S + d) = C
  BY <1>1, <1>2, <1>3, PositiveType
<1>6. Carried([bias |-> A, slope |-> S, ts |-> s], t, d) = [bias |-> B, slope |-> C, ts |-> t]
  BY <1>5 DEF Carried
<1> QED
  BY <1>4, <1>6

(* A step of the walk goes from sum to sum. *)
LEMMA WalkStepIsSum ==
    ASSUME TypeOK, LocksOK, ScheduleIsSum, NEW f, Walked(f), NEW k \in 1..WalkWeeks,
           f[k - 1] = SumPoint(locked, Reached(k - 1))
    PROVE  f[k] = SumPoint(locked, WalkTime(k))
<1> DEFINE s == Reached(k - 1)
           b == WalkStart + (k - 1) * WEEK
           t == WalkStart + k * WEEK
<1>1. /\ s \in 0..now /\ s < b + WEEK /\ t = b + WEEK /\ b \in Nat
      /\ t > LastPoint.ts /\ s <= WalkTime(k)
      /\ WalkTime(k) = IF b + WEEK > now THEN now ELSE b + WEEK
  BY ReachedTimes
<1>2. now \in Nat /\ now < MaxUint /\ MaxUint \in Nat /\ locked \in [Users -> Lock]
      /\ WEEK \in Nat \ {0} /\ now <= MaxTime /\ MAXTIME \in Nat /\ MaxTime \in Nat
  BY LastPointType, EscrowConstants, SMT DEF TypeOK
<1>3. f[k] = WalkStep(SumPoint(locked, s), t)
  BY DEF Walked
<1>4. CASE t > now
  <2>1. f[k] = Carried(SumPoint(locked, s), now, 0) /\ WalkTime(k) = now
    BY <1>1, <1>3, <1>4 DEF WalkStep
  <2>2. NoneEnds(locked, s, now - 1) /\ NoneEnds(locked, s, now)
    BY <1>2, <1>4, NoneEndsBetween, SMT
  <2>3. s \in Nat /\ s <= now
    BY <1>1, <1>2, SMT
  <2> HIDE DEF s, b, t
  <2>4. Slopes(locked, now) = Slopes(locked, s)
    BY <1>2, <2>2, <2>3, SumFlat
  <2>5. Total(Slopes(locked, s)) + 0 = Total(Slopes(locked, now))
    <3>1. Total(Slopes(locked, s)) \in Nat
      BY <1>2, <2>3, WeightsType
    <3> QED
      BY <2>4, <3>1, SMT
  <2>6. Carried(SumPoint(locked, s), now, 0) = SumPoint(locked, now)
    BY <1>2, <2>2, <2>3, <2>5, CarriedSum, SMT
  <2> QED
    BY <2>1, <2>6
<1>5. CASE ~(t > now)
  <2>1. f[k] = Carried(SumPoint(locked, s), t, slope_changes[t]) /\ WalkTime(k) = t
    BY <1>1, <1>3, <1>5 DEF WalkStep
  <2>2. t \in Nat /\ t <= now /\ s \in Nat /\ s < t /\ t < MaxUint /\ t # 0 /\ s <= t
    BY <1>1, <1>2, <1>5, SMT
  <2>3. NoneEnds(locked, s, t - 1)
    BY <1>1, <2>1, <2>2, NoneEndsBetween
  <2> HIDE DEF s, b, t
  <2>4. Total(Slopes(locked, s)) = Total(Slopes(locked, t)) + Total(Ending(locked, t))
    BY <1>2, <2>2, <2>3, SumEnds
  <2>5. t \in Times
    BY <1>2, <2>2, SMT DEF Times
  <2>6. slope_changes[t] = -Total(Ending(locked, t))
    BY <1>1, <2>5 DEF ScheduleIsSum
  <2>7. /\ Total(Slopes(locked, s)) \in Nat /\ Total(Slopes(locked, t)) \in Nat
        /\ Total(Ending(locked, t)) \in Nat
    BY <1>2, <2>2, WeightsType, EndingType
  <2>8. /\ slope_changes[t] \in Int
        /\ Total(Slopes(locked, s)) + slope_changes[t] = Total(Slopes(locked, t))
    BY <2>4, <2>6, <2>7, SMT
  <2>9. Carried(SumPoint(locked, s), t, slope_changes[t]) = SumPoint(locked, t)
    BY <1>2, <2>2, <2>3, <2>8, CarriedSum
  <2> QED
    BY <2>1, <2>9
<1> QED
  BY <1>4, <1>5

(* Every point of the walk is the sum at its time. *)
LEMMA WalkIsSum ==
    ASSUME TypeOK, LocksOK, LastIsSum, ScheduleIsSum, NEW f, Walked(f), NEW k \in 0..WalkWeeks
    PROVE  f[k] = SumPoint(locked, Reached(k))
<1> DEFINE G == {m \in Nat : m <= WalkWeeks => f[m] = SumPoint(locked, Reached(m))}
<1>1. WalkWeeks \in Nat
  BY WalkBounds
<1>2. 0 \in G
  BY DEF Walked, LastIsSum, Reached
<1>3. ASSUME NEW m \in Nat, m \in G PROVE m + 1 \in G
  <2>1. SUFFICES ASSUME m + 1 <= WalkWeeks PROVE f[m + 1] = SumPoint(locked, Reached(m + 1))
    OBVIOUS
  <2>2. m + 1 \in 1..WalkWeeks /\ (m + 1) - 1 = m /\ m <= WalkWeeks /\ m + 1 # 0
    BY <1>1, <2>1, SMT
  <2>3. f[(m + 1) - 1] = SumPoint(locked, Reached((m + 1) - 1))
    BY <1>3, <2>2
  <2>4. f[m + 1] = SumPoint(locked, WalkTime(m + 1))
    BY <2>2, <2>3, WalkStepIsSum
  <2> QED
    BY <2>2, <2>4 DEF Reached
<1> HIDE DEF G
<1>4. k \in Nat /\ k <= WalkWeeks
  BY <1>1, SMT
<1>5. k \in G
  BY <1>2, <1>3, <1>4, StepInduction
<1> QED
  BY <1>4, <1>5 DEF G

-----------------------------------------------------------------------------
(***************************************************************************)
(* The sums are kept                                                       *)
(***************************************************************************)
\* The loop over weeks reaches now before it ends: the total was checkpointed
\* within the last CHECKPOINT_WEEKS weeks.
CheckpointedInTime == now - RoundToWeek(LastPoint.ts) <= CHECKPOINT_WEEKS * WEEK

(* Checkpointed in time, the walk ends now. *)
LEMMA WalkReachesNow ==
    ASSUME TypeOK, CheckpointedInTime
    PROVE  WalkTime(WalkWeeks) = now /\ Reached(WalkWeeks) = now
<1>1. /\ WalkStart \in Nat /\ WalkWeeks \in Nat \ {0} /\ now \in Nat /\ WEEK \in Nat
      /\ CHECKPOINT_WEEKS \in Nat
  BY WalkBounds, LastPointType, EscrowConstants
<1>2. CHECKPOINT_WEEKS * WEEK \in Nat /\ WalkWeeks * WEEK \in Nat
  BY <1>1, SMT
<1>3. now - WalkStart <= CHECKPOINT_WEEKS * WEEK
  BY DEF CheckpointedInTime, WalkStart
<1>4. now <= WalkStart + CHECKPOINT_WEEKS * WEEK
  BY <1>1, <1>2, <1>3, SMT
<1>5. now <= WalkStart + WalkWeeks * WEEK
  BY <1>4, WalkBounds
<1>6. WalkTime(WalkWeeks) = now
  BY <1>1, <1>2, <1>5, SMT DEF WalkTime
<1> QED
  BY <1>1, <1>6, SMT DEF Reached

\* The total walks on to the sum over the locks as they will be, and the
\* schedule is theirs.
SumStep ==
    /\ \E f : TotalStep(f, SumPoint(locked', now))
    /\ \A s \in Times : s > now => slope_changes'[s] = -Total(Ending(locked', s))

(* The sum at the end of the walk. *)
LEMMA WalkEndsWithSum ==
    ASSUME EscrowInv, SumInv, CheckpointedInTime, NEW f, Walked(f)
    PROVE  /\ f[WalkWeeks] = SumPoint(locked, now)
           /\ SumPoint(locked, now).ts = WalkTime(WalkWeeks)
           /\ \A s \in Times : s > now => slope_changes[s] = -Total(Ending(locked, s))
<1>1. TypeOK /\ LocksOK /\ LastIsSum /\ ScheduleIsSum
  BY DEF EscrowInv, SumInv
<1>2. WalkTime(WalkWeeks) = now /\ Reached(WalkWeeks) = now
  BY <1>1, WalkReachesNow
<1>3. WalkWeeks \in 0..WalkWeeks
  BY <1>1, WalkBounds, SMT
<1>4. f[WalkWeeks] = SumPoint(locked, now)
  BY <1>1, <1>2, <1>3, WalkIsSum
<1>5. \A s \in Times : s > now => s > LastPoint.ts
  BY <1>1, LastPointType, EscrowConstants, SMT DEF Times
<1> QED
  BY <1>1, <1>2, <1>4, <1>5 DEF ScheduleIsSum, SumPoint

(* A sum is a point. *)
LEMMA SumPointType ==
    ASSUME now \in Nat, NEW locks \in [Users -> Lock]
    PROVE  SumPoint(locks, now) \in Point /\ SumPoint(locks, now).ts = now
<1>1. Total(Biases(locks, now)) \in Nat /\ Total(Slopes(locks, now)) \in Nat
  BY WeightsType
<1>2. now \in 0..now
  BY SMT
<1> QED
  BY <1>1, <1>2 DEF SumPoint, Point

(* The change of one lock is what _checkpoint exchanges. *)
LEMMA RelocksSum ==
    ASSUME EscrowInv, SumInv, CheckpointedInTime, NEW u \in Users, NEW new, Relocks(u, new)
    PROVE  SumStep
<1>1. /\ new \in Lock /\ locked' = [locked EXCEPT ![u] = new]
      /\ Checkpoint(u, locked[u], new) /\ now' = now
  BY DEF Relocks
<1>2. /\ TypeOK /\ locked \in [Users -> Lock] /\ locked[u] \in Lock
      /\ locked' \in [Users -> Lock] /\ now \in Nat
      /\ MaxUint \in Nat /\ MaxUint >= MaxTime + MAXTIME + WEEK
      /\ MaxTime \in Nat /\ MAXTIME \in Nat /\ WEEK \in Nat \ {0}
  BY <1>1, LastPointType, EscrowConstants DEF EscrowInv, TypeOK
<1> DEFINE a == PointOf(locked[u], now)
           b == PointOf(new, now)
<1>3. PICK f : Walked(f) /\ Grows(f, Exchanged(f[WalkWeeks], a, b))
  BY <1>1, <1>2, CheckpointShape
<1>4. /\ f[WalkWeeks] = SumPoint(locked, now)
      /\ SumPoint(locked, now).ts = WalkTime(WalkWeeks)
      /\ \A s \in Times : s > now => slope_changes[s] = -Total(Ending(locked, s))
  BY <1>3, WalkEndsWithSum
<1>5. /\ a \in Point /\ b \in Point
      /\ a.bias = Bias(locked[u], now) /\ a.slope = Slope(locked[u], now)
      /\ b.bias = Bias(new, now) /\ b.slope = Slope(new, now)
  BY <1>1, <1>2, PointOfType
<1>6. /\ SumPoint(locked, now) \in Point /\ SumPoint(locked', now) \in Point
      /\ SumPoint(locked, now).ts = now /\ SumPoint(locked', now).ts = now
  BY <1>2, SumPointType
<1>7. Exchanged(SumPoint(locked, now), a, b) = SumPoint(locked', now)
  <2> DEFINE p == SumPoint(locked, now)
             x == Total(Biases(locked', now))
             y == Total(Slopes(locked', now))
  <2>1. p.bias = Total(Biases(locked, now)) /\ p.slope = Total(Slopes(locked, now))
    BY DEF SumPoint
  <2>2. /\ x = p.bias + (b.bias - a.bias)
        /\ y = p.slope + (b.slope - a.slope)
    <3> DEFINE next == locked'
    <3>1. next = [locked EXCEPT ![u] = new]
      BY <1>1
    <3> HIDE DEF next
    <3>2. /\ SumShifts(Biases(locked, now), Biases(next, now), Bias(locked[u], now), Bias(new, now))
          /\ SumShifts(Slopes(locked, now), Slopes(next, now), Slope(locked[u], now), Slope(new, now))
      BY <1>1, <1>2, <3>1, SumExchanged, Zenon
    <3> HIDE DEF a, b, p
    <3> QED
      BY <1>5, <2>1, <3>2 DEF next, SumShifts
  <2>3. x \in Nat /\ y \in Nat
    BY <1>2, WeightsType
  <2>4. SumPoint(locked', now) = [bias |-> x, slope |-> y, ts |-> now]
    BY DEF SumPoint
  <2> HIDE DEF a, b, p, x, y
  <2>5. Positive(x) = x /\ Positive(y) = y
    BY <2>3, PositiveType, SMT
  <2>6. /\ Exchanged(p, a, b) \in Point /\ Exchanged(p, a, b).ts = p.ts
        /\ Exchanged(p, a, b).bias = x /\ Exchanged(p, a, b).slope = y
    BY <1>5, <1>6, <2>2, <2>5, ExchangedType DEF p
  <2>7. p.ts = now
    BY <1>6 DEF p
  <2>8. Exchanged(p, a, b) = [bias |-> x, slope |-> y, ts |-> now]
    BY <2>6, <2>7 DEF Point
  <2> QED
    BY <2>4, <2>8 DEF p
<1> HIDE DEF a, b
<1>8. TotalStep(f, SumPoint(locked', now))
  BY <1>3, <1>4, <1>6, <1>7 DEF TotalStep
<1>9. ASSUME NEW s \in Times, s > now PROVE slope_changes'[s] = -Total(Ending(locked', s))
  <2> DEFINE p == Takes(locked[u], s, now)
             q == Takes(new, s, now)
             E == Total(Ending(locked, s))
  <2>1. s \in Nat \ {0} /\ s \in Nat /\ s < MaxUint
    BY <1>2, <1>9, SMT DEF Times
  <2>2. slope_changes'[s] = slope_changes[s] + (p - q)
    <3>1. slope_changes' = Rescheduled(locked[u], new)
      BY <1>1 DEF Checkpoint
    <3> QED
      BY <1>1, <1>2, <3>1, RescheduledKept DEF Takes
  <2>3. slope_changes[s] = -E
    BY <1>4, <1>9
  <2>4. Total(Ending(locked', s)) = E + (q - p)
    <3> DEFINE next == locked'
    <3>1. next = [locked EXCEPT ![u] = new]
      BY <1>1
    <3>2. now < s
      BY <1>2, <1>9, <2>1, SMT
    <3> HIDE DEF next
    <3>3. SumShifts(Ending(locked, s), Ending(next, s), p, q)
      BY <1>1, <1>2, <2>1, <3>1, <3>2, EndingExchanged, Zenon
    <3> HIDE DEF p, q
    <3> QED
      BY <3>3 DEF next, SumShifts
  <2>5. p \in Nat /\ q \in Nat /\ E \in Nat
    BY <1>1, <1>2, <2>1, LockNumbers, EndingType DEF Takes
  <2> HIDE DEF p, q, E
  <2> QED
    BY <2>2, <2>3, <2>4, <2>5, SMT
<1> QED
  BY <1>8, <1>9 DEF SumStep

(* A transfer moves a lock's weight and changes no sum. *)
LEMMA MergeSum ==
    ASSUME EscrowInv, SumInv, CheckpointedInTime,
           NEW owner \in Users, NEW to \in Users, Merges(owner, to)
    PROVE  SumStep
<1>1. /\ owner # to
      /\ locked[owner].amount > 0 /\ locked[to].amount > 0
      /\ locked[owner].end = locked[to].end /\ locked[to].end > now
      /\ MergePositions(owner, to)
      /\ now' = now /\ slope_changes' = slope_changes
  BY DEF Merges
<1>2. /\ TypeOK /\ LocksOK /\ locked \in [Users -> Lock] /\ now \in Nat
  BY LastPointType DEF EscrowInv, TypeOK
<1>3. /\ locked' \in [Users -> Lock]
      /\ locked'[owner] = NoLock
      /\ locked'[to].amount = locked[to].amount + locked[owner].amount
      /\ locked'[to].end = locked[to].end
      /\ \A v \in Users \ {owner, to} : locked'[v] = locked[v]
  BY <1>1, <1>2, MergeShape
<1>4. PICK f : Walked(f) /\ Grows(f, f[WalkWeeks])
  BY <1>1, <1>2, MergeShape
<1>5. /\ f[WalkWeeks] = SumPoint(locked, now)
      /\ SumPoint(locked, now).ts = WalkTime(WalkWeeks)
      /\ \A s \in Times : s > now => slope_changes[s] = -Total(Ending(locked, s))
  BY <1>4, WalkEndsWithSum
<1>6. IsMultiple(locked[owner].amount, MAXTIME) /\ IsMultiple(locked[to].amount, MAXTIME)
  BY <1>2 DEF LocksOK
<1> DEFINE next == locked'
<1>7. /\ Total(Biases(next, now)) = Total(Biases(locked, now))
      /\ Total(Slopes(next, now)) = Total(Slopes(locked, now))
      /\ \A s \in Nat : now < s => Total(Ending(next, s)) = Total(Ending(locked, s))
  <2>1. /\ next \in [Users -> Lock]
        /\ next[owner] = NoLock
        /\ next[to].amount = locked[to].amount + locked[owner].amount
        /\ next[to].end = locked[to].end
        /\ \A v \in Users \ {owner, to} : next[v] = locked[v]
    BY <1>3
  <2> HIDE DEF next
  <2> QED
    BY <1>1, <1>2, <1>6, <2>1, SumMerged
<1>8. SumPoint(locked', now) = SumPoint(locked, now)
  BY <1>7 DEF SumPoint
<1>9. TotalStep(f, SumPoint(locked', now))
  BY <1>2, <1>4, <1>5, <1>8, SumPointType DEF TotalStep
<1>10. ASSUME NEW s \in Times, s > now PROVE slope_changes'[s] = -Total(Ending(locked', s))
  <2>1. s \in Nat /\ now < s
    BY <1>2, <1>10, EscrowConstants, SMT DEF Times
  <2> QED
    BY <1>1, <1>5, <1>7, <1>10, <2>1
<1> QED
  BY <1>9, <1>10 DEF SumStep

(* checkpoint() walks on and changes no lock. *)
LEMMA CallSum ==
    ASSUME EscrowInv, SumInv, CheckpointedInTime, CheckpointCall
    PROVE  SumStep
<1>1. TypeOK /\ locked \in [Users -> Lock] /\ now \in Nat
  BY LastPointType DEF EscrowInv, TypeOK
<1>2. locked' = locked /\ slope_changes' = slope_changes
  BY <1>1, CallShape
<1>3. PICK f : Walked(f) /\ Grows(f, f[WalkWeeks])
  BY <1>1, CallShape
<1>4. /\ f[WalkWeeks] = SumPoint(locked, now)
      /\ SumPoint(locked, now).ts = WalkTime(WalkWeeks)
      /\ \A s \in Times : s > now => slope_changes[s] = -Total(Ending(locked, s))
  BY <1>3, WalkEndsWithSum
<1>5. TotalStep(f, SumPoint(locked', now))
  BY <1>1, <1>2, <1>3, <1>4, SumPointType DEF TotalStep
<1> QED
  BY <1>2, <1>4, <1>5 DEF SumStep

(* Every operation does. *)
LEMMA OperationSum ==
    ASSUME EscrowInv, SumInv, CheckpointedInTime, Operation
    PROVE  SumStep
<1>0. TypeOK /\ LocksOK
  BY DEF EscrowInv
<1>1. ASSUME NEW u \in Users, NEW v \in Values, NEW t \in Times, CreateLock(u, v, t)
      PROVE  SumStep
  BY <1>0, <1>1, CreateRelocks, RelocksSum
<1>2. ASSUME NEW p \in Users, NEW u \in Users, NEW v \in Values, IncreaseAmount(p, u, v)
      PROVE  SumStep
  BY <1>0, <1>2, IncreaseRelocks, RelocksSum
<1>3. ASSUME NEW u \in Users, NEW t \in Times, IncreaseUnlockTime(u, t)
      PROVE  SumStep
  BY <1>0, <1>3, ExtendRelocks, RelocksSum
<1>4. ASSUME NEW u \in Users, InfiniteLockToggle(u)
      PROVE  SumStep
  BY <1>0, <1>4, ToggleRelocks, RelocksSum
<1>5. ASSUME NEW u \in Users, Withdraw(u)
      PROVE  SumStep
  BY <1>0, <1>5, WithdrawRelocks, RelocksSum
<1>6. ASSUME NEW owner \in Users, NEW to \in Users, Transfer(owner, to)
      PROVE  SumStep
  BY <1>0, <1>6, TransferMerges, MergeSum
<1>7. CASE CheckpointCall
  BY <1>7, CallSum
<1> QED
  BY <1>1, <1>2, <1>3, <1>4, <1>5, <1>6, <1>7 DEF Operation

(* Votes read from the last point are the weight of the lock. *)
LEMMA VotesNow ==
    ASSUME NEW lock \in Lock, NEW h \in Seq(Point), Len(h) > 0, NEW t \in Nat, t < MaxUint,
           \A i \in 1..Len(h) : h[i].ts \in Nat /\ h[i].ts <= t,
           Last(h) = PointOf(lock, Last(h).ts)
    PROVE  VotesAt(h, t) = Bias(lock, t)
<1> DEFINE n == Len(h)
           s == Last(h).ts
<1>1. n \in Nat /\ n \in 1..n /\ 1 \in 1..n
  BY LenProperties, SMT
<1>2. PICK i : IsLastAt(h, t, i) /\ LastAt(h, t) = h[i]
  BY <1>1, LastAtFinds
<1>3. i = n
  <2>1. i \in 1..n /\ n <= i
    BY <1>1, <1>2 DEF IsLastAt
  <2> HIDE DEF n
  <2> QED
    BY <1>1, <2>1, SMT
<1>4. LastAt(h, t) = PointOf(lock, s) /\ s \in Nat /\ s <= t
  BY <1>1, <1>2, <1>3 DEF Last
<1> HIDE DEF s
<1>5. VotesAt(h, t) = Positive(Bias(lock, s) - Slope(lock, s) * (t - s))
  <2> DEFINE p == PointOf(lock, s)
  <2>1. p.bias = Bias(lock, s) /\ p.slope = Slope(lock, s) /\ p.ts = s
    BY DEF PointOf
  <2> HIDE DEF p
  <2>2. VotesAt(h, t) = Positive(p.bias - p.slope * (t - p.ts))
    BY <1>4 DEF VotesAt, p
  <2> QED
    BY <2>1, <2>2
<1> QED
  BY <1>4, <1>5, LockLine

(* Since the last checkpoint the users' votes are the weights of their locks. *)
LEMMA VotesSinceLast ==
    EscrowInv /\ UsersBehind =>
        \A t \in Nat : LastPoint.ts <= t /\ t <= now =>
            PastVotes(user_point_history, t) = Biases(locked, t)
<1> SUFFICES ASSUME EscrowInv, UsersBehind, NEW t \in Nat, LastPoint.ts <= t, t <= now
             PROVE  PastVotes(user_point_history, t) = Biases(locked, t)
  OBVIOUS
<1>1. TypeOK /\ UsersCurrent
  BY DEF EscrowInv
<1>2. /\ now \in Nat /\ now <= MaxTime /\ LastPoint.ts \in Nat /\ MaxUint \in Nat
      /\ MaxTime \in Nat /\ MAXTIME \in Nat /\ WEEK \in Nat
      /\ MaxUint >= MaxTime + MAXTIME + WEEK /\ WEEK # 0
  BY <1>1, LastPointType, EscrowConstants, SMT
<1>3. t < MaxUint
  BY <1>2, SMT
<1>4. ASSUME NEW u \in Users PROVE VotesAt(user_point_history[u], t) = Bias(locked[u], t)
  <2> DEFINE h == user_point_history[u]
  <2>1. h \in Seq(Point) /\ locked[u] \in Lock /\ Len(h) > 0
        /\ Last(h) = PointOf(locked[u], Last(h).ts)
    BY <1>1 DEF TypeOK, UsersCurrent
  <2>2. ASSUME NEW i \in 1..Len(h) PROVE h[i].ts \in Nat /\ h[i].ts <= t
    <3>1. h[i] \in Point
      BY <2>1, ElementOfSeq
    <3>2. h[i].ts \in Nat
      BY <1>2, <3>1, SMT DEF Point
    <3>3. h[i].ts <= LastPoint.ts
      BY DEF UsersBehind
    <3> HIDE DEF h
    <3> QED
      BY <1>2, <3>2, <3>3, SMT
  <2> HIDE DEF h
  <2>3. VotesAt(h, t) = Bias(locked[u], t)
    BY <1>3, <2>1, <2>2, VotesNow
  <2> QED
    BY <2>3 DEF h
<1> QED
  BY <1>4 DEF PastVotes, Biases

(* With it what the users had before now is not changed. *)
LEMMA PastVotesFrozen ==
    ASSUME EscrowInv, Checkpoints, NEW t \in 0 .. now - 1
    PROVE  PastVotes(user_point_history', t) = PastVotes(user_point_history, t)
  BY UsersFrozen DEF PastVotes

(* The points of the total are in order up to the last. *)
LEMMA TotalAheadKept ==
    ASSUME EscrowInv, TotalAhead, NEW f, NEW e, TotalStep(f, e), CheckpointedInTime, now' = now
    PROVE  /\ TotalAhead'
           /\ LastPoint' = e /\ e.ts = now
           /\ Len(point_history') = Len(point_history) + WalkWeeks
           /\ Len(point_history') > 1
           /\ point_history'[2].ts <= now
<1> DEFINE n == Len(point_history)
           m == n + WalkWeeks
<1>1. TypeOK /\ HistoryOK
  BY DEF EscrowInv
<1>2. /\ n \in Nat \ {0} /\ WalkWeeks \in Nat \ {0} /\ Len(point_history') = m
      /\ point_history' \in Seq(Point)
      /\ \A i \in 1..n : point_history'[i] = point_history[i]
      /\ \A k \in 1..WalkWeeks : point_history'[n + k].ts = WalkTime(k)
      /\ n = 1 => WalkWeeks = 1 /\ WalkTime(1) = now
  BY <1>1, HistoryGoesOn
<1>3. /\ now \in Nat /\ now <= MaxTime /\ LastPoint.ts \in 0..now
      /\ n > 1 => LastPoint = point_history[n]
      /\ ~(n > 1) => LastPoint.ts = now
  BY <1>1, LastPointType
<1>4. e.ts = now
  BY <1>1, WalkReachesNow DEF TotalStep
<1>5. m > 1 /\ m \in Nat /\ point_history'[m] = e
  BY <1>2, SMT DEF TotalStep, Grows
<1>6. LastPoint' = e
  <2>1. Len(point_history') > 1
    BY <1>2, <1>5
  <2>2. LastPoint' = point_history'[Len(point_history')]
    BY <2>1 DEF LastPoint, Last
  <2> QED
    BY <1>2, <1>5, <2>2
<1>7. StartTime <= now /\ StartTime \in Nat
  BY EscrowConstants DEF TotalAhead
<1> HIDE DEF n, m
<1>8. StartTime <= LastPoint.ts
  <2>1. CASE n > 1
    <3>1. n \in 2..n
      BY <1>2, <2>1, SMT
    <3> QED
      BY <1>3, <2>1, <3>1 DEF TotalAhead, n
  <2>2. CASE ~(n > 1)
    BY <1>3, <1>7, <2>2
  <2> QED
    BY <2>1, <2>2
<1>9. ASSUME NEW i \in 2..m
      PROVE  StartTime <= point_history'[i].ts /\ point_history'[i].ts <= now
  <2>1. CASE i <= n
    <3>1. i \in 2..n /\ i \in 1..n
      BY <1>2, <1>5, <2>1, SMT
    <3>2. StartTime <= point_history[i].ts /\ point_history[i].ts <= LastPoint.ts
      BY <3>1 DEF TotalAhead, n
    <3>3. point_history[i] \in Point
      BY <1>1, <3>1, ElementOfSeq DEF TypeOK, n
    <3>4. point_history[i].ts \in Nat
      BY <1>3, <3>3, SMT DEF Point
    <3>5. point_history'[i] = point_history[i]
      BY <1>2, <3>1
    <3> QED
      BY <1>3, <3>2, <3>4, <3>5, SMT
  <2>2. CASE i > n
    <3>1. PICK k \in 1..WalkWeeks : i = n + k
      BY <1>2, <1>5, <2>2, SMT DEF m
    <3>2. WalkTime(k) \in 0..now /\ LastPoint.ts <= WalkTime(k)
      BY <1>1, <3>1, WalkTimes
    <3>3. point_history'[i].ts = WalkTime(k)
      BY <1>2, <3>1
    <3> QED
      BY <1>3, <1>7, <1>8, <3>2, <3>3, SMT
  <2> QED
    BY <1>2, <1>5, <2>1, <2>2, SMT
<1>10. 2 \in 2..m
  BY <1>5, SMT
<1>11. TotalAhead'
  <2>1. \A i \in 2 .. Len(point_history') :
           StartTime <= point_history'[i].ts /\ point_history'[i].ts <= LastPoint'.ts
    BY <1>2, <1>4, <1>6, <1>9
  <2>2. now' >= StartTime
    BY <1>3, <1>7
  <2> QED
    BY <2>1, <2>2 DEF TotalAhead
<1> QED
  BY <1>2, <1>4, <1>5, <1>6, <1>9, <1>10, <1>11 DEF m, n

(* No point of a user gets ahead of the total. *)
LEMMA UsersBehindKept ==
    ASSUME EscrowInv, SumInv, NEW f, NEW e, TotalStep(f, e), CheckpointedInTime,
           \A v \in Users : UserStep(v), now' = now
    PROVE  UsersBehind'
<1> DEFINE n == Len(point_history)
<1>1. TypeOK /\ UsersCurrent /\ HistoryOK /\ TotalAhead /\ UsersBehind
  BY DEF EscrowInv, SumInv
<1>2. /\ LastPoint'.ts = now /\ Len(point_history') > 1 /\ point_history'[2].ts <= now
      /\ Len(point_history') = n + WalkWeeks
  BY <1>1, TotalAheadKept
<1>3. now \in Nat /\ LastPoint.ts \in Nat /\ LastPoint.ts <= now
  BY <1>1, LastPointType, SMT
<1>4. n \in Nat \ {0} /\ (n > 1 => point_history'[2] = point_history[2])
  <2>1. /\ n \in Nat \ {0}
        /\ \A i \in 1..n : point_history'[i] = point_history[i]
    BY <1>1, HistoryGoesOn
  <2> HIDE DEF n
  <2>2. n > 1 => 2 \in 1..n
    BY <2>1, SMT
  <2> QED
    BY <2>1, <2>2
<1> HIDE DEF n
<1>5. point_history'[2].ts \in Nat
  <2>1. point_history' \in Seq(Point)
    BY <1>1, HistoryGoesOn
  <2>2. point_history'[2] \in Point
    <3>1. 2 \in 1..Len(point_history')
      BY <1>2, <2>1, LenProperties, SMT
    <3> QED
      BY <2>1, <3>1, ElementOfSeq
  <2> QED
    BY <1>3, <2>2, SMT DEF Point
<1>6. ASSUME NEW v \in Users, NEW i \in 1..Len(user_point_history'[v]), NEW p,
             p = user_point_history'[v][i]
      PROVE  p.ts <= now /\ (p.ts < point_history'[2].ts => p.bias = 0 /\ p.slope = 0)
  <2> DEFINE h == user_point_history[v]
             q == PointOf(locked'[v], now)
  <2>1. h \in Seq(Point) /\ Len(h) \in Nat
    BY <1>1, LenProperties DEF TypeOK
  <2>2. ASSUME NEW j \in 1..Len(h), p = h[j]
        PROVE  p.ts <= now /\ (p.ts < point_history'[2].ts => p.bias = 0 /\ p.slope = 0)
    <3>1. h[j] \in Point
      BY <2>1, <2>2, ElementOfSeq
    <3>2. p.ts \in Nat
      BY <1>3, <2>2, <3>1, SMT DEF Point
    <3>3. /\ p.ts <= LastPoint.ts
          /\ n = 1 \/ p.ts < point_history[2].ts => p.bias = 0 /\ p.slope = 0
      BY <1>1, <2>2 DEF UsersBehind, n
    <3>4. p.ts <= now
      BY <1>3, <3>2, <3>3, SMT
    <3>5. n = 1 \/ n > 1
      BY <1>4, SMT
    <3> QED
      BY <1>4, <3>3, <3>4, <3>5
  <2>3. CASE user_point_history'[v] = h
    BY <1>6, <2>2, <2>3
  <2>4. CASE user_point_history'[v] = Append(h, q)
    <3>1. q.ts = now
      BY DEF PointOf
    <3> HIDE DEF h, q
    <3>2. CASE i <= Len(h)
      <4>1. i \in 1..Len(h)
        BY <2>1, <2>4, <3>2, AppendProperties, SMT
      <4>2. p = h[i]
        BY <1>6, <2>1, <2>4, <4>1, AppendProperties
      <4> QED
        BY <2>2, <4>1, <4>2
    <3>3. CASE ~(i <= Len(h))
      <4>1. i = Len(h) + 1
        BY <2>1, <2>4, <3>3, AppendProperties, SMT
      <4>2. p = q
        BY <1>6, <2>1, <2>4, <4>1, AppendProperties
      <4> QED
        BY <1>2, <1>3, <1>5, <3>1, <4>2, SMT
    <3> QED
      BY <3>2, <3>3
  <2> QED
    BY <1>1, <2>3, <2>4 DEF UserStep
<1>7. Len(point_history') # 1
  BY <1>2, SMT
<1> QED
  BY <1>2, <1>6, <1>7 DEF UsersBehind

(* Carried from a point that is the sum, the total is the sum of the past
   votes until the next step of the walk. *)
LEMMA SumAhead ==
    ASSUME EscrowInv, SumInv, NEW k \in 0 .. WalkWeeks - 1, NEW t \in Nat,
           Reached(k) <= t, t < WalkTime(k + 1),
           NEW p, p = SumPoint(locked, Reached(k))
    PROVE  p.bias - p.slope * (t - p.ts) = Total(PastVotes(user_point_history, t))
<1>1. TypeOK /\ LocksOK /\ UsersBehind /\ locked \in [Users -> Lock]
  BY DEF EscrowInv, SumInv, TypeOK
<1>2. WalkWeeks \in Nat \ {0}
  BY <1>1, WalkBounds
<1>3. k + 1 \in 1..WalkWeeks /\ (k + 1) - 1 = k /\ k \in Nat
  BY <1>2, SMT
<1>4. /\ Reached(k) \in 0..now /\ WalkTime(k + 1) \in 0..now
      /\ LastPoint.ts <= WalkTime(k + 1)
  BY <1>1, <1>3, ReachedTimes, WalkTimes
<1>5. /\ now \in Nat /\ now <= MaxTime /\ LastPoint.ts \in Nat
      /\ MaxTime \in Nat /\ MAXTIME \in Nat /\ WEEK \in Nat /\ MaxUint \in Nat
      /\ MaxUint >= MaxTime + MAXTIME + WEEK
  BY <1>1, LastPointType, EscrowConstants, SMT
<1>6. t <= now /\ t < MaxUint /\ t <= WalkTime(k + 1) /\ Reached(k) \in Nat
  BY <1>4, <1>5, SMT
<1>7. LastPoint.ts <= Reached(k)
  <2>1. CASE k = 0
    BY <1>5, <2>1, SMT DEF Reached
  <2>2. CASE k # 0
    <3>1. k \in 1..WalkWeeks
      BY <1>2, <1>3, <2>2, SMT
    <3> QED
      BY <1>1, <2>2, <3>1, WalkTimes DEF Reached
  <2> QED
    BY <2>1, <2>2
<1>8. NoneEnds(locked, Reached(k), t - 1)
  <2>1. NoneEnds(locked, Reached((k + 1) - 1), t - 1)
    BY <1>1, <1>3, <1>6, NoneEndsBetween
  <2> QED
    BY <1>3, <2>1
<1>9. Total(Biases(locked, Reached(k))) - Total(Slopes(locked, Reached(k))) * (t - Reached(k))
          = Total(Biases(locked, t))
  BY <1>1, <1>6, <1>8, SumLine
<1>10. PastVotes(user_point_history, t) = Biases(locked, t)
  <2>1. LastPoint.ts <= t
    BY <1>5, <1>6, <1>7, SMT
  <2> QED
    BY <1>1, <1>6, <2>1, VotesSinceLast
<1>11. /\ p.bias = Total(Biases(locked, Reached(k)))
       /\ p.slope = Total(Slopes(locked, Reached(k)))
       /\ p.ts = Reached(k)
  BY DEF SumPoint
<1> QED
  BY <1>9, <1>10, <1>11

(* So it is after a step. *)
LEMMA NextVotesSinceLast ==
    EscrowInv' /\ UsersBehind' =>
        \A t \in Nat : LastPoint'.ts <= t /\ t <= now' =>
            PastVotes(user_point_history', t) = Biases(locked', t)
<1>1. (EscrowInv /\ UsersBehind =>
          \A t \in Nat : LastPoint.ts <= t /\ t <= now =>
              PastVotes(user_point_history, t) = Biases(locked, t))'
  BY VotesSinceLast, PTL
<1> QED
  BY <1>1

(* The total stays the sum of the past votes. *)
LEMMA PastIsSumKept ==
    ASSUME EscrowInv, EscrowInv', SumInv, Checkpoints, CheckpointedInTime, UsersBehind',
           NEW f, TotalStep(f, SumPoint(locked', now))
    PROVE  PastIsSum'
<1> DEFINE n == Len(point_history)
           m == n + WalkWeeks
           e == SumPoint(locked', now)
           Line(p, t) == p.bias - p.slope * (t - p.ts)
<1>1. /\ TypeOK /\ LocksOK /\ HistoryOK /\ TotalAhead /\ PastIsSum /\ LastIsSum
      /\ ScheduleIsSum /\ now' = now
  BY DEF EscrowInv, SumInv, Checkpoints
<1>2. /\ n \in Nat \ {0} /\ WalkWeeks \in Nat \ {0} /\ Len(point_history') = m
      /\ point_history' \in Seq(Point)
      /\ \A i \in 1..n : point_history'[i] = point_history[i]
      /\ \A k \in 1..WalkWeeks : /\ point_history'[n + k].ts = WalkTime(k)
                                 /\ point_history'[n + k] \in Point
      /\ n = 1 => WalkWeeks = 1
  BY <1>1, HistoryGoesOn
<1>3. LastPoint' = e /\ e.ts = now
  BY <1>1, TotalAheadKept
<1>4. /\ now \in Nat /\ LastPoint.ts \in 0..now
      /\ n > 1 => LastPoint = point_history[n]
  BY <1>1, LastPointType
<1>5. /\ point_history'[m] = e
      /\ \A k \in 1..WalkWeeks - 1 : point_history'[n + k] = f[k]
      /\ Walked(f)
  BY DEF TotalStep, Grows
<1>6. ASSUME NEW t \in 0..now - 1, NEW x, x = Total(PastVotes(user_point_history, t))
      PROVE  x = Total(PastVotes(user_point_history', t))
  BY <1>6, PastVotesFrozen
<1>7. WalkTime(WalkWeeks) = now
  BY <1>1, WalkReachesNow
<1> HIDE DEF e
<1>8. ASSUME NEW i \in 2..m, NEW t \in point_history'[i].ts .. now,
             ~(i < m /\ point_history'[i + 1].ts <= t)
      PROVE  Line(point_history'[i], t) = Total(PastVotes(user_point_history', t))
  <2>1. CASE i < n
    <3>1. i \in 1..n /\ i + 1 \in 1..n /\ i \in 2..n /\ i + 1 \in 2..n /\ i < m
      BY <1>2, <2>1, SMT
    <3>2. point_history'[i] = point_history[i] /\ point_history'[i + 1] = point_history[i + 1]
      BY <1>2, <3>1
    <3>3. /\ StartTime <= point_history[i].ts
          /\ point_history[i + 1].ts <= LastPoint.ts
      BY <1>1, <3>1 DEF TotalAhead
    <3>4. point_history[i] \in Point /\ point_history[i + 1] \in Point
      BY <1>1, <3>1, ElementOfSeq DEF TypeOK
    <3>5. point_history[i].ts \in Nat /\ point_history[i + 1].ts \in Nat
      BY <1>4, <3>4, SMT DEF Point
    <3>6. ~(point_history[i + 1].ts <= t) /\ t \in point_history[i].ts .. now
      BY <1>8, <3>1, <3>2
    <3> HIDE DEF n, m
    <3>7. t \in point_history[i].ts .. LastPoint.ts /\ t \in 0..now - 1
      BY <1>4, <3>3, <3>5, <3>6, SMT
    <3>8. Line(point_history[i], t) = Total(PastVotes(user_point_history, t))
      BY <1>1, <3>1, <3>6, <3>7 DEF PastIsSum, n
    <3> HIDE DEF Line
    <3> QED
      BY <1>6, <3>2, <3>7, <3>8
  <2>2. CASE n <= i /\ i < m
    <3>1. PICK k \in 0 .. WalkWeeks - 1 : i = n + k
      <4> DEFINE w == WalkWeeks
                 j == i - n
      <4>1. n \in Nat /\ w \in Nat /\ i \in Nat /\ n <= i /\ i < n + w
        BY <1>2, <1>8, <2>2, SMT
      <4> HIDE DEF n, w
      <4>2. j \in 0 .. w - 1 /\ i = n + j
        BY <4>1, SMT
      <4> QED
        BY <4>2 DEF w
    <3>2. /\ k + 1 \in 1..WalkWeeks /\ i + 1 = n + (k + 1) /\ k \in 0..WalkWeeks
          /\ k \in Nat /\ k < WalkWeeks
      BY <1>2, <3>1, SMT
    <3>3. point_history'[i + 1].ts = WalkTime(k + 1)
      BY <1>2, <3>2
    <3>4. f[k] = SumPoint(locked, Reached(k))
      BY <1>1, <1>5, <3>2, WalkIsSum
    <3>5. point_history'[i] = f[k]
      <4>1. CASE k = 0
        <5>1. i = n /\ n > 1 /\ n \in 1..n
          BY <1>2, <3>1, <4>1, SMT
        <5>2. f[0] = LastPoint
          BY <1>5 DEF Walked
        <5> QED
          BY <1>2, <1>4, <4>1, <5>1, <5>2
      <4>2. CASE k # 0
        <5>1. k \in 1..WalkWeeks - 1
          BY <3>1, <3>2, <4>2, SMT
        <5> QED
          BY <1>5, <3>1, <5>1
      <4> QED
        BY <4>1, <4>2
    <3>6. /\ WalkTime(k + 1) \in 0..now
          /\ Reached(k) \in 0..now
      <4>1. (k + 1) - 1 = k
        BY <3>2, SMT
      <4> QED
        BY <1>1, <3>2, <4>1, ReachedTimes
    <3>7. point_history'[i].ts = Reached(k)
      BY <3>4, <3>5 DEF SumPoint
    <3>8. ~(WalkTime(k + 1) <= t) /\ t \in Reached(k) .. now
      BY <1>8, <2>2, <3>3, <3>7
    <3> HIDE DEF n, m
    <3>9. t \in Nat /\ Reached(k) <= t /\ t < WalkTime(k + 1) /\ t \in 0..now - 1
      BY <1>4, <3>6, <3>8, SMT
    <3>10. Line(f[k], t) = Total(PastVotes(user_point_history, t))
      BY <3>4, <3>9, SumAhead
    <3> HIDE DEF Line
    <3> QED
      BY <1>6, <3>5, <3>9, <3>10
  <2>3. CASE i = m
    <3>1. t = now
      BY <1>3, <1>4, <1>5, <1>8, <2>3, SMT
    <3>2. PastVotes(user_point_history', now) = Biases(locked', now)
      <4>2. LastPoint'.ts <= now /\ now <= now'
        BY <1>1, <1>3, <1>4, SMT
      <4> QED
        BY <1>4, <4>2, NextVotesSinceLast
    <3>3. e.bias = Total(Biases(locked', now)) /\ e.slope \in Nat
      <4>1. locked' \in [Users -> Lock]
        BY DEF EscrowInv, TypeOK
      <4>2. Total(Slopes(locked', now)) \in Nat
        BY <1>4, <4>1, WeightsType
      <4> QED
        BY <4>2 DEF e, SumPoint
    <3>4. e.bias \in Nat
      <4>1. locked' \in [Users -> Lock]
        BY DEF EscrowInv, TypeOK
      <4> QED
        BY <1>4, <3>3, <4>1, WeightsType
    <3>5. Line(e, now) = e.bias
      BY <1>3, <1>4, <3>3, <3>4, SMT
    <3> HIDE DEF Line
    <3> QED
      BY <1>5, <2>3, <3>1, <3>2, <3>3, <3>5
  <2> QED
    BY <1>2, <2>1, <2>2, <2>3, SMT
<1>9. ASSUME NEW i \in 2..Len(point_history'), NEW t \in point_history'[i].ts .. LastPoint'.ts
      PROVE  \/ i < Len(point_history') /\ point_history'[i + 1].ts <= t
             \/ Line(point_history'[i], t) = Total(PastVotes(user_point_history', t))
  <2>1. i \in 2..m /\ t \in point_history'[i].ts .. now
    BY <1>2, <1>3
  <2>2. Len(point_history') = m
    BY <1>2
  <2> HIDE DEF Line, m
  <2> QED
    BY <1>8, <2>1, <2>2
<1> QED
  BY <1>9 DEF PastIsSum

(* Operations keep the sums. *)
LEMMA SumKept ==
    ASSUME EscrowInv, EscrowInv', SumInv, CheckpointedInTime, Operation
    PROVE  SumInv'
<1>1. SumStep /\ Checkpoints
  BY OperationSum, OperationCheckpoints
<1>2. PICK f : TotalStep(f, SumPoint(locked', now))
  BY <1>1 DEF SumStep
<1>3. TypeOK /\ TotalAhead /\ now' = now /\ \A v \in Users : UserStep(v)
  BY <1>1 DEF EscrowInv, SumInv, Checkpoints
<1>4. LastPoint' = SumPoint(locked', now) /\ LastPoint'.ts = now /\ TotalAhead'
  BY <1>2, <1>3, TotalAheadKept DEF SumPoint
<1>5. LastIsSum'
  BY <1>4 DEF LastIsSum
<1>6. ScheduleIsSum'
  BY <1>1, <1>4 DEF ScheduleIsSum, SumStep
<1>7. UsersBehind'
  BY <1>2, <1>3, UsersBehindKept
<1>8. PastIsSum'
  BY <1>1, <1>2, <1>7, PastIsSumKept
<1> QED
  BY <1>4, <1>5, <1>6, <1>7, <1>8 DEF SumInv

(* Nothing locked weighs nothing. *)
LEMMA NothingWeighs ==
    ASSUME NEW locks \in [Users -> Lock], NEW t \in Nat,
           \A u \in Users : Bias(locks[u], t) = 0 /\ Slope(locks[u], t) = 0
    PROVE  SumPoint(locks, t) = [bias |-> 0, slope |-> 0, ts |-> t]
<1>1. Biases(locks, t) \in [Users -> Nat] /\ Slopes(locks, t) \in [Users -> Nat]
  BY WeightsType
<1>2. Total(Biases(locks, t)) = 0 /\ Total(Slopes(locks, t)) = 0
  BY <1>1, EscrowConstants, TotalZero DEF Biases, Slopes
<1> QED
  BY <1>2 DEF SumPoint

(* It is so at the beginning. *)
LEMMA SumInit ==
    ASSUME Init
    PROVE  SumInv
<1>1. /\ now = StartTime /\ Len(point_history) = 1 /\ LastPoint = [bias |-> 0, slope |-> 0, ts |-> now]
      /\ now \in Nat /\ locked \in [Users -> Lock]
      /\ TypeOK
  <2>1. EscrowInv
    BY EscrowInvInit
  <2>2. TypeOK
    BY <2>1 DEF EscrowInv
  <2>3. now = StartTime /\ Len(point_history) = 1
    BY DEF Init
  <2>4. ~(Len(point_history) > 1)
    BY <2>3, SMT
  <2> QED
    BY <2>2, <2>3, <2>4, LastPointType DEF TypeOK
<1>2. ASSUME NEW u \in Users PROVE locked[u] = NoLock
  BY DEF Init
<1>3. LastIsSum
  <2>1. \A u \in Users : Bias(locked[u], now) = 0 /\ Slope(locked[u], now) = 0
    BY <1>1, <1>2, NoLockWeighs
  <2>2. SumPoint(locked, now) = [bias |-> 0, slope |-> 0, ts |-> now]
    BY <1>1, <2>1, NothingWeighs
  <2>3. LastPoint.ts = now
    BY <1>1
  <2> QED
    BY <1>1, <2>2, <2>3 DEF LastIsSum
<1>4. ASSUME NEW s \in Times, s > LastPoint.ts PROVE slope_changes[s] = -Total(Ending(locked, s))
  <2>1. slope_changes[s] = 0
    BY DEF Init
  <2>2. s \in Nat \ {0}
    BY <1>1, <1>4, EscrowConstants, SMT DEF Times
  <2>3. Ending(locked, s) \in [Users -> Nat]
    BY <1>1, <2>2, EndingType
  <2>4. \A u \in Users : Ending(locked, s)[u] = 0
    <3>1. ASSUME NEW u \in Users PROVE ~(locked[u].end = s)
      BY <1>2, <2>2 DEF NoLock
    <3> QED
      BY <3>1 DEF Ending
  <2>5. Total(Ending(locked, s)) = 0
    BY <2>3, <2>4, EscrowConstants, TotalZero
  <2>6. \A x \in Int : -x = 0 - x
    BY SMT
  <2>7. 0 \in Int /\ 0 - 0 = 0
    BY SMT
  <2> QED
    BY <2>1, <2>5, <2>6, <2>7
<1>5. TotalAhead /\ PastIsSum
  <2>1. 2..Len(point_history) = {}
    BY <1>1, SMT
  <2>2. now >= StartTime
    BY <1>1, SMT
  <2> QED
    BY <2>1, <2>2 DEF TotalAhead, PastIsSum
<1>6. UsersBehind
  <2>1. ASSUME NEW u \in Users, NEW i \in 1..Len(user_point_history[u])
        PROVE  user_point_history[u][i] = NoPoint
    <3>1. user_point_history[u] = <<NoPoint>>
      BY DEF Init
    <3>2. i = 1
      BY <3>1, SMT
    <3> QED
      BY <3>1, <3>2
  <2>2. NoPoint.ts <= LastPoint.ts /\ NoPoint.bias = 0 /\ NoPoint.slope = 0
    <3>1. LastPoint.ts = now /\ NoPoint.ts = 0
      BY <1>1 DEF NoPoint
    <3>2. 0 <= now
      BY <1>1, SMT
    <3> QED
      BY <3>1, <3>2 DEF NoPoint
  <2> QED
    BY <2>1, <2>2 DEF UsersBehind
<1> QED
  BY <1>3, <1>4, <1>5, <1>6 DEF SumInv, ScheduleIsSum

(* Time does not change the sums: before the first lock nothing weighs. *)
LEMMA SumTick ==
    ASSUME EscrowInv, EscrowInv', SumInv, Tick
    PROVE  SumInv'
<1>1. /\ now' = now + 1
      /\ UNCHANGED <<locked, point_history, user_point_history, slope_changes>>
  BY DEF Tick
<1>2. /\ TypeOK /\ locked \in [Users -> Lock] /\ LastIsSum /\ ScheduleIsSum /\ TotalAhead
      /\ UsersBehind /\ PastIsSum
  BY DEF EscrowInv, SumInv, TypeOK
<1>3. /\ now \in Nat /\ now' \in Nat /\ LastPoint.ts \in Nat /\ LastPoint.ts <= now
      /\ StartTime \in Nat /\ now' >= StartTime /\ now' <= MaxTime
      /\ MaxTime \in Nat /\ MAXTIME \in Nat /\ WEEK \in Nat /\ MaxUint \in Nat
      /\ MaxUint >= MaxTime + MAXTIME + WEEK
  <2>1. now < MaxTime /\ now >= StartTime
    BY <1>2 DEF Tick, TotalAhead
  <2> QED
    BY <1>1, <1>2, <2>1, LastPointType, EscrowConstants, SMT
<1>4. CASE Len(point_history) > 1
  <2>1. LastPoint' = LastPoint
    BY <1>1, <1>4 DEF LastPoint
  <2>2. LastIsSum' /\ ScheduleIsSum' /\ UsersBehind' /\ PastIsSum'
    BY <1>1, <1>2, <2>1 DEF LastIsSum, ScheduleIsSum, UsersBehind, PastIsSum
  <2>3. TotalAhead'
    BY <1>1, <1>2, <1>3, <2>1 DEF TotalAhead
  <2> QED
    BY <2>2, <2>3 DEF SumInv
<1>5. CASE ~(Len(point_history) > 1)
  <2>0. now' < MaxUint /\ now <= now' /\ now < MaxUint
    BY <1>1, <1>3, EscrowConstants, SMT
  <2>1. /\ LastPoint = [bias |-> 0, slope |-> 0, ts |-> now]
        /\ LastPoint' = [bias |-> 0, slope |-> 0, ts |-> now']
    BY <1>1, <1>5 DEF LastPoint, NoPoint
  <2>2. Total(Biases(locked, now)) = 0 /\ Total(Slopes(locked, now)) = 0
    BY <1>2, <2>1 DEF LastIsSum, SumPoint
  <2>3. ASSUME NEW u \in Users
        PROVE  Bias(locked[u], now') = 0 /\ Slope(locked[u], now') = 0
    <3>1. Biases(locked, now) \in [Users -> Nat] /\ Slopes(locked, now) \in [Users -> Nat]
      BY <1>2, <1>3, WeightsType
    <3>2. Biases(locked, now)[u] <= 0 /\ Slopes(locked, now)[u] <= 0
      BY <2>2, <3>1, EscrowConstants, TotalTerm
    <3>3. /\ Biases(locked, now)[u] = Bias(locked[u], now)
          /\ Slopes(locked, now)[u] = Slope(locked[u], now)
      BY DEF Biases, Slopes
    <3>4. Bias(locked[u], now) \in Nat /\ Slope(locked[u], now) \in Nat
      BY <1>2, <1>3, LockNumbers
    <3>5. Bias(locked[u], now) = 0 /\ Slope(locked[u], now) = 0
      BY <3>2, <3>3, <3>4, SMT
    <3>6. Positive(0 - 0 * (now' - now)) = Bias(locked[u], now')
      BY <1>2, <1>3, <2>0, <3>5, LockLine
    <3>7. Slope(locked[u], now') = 0
      BY <1>2, <1>3, <2>0, <3>5, LockLine
    <3>8. 0 - 0 * (now' - now) = 0
      <4>1. now' - now \in Int /\ \A x \in Int : 0 - 0 * x = 0
        BY <1>3, SMT
      <4> QED
        BY <4>1
    <3> QED
      BY <3>6, <3>7, <3>8 DEF Positive
  <2>4. LastIsSum'
    <3> DEFINE t == now'
    <3>1. t \in Nat /\ \A u \in Users : Bias(locked[u], t) = 0 /\ Slope(locked[u], t) = 0
      BY <1>3, <2>3
    <3> HIDE DEF t
    <3>2. SumPoint(locked, t) = [bias |-> 0, slope |-> 0, ts |-> t]
      BY <1>2, <3>1, NothingWeighs
    <3>3. LastPoint'.ts = t
      BY <2>1 DEF t
    <3>4. LastPoint' = SumPoint(locked', LastPoint'.ts)
      BY <1>1, <2>1, <3>2, <3>3 DEF t
    <3> QED
      BY <3>4 DEF LastIsSum
  <2>5. ScheduleIsSum'
    <3>1. ASSUME NEW s \in Times, s > LastPoint'.ts PROVE s > LastPoint.ts
      <4>1. s \in Nat /\ s > now'
        BY <1>3, <2>1, <3>1, SMT DEF Times
      <4>2. LastPoint.ts = now
        BY <2>1
      <4> QED
        BY <1>3, <2>0, <4>1, <4>2, SMT
    <3> QED
      BY <1>1, <1>2, <3>1 DEF ScheduleIsSum
  <2>6. Len(point_history) = 1
    <3>1. Len(point_history) \in Nat /\ Len(point_history) > 0
      BY <1>2, LenProperties DEF TypeOK, EscrowInv, HistoryOK
    <3> DEFINE n == Len(point_history)
    <3>2. n \in Nat /\ n > 0 /\ ~(n > 1)
      BY <1>5, <3>1
    <3> HIDE DEF n
    <3>3. n = 1
      BY <3>2, SMT
    <3> QED
      BY <3>3 DEF n
  <2>7. TotalAhead' /\ PastIsSum'
    <3>1. 2..Len(point_history') = {}
      BY <1>1, <2>6, SMT
    <3> QED
      BY <1>3, <3>1 DEF TotalAhead, PastIsSum
  <2>8. UsersBehind'
    <3>1. ASSUME NEW u \in Users, NEW i \in 1..Len(user_point_history[u])
          PROVE  /\ user_point_history[u][i].ts <= LastPoint'.ts
                 /\ user_point_history[u][i].bias = 0 /\ user_point_history[u][i].slope = 0
      <4> DEFINE p == user_point_history[u][i]
      <4>1. p.ts <= LastPoint.ts /\ p.bias = 0 /\ p.slope = 0
        BY <1>2, <2>6 DEF UsersBehind
      <4>2. p.ts \in Nat
        <5>1. user_point_history[u] \in Seq(Point)
          BY <1>2 DEF TypeOK
        <5>2. p \in Point
          BY <5>1, ElementOfSeq
        <5> QED
          BY <1>3, <5>2, SMT DEF Point
      <4>3. LastPoint.ts = now /\ LastPoint'.ts = now'
        BY <2>1
      <4> HIDE DEF p
      <4>4. p.ts <= LastPoint'.ts
        BY <1>3, <2>0, <4>1, <4>2, <4>3, SMT
      <4> QED
        BY <4>1, <4>4 DEF p
    <3> QED
      BY <1>1, <3>1 DEF UsersBehind
  <2> QED
    BY <2>4, <2>5, <2>7, <2>8 DEF SumInv
<1> QED
  BY <1>4, <1>5

-----------------------------------------------------------------------------
(***************************************************************************)
(* The total is the sum of the votes                                       *)
(***************************************************************************)
(* Within a week of a point the total is carried from it in one step. *)
LEMMA SupplyAtOnce ==
    ASSUME NEW point, NEW a, NEW t, SupplySteps(point, t) = 0
    PROVE  SupplyFrom(point, a, t) = Positive(point.bias - point.slope * (t - point.ts))
<1> DEFINE f == CHOOSE g : IsLine(g, point, a, 0)
<1>1. \A k \in 0..0 : k = 0
  BY SMT
<1>2. IsLine([k \in 0..0 |-> point], point, a, 0)
  BY <1>1 DEF IsLine
<1>3. IsLine(f, point, a, 0)
  BY <1>2, Zenon
<1>4. 0 \in 0..0
  BY SMT
<1> HIDE DEF f
<1>5. f[0] = point
  BY <1>3, <1>4 DEF IsLine
<1>6. SupplyFrom(point, a, t)
          = Positive(f[0].bias - f[0].slope * (t - f[0].ts))
  BY DEF SupplyFrom, f
<1> QED
  BY <1>5, <1>6

(* Before the second point of the total nobody had votes. *)
LEMMA NoVotesBefore ==
    ASSUME EscrowInv, UsersBehind, NEW t \in Nat, t < MaxUint,
           Len(point_history) = 1 \/ t < point_history[2].ts,
           Len(point_history) = 1 \/ point_history[2].ts \in Nat
    PROVE  Total(PastVotes(user_point_history, t)) = 0
<1>1. TypeOK /\ UsersCurrent /\ now \in Nat
  BY LastPointType DEF EscrowInv
<1>2. ASSUME NEW u \in Users PROVE VotesAt(user_point_history[u], t) = 0
  <2> DEFINE h == user_point_history[u]
  <2>1. h \in Seq(Point) /\ Len(h) > 0 /\ h[1] = NoPoint
    BY <1>1 DEF TypeOK, UsersCurrent
  <2>2. h[1].ts <= t
    BY <2>1, SMT DEF NoPoint
  <2> HIDE DEF h
  <2>3. PICK i : IsLastAt(h, t, i) /\ LastAt(h, t) = h[i]
    BY <2>1, <2>2, LastAtFinds
  <2> DEFINE p == h[i]
  <2>4. i \in 1..Len(h) /\ p.ts <= t
    BY <2>3 DEF IsLastAt
  <2>5. p \in Point
    BY <2>1, <2>4, ElementOfSeq
  <2>6. p.ts \in Nat
    BY <1>1, <2>5, SMT DEF Point
  <2>7. Len(point_history) = 1 \/ p.ts < point_history[2].ts => p.bias = 0 /\ p.slope = 0
    BY <2>4 DEF UsersBehind, h
  <2>8. VotesAt(h, t) = Positive(p.bias - p.slope * (t - p.ts))
    BY <2>3 DEF VotesAt
  <2> HIDE DEF p
  <2>9. Len(point_history) = 1 \/ p.ts < point_history[2].ts
    BY <2>4, <2>6, SMT
  <2>10. t - p.ts \in Int /\ \A x \in Int : 0 - 0 * x = 0
    BY <2>6, SMT
  <2>11. VotesAt(h, t) = Positive(0)
    BY <2>7, <2>8, <2>9, <2>10
  <2> QED
    BY <2>11 DEF h, Positive
<1> DEFINE f == PastVotes(user_point_history, t)
<1>3. f \in [Users -> Nat] /\ \A u \in Users : f[u] = 0
  <2>1. 0 \in Nat
    BY SMT
  <2> QED
    BY <1>2, <2>1 DEF PastVotes
<1> HIDE DEF f
<1>4. Total(f) = 0
  BY <1>3, EscrowConstants, TotalZero
<1> QED
  BY <1>4 DEF f

(* The past votes are numbers. *)
LEMMA PastVotesType ==
    ASSUME EscrowInv, NEW t \in Nat
    PROVE  Total(PastVotes(user_point_history, t)) \in Nat
<1>1. TypeOK /\ UsersCurrent /\ now \in Nat
  BY LastPointType DEF EscrowInv
<1>2. ASSUME NEW u \in Users PROVE VotesAt(user_point_history[u], t) \in Nat
  <2> DEFINE h == user_point_history[u]
  <2>1. h \in Seq(Point) /\ Len(h) > 0 /\ h[1] = NoPoint
    BY <1>1 DEF TypeOK, UsersCurrent
  <2>2. h[1].ts <= t
    BY <2>1, SMT DEF NoPoint
  <2> HIDE DEF h
  <2>3. PICK i : IsLastAt(h, t, i) /\ LastAt(h, t) = h[i]
    BY <2>1, <2>2, LastAtFinds
  <2>4. h[i] \in Point
    BY <2>1, <2>3, ElementOfSeq DEF IsLastAt
  <2>5. h[i].bias - h[i].slope * (t - h[i].ts) \in Int
    BY <1>1, <2>4, SMT DEF Point
  <2> QED
    BY <2>3, <2>5, PositiveType DEF VotesAt, h
<1> DEFINE f == PastVotes(user_point_history, t)
<1>3. f \in [Users -> Nat]
  BY <1>2 DEF PastVotes
<1> HIDE DEF f
<1>4. Total(f) \in Nat
  BY <1>3, EscrowConstants, TotalType
<1> QED
  BY <1>4 DEF f

(* The total read from the history is the sum of the past votes. *)
LEMMA SupplyIsSum ==
    ASSUME EscrowInv, SumInv, NEW t \in 0..LastPoint.ts
    PROVE  SupplyOf(point_history, slope_changes, t)
               = Total(PastVotes(user_point_history, t))
<1> DEFINE n == Len(point_history)
           votes == Total(PastVotes(user_point_history, t))
<1>1. TypeOK /\ HistoryOK /\ TotalAhead /\ UsersBehind /\ PastIsSum
  BY DEF EscrowInv, SumInv
<1>2. /\ now \in Nat /\ now <= MaxTime /\ LastPoint.ts \in 0..now
      /\ n > 1 => LastPoint = point_history[n]
      /\ point_history \in Seq(Point) /\ n \in Nat \ {0}
      /\ point_history[1] = [bias |-> 0, slope |-> 0, ts |-> StartTime]
  BY <1>1, LastPointType, LenProperties DEF TypeOK, HistoryOK, NoPoint
<1>3. /\ t \in Nat /\ t <= now /\ StartTime \in Nat /\ WEEK \in Nat
      /\ t < MaxUint /\ t \in Times
  BY <1>2, EscrowConstants, SMT DEF Times
<1>4. \A i \in 1..n : point_history[i] \in Point
  BY <1>2, ElementOfSeq
<1>5. \A i \in 1..n : point_history[i].ts \in Nat
  BY <1>2, <1>4, SMT DEF Point
<1>6. CASE n = 1
  <2>1. SupplyOf(point_history, slope_changes, t) = 0
    BY <1>6 DEF SupplyOf
  <2> QED
    BY <1>1, <1>3, <1>6, <2>1, NoVotesBefore
<1>7. CASE n > 1
  <2>1. /\ 1 \in 1..n /\ 2 \in 1..n /\ 2 \in 2..n /\ n \in 2..n /\ n \in 1..n /\ n # 1
        /\ n > 0
    BY <1>2, <1>7, SMT
  <2>2. point_history[2].ts \in Nat /\ StartTime <= point_history[2].ts
    BY <1>1, <1>5, <2>1 DEF TotalAhead
  <2>3. CASE t < point_history[1].ts
    <3>1. SupplyOf(point_history, slope_changes, t) = 0
      BY <2>3 DEF SupplyOf
    <3>2. t < point_history[2].ts
      BY <1>2, <1>3, <2>2, <2>3, SMT
    <3> QED
      BY <1>1, <1>3, <2>2, <3>1, <3>2, NoVotesBefore
  <2>4. CASE ~(t < point_history[1].ts)
    <3>1. point_history[1].ts <= t
      BY <1>3, <1>5, <2>1, <2>4, SMT
    <3>2. PICK i : IsLastAt(point_history, t, i) /\ LastAt(point_history, t) = point_history[i]
      BY <1>2, <2>1, <3>1, LastAtFinds
    <3>3. /\ i \in 1..n /\ point_history[i].ts <= t /\ point_history[i].ts \in Nat
          /\ \A j \in 1..n : point_history[j].ts <= t => j <= i
      BY <1>5, <3>2 DEF IsLastAt
    <3>4. SupplyOf(point_history, slope_changes, t)
              = SupplyFrom(point_history[i], slope_changes, t)
      BY <2>1, <2>4, <3>2 DEF SupplyOf
    <3>5. CASE i = 1
      <4>1. ~(point_history[2].ts <= t)
        BY <2>1, <3>3, <3>5, SMT
      <4>2. t < point_history[2].ts
        BY <1>3, <2>2, <4>1, SMT
      <4>3. votes = 0
        BY <1>1, <1>3, <2>2, <4>2, NoVotesBefore
      <4>4. \A s \in Nat : s < t => s \in Times /\ s <= point_history[2].ts
        <5> DEFINE b == MaxTime + MAXTIME
                   c == point_history[2].ts
        <5>1. c \in Nat /\ t < c /\ t \in 0..b /\ b \in Nat
          BY <1>3, <2>2, <4>2, EscrowConstants, SMT DEF Times
        <5>2. Times = 0..b
          BY DEF Times
        <5> HIDE DEF b, c
        <5>3. \A s \in Nat : s < t => s \in 0..b /\ s <= c
          BY <5>1, SMT
        <5> QED
          BY <5>2, <5>3 DEF c
      <4>5. \A s \in Nat : s < t => slope_changes[s] = 0
        BY <1>1, <4>4 DEF HistoryOK
      <4>6. SupplyFrom(point_history[1], slope_changes, t) = 0
        <5>1. StartTime <= t
          BY <1>2, <3>1
        <5>2. SupplyFrom([bias |-> 0, slope |-> 0, ts |-> StartTime], slope_changes, t) = 0
          BY <1>3, <4>5, <5>1, NothingComes
        <5> QED
          BY <1>2, <5>2
      <4> QED
        BY <3>4, <3>5, <4>3, <4>6
    <3>6. CASE i # 1
      <4>1. i \in 2..n /\ (i < n => i + 1 \in 1..n /\ i \in 2..n - 1)
        <5> HIDE DEF n
        <5> QED
          BY <1>2, <3>3, <3>6, SMT
      <4>2. ~(i < n /\ point_history[i + 1].ts <= t)
        <5>1. SUFFICES ASSUME i < n, point_history[i + 1].ts <= t PROVE FALSE
          OBVIOUS
        <5>2. i + 1 <= i
          BY <3>3, <4>1, <5>1
        <5> HIDE DEF n
        <5> QED
          BY <4>1, <5>2, SMT
      <4>3. t \in point_history[i].ts .. LastPoint.ts
        BY <1>2, <1>3, <3>3, SMT
      <4>4. point_history[i].bias - point_history[i].slope * (t - point_history[i].ts) = votes
        BY <1>1, <4>1, <4>2, <4>3 DEF PastIsSum
      <4>5. t <= point_history[i].ts + WEEK
        <5>1. CASE i < n
          <6>1. point_history[i + 1].ts \in Nat /\ ~(point_history[i + 1].ts <= t)
            BY <1>5, <4>1, <4>2, <5>1
          <6>2. point_history[i + 1].ts <= point_history[i].ts + WEEK
            BY <1>1, <4>1, <5>1 DEF HistoryOK
          <6> QED
            BY <1>3, <3>3, <6>1, <6>2, SMT
        <5>2. CASE ~(i < n)
          <6>1. i = n
            <7> HIDE DEF n
            <7> QED
              BY <1>2, <4>1, <5>2, SMT
          <6>2. point_history[i] = LastPoint
            BY <1>2, <1>7, <6>1
          <6> QED
            BY <1>2, <1>3, <3>3, <6>2, SMT
        <5> QED
          BY <5>1, <5>2
      <4> DEFINE p == point_history[i]
                 T == p.ts
      <4>6. SupplySteps(p, t) = 0
        <5>1. T \in Nat /\ p.ts = T /\ T <= t /\ t <= T + WEEK
          BY <3>3, <4>5
        <5> HIDE DEF p, T
        <5> QED
          BY <1>3, <5>1, StepsBefore
      <4>7. SupplyFrom(p, slope_changes, t) = Positive(p.bias - p.slope * (t - p.ts))
        <5> HIDE DEF p
        <5> QED
          BY <4>6, SupplyAtOnce, Zenon
      <4>8. SupplyFrom(p, slope_changes, t) = Positive(votes)
        BY <4>4, <4>7
      <4>9. votes \in Nat
        BY <1>3, PastVotesType
      <4> HIDE DEF votes
      <4>10. Positive(votes) = votes
        BY <4>9, PositiveType, SMT
      <4> QED
        BY <3>4, <4>8, <4>10 DEF votes
    <3> QED
      BY <3>5, <3>6
  <2> QED
    BY <2>3, <2>4
<1> QED
  <2> HIDE DEF n, votes
  <2>1. n = 1 \/ n > 1
    BY <1>2, SMT
  <2> QED
    BY <1>6, <1>7, <2>1 DEF votes

(* As the run states it. *)
LEMMA TotalSums ==
    ASSUME EscrowInv, SumInv
    PROVE  TotalIsSum
<1>1. ASSUME NEW t \in 0..LastPoint.ts
      PROVE  total_supply_at(t) = Total([u \in Users |-> getPastVotes(u, t)])
  <2>1. [u \in Users |-> getPastVotes(u, t)] = PastVotes(user_point_history, t)
    BY VotesAre DEF PastVotes
  <2> QED
    BY <2>1, SupplyIs, SupplyIsSum
<1> QED
  BY <1>1 DEF TotalIsSum

\* The total is never checkpointed after more weeks than the loop covers.
OnTime == [][CheckpointedInTime]_point_history

(* Steps keep the sums, if the checkpoint was in time. *)
LEMMA SumInvStep ==
    ASSUME EscrowInv, EscrowInv', SumInv, [Next]_vars, [CheckpointedInTime]_point_history
    PROVE  SumInv'
<1>1. CASE Operation
  <2>1. point_history' # point_history
    <3>1. TypeOK /\ HistoryOK
      BY DEF EscrowInv
    <3>2. PICK f, e : TotalStep(f, e)
      BY <1>1, OperationCheckpoints DEF Checkpoints
    <3>3. /\ Len(point_history) \in Nat \ {0} /\ WalkWeeks \in Nat \ {0}
          /\ Len(point_history') = Len(point_history) + WalkWeeks
      BY <3>1, <3>2, HistoryGoesOn
    <3>4. Len(point_history') # Len(point_history)
      BY <3>3, SMT
    <3> QED
      BY <3>4
  <2>2. CheckpointedInTime
    BY <2>1
  <2> QED
    BY <1>1, <2>2, SumKept
<1>2. CASE Tick
  BY <1>2, SumTick
<1>3. CASE UNCHANGED vars
  <2>1. UNCHANGED <<now, locked, point_history, user_point_history, slope_changes>>
    BY <1>3 DEF vars
  <2>2. LastPoint' = LastPoint
    BY <2>1 DEF LastPoint
  <2> QED
    BY <2>1, <2>2 DEF SumInv, LastIsSum, ScheduleIsSum, TotalAhead, UsersBehind, PastIsSum
<1> QED
  BY <1>1, <1>2, <1>3 DEF Next

(* Whatever the users did, the total read from the history is the sum of what
   they had, as long as no checkpoint came too late for its loop. *)
THEOREM TotalIsAlwaysSum == Spec /\ OnTime => []TotalIsSum
<1>1. Init => SumInv
  BY SumInit
<1>2. EscrowInv /\ EscrowInv' /\ SumInv /\ [Next]_vars /\ [CheckpointedInTime]_point_history
          => SumInv'
  BY SumInvStep
<1>3. EscrowInv /\ SumInv => TotalIsSum
  BY TotalSums
<1> QED
  BY <1>1, <1>2, <1>3, EscrowInvariant, PTL DEF Spec, OnTime

-----------------------------------------------------------------------------
(***************************************************************************)
(* The slope changes unwind the total                                      *)
(***************************************************************************)
\* The times after s up to t.
Ahead(s, t) == {r \in Times : s < r /\ r <= t}

\* What the locks that end then take off the slope.
Endings(locks, s, t) == [r \in Ahead(s, t) |-> Total(Ending(locks, r))]

(* They are finitely many. *)
LEMMA AheadFinite ==
    ASSUME NEW s \in Nat, NEW t \in Nat
    PROVE  /\ IsFiniteSet(Ahead(s, t))
           /\ \A r \in Ahead(s, t) : r \in Nat \ {0}
<1> DEFINE b == MaxTime + MAXTIME
<1>1. b \in Nat /\ 0 \in Int /\ b \in Int
  BY EscrowConstants, SMT
<1>2. IsFiniteSet(0..b)
  BY <1>1, FS_Interval
<1>3. Ahead(s, t) \subseteq 0..b
  BY DEF Ahead, Times
<1>4. IsFiniteSet(Ahead(s, t))
  BY <1>2, <1>3, FS_Subset
<1> HIDE DEF b
<1>5. ASSUME NEW r \in Ahead(s, t) PROVE r \in Nat \ {0}
  <2>1. r \in 0..b /\ s < r
    BY <1>3 DEF Ahead
  <2> QED
    BY <1>1, <2>1, SMT
<1> QED
  BY <1>4, <1>5

(* What ends is a number. *)
LEMMA EndingsType ==
    ASSUME NEW locks \in [Users -> Lock], NEW s \in Nat, NEW t \in Nat
    PROVE  /\ Endings(locks, s, t) \in [Ahead(s, t) -> Nat]
           /\ Total(Endings(locks, s, t)) \in Nat
<1>1. \A r \in Ahead(s, t) : Total(Ending(locks, r)) \in Nat
  BY AheadFinite, EndingType
<1>2. Endings(locks, s, t) \in [Ahead(s, t) -> Nat]
  BY <1>1 DEF Endings
<1> QED
  BY <1>2, AheadFinite, TotalType

(* One time more. *)
LEMMA OneMoreEnding ==
    ASSUME NEW locks \in [Users -> Lock], NEW s \in Nat, NEW t \in Nat, s <= t,
           NEW r, r = t + 1, r \in Times
    PROVE  Total(Endings(locks, s, r)) = Total(Ending(locks, r)) + Total(Endings(locks, s, t))
<1> DEFINE S == Ahead(s, r)
           f == Endings(locks, s, r)
<1>1. r \in Nat /\ s < r /\ t < r
  BY SMT
<1>2. r \in S
  BY <1>1, SMT DEF Ahead
<1>3. S \ {r} = Ahead(s, t)
  <2>1. ASSUME NEW x \in Times PROVE (x <= r /\ x # r) <=> x <= t
    BY EscrowConstants, SMT DEF Times
  <2> QED
    BY <2>1 DEF Ahead
<1>4. f \in [S -> Nat] /\ IsFiniteSet(S)
  BY <1>1, EndingsType, AheadFinite
<1>5. f[r] = Total(Ending(locks, r))
  BY <1>2 DEF Endings
<1>6. [y \in S \ {r} |-> f[y]] = Endings(locks, s, t)
  BY <1>3 DEF Endings
<1> HIDE DEF S, f
<1>7. ASSUME NEW A, A = S, NEW F, F = f, NEW x, x = r
      PROVE  Total(F) = F[x] + Total([y \in A \ {x} |-> F[y]])
  <2>1. x \in A /\ F \in [A -> Nat] /\ IsFiniteSet(A)
    BY <1>2, <1>4, <1>7
  <2> QED
    BY <2>1, TotalWithout
<1> QED
  BY <1>5, <1>6, <1>7 DEF f

(* The slope of the total loses what ends. *)
LEMMA SlopesAhead ==
    ASSUME NEW locks \in [Users -> Lock], NEW s \in Nat, NEW t \in Times, s <= t
    PROVE  Total(Slopes(locks, s)) = Total(Slopes(locks, t)) + Total(Endings(locks, s, t))
<1> DEFINE b == MaxTime + MAXTIME
           P(r) == Total(Slopes(locks, s)) = Total(Slopes(locks, r)) + Total(Endings(locks, s, r))
           G == {k \in Nat : \A r \in Nat : r = s + k /\ r <= b => P(r)}
<1>1. b \in Nat /\ b < MaxUint /\ t \in Nat /\ t <= b
  BY EscrowConstants, SMT DEF Times
<1>2. 0 \in G
  <2>1. ASSUME NEW r \in Nat, r = s + 0 PROVE P(r)
    <3>1. r = s
      BY <2>1, SMT
    <3>2. Ahead(s, s) = {}
      <4>1. ASSUME NEW x \in Times PROVE ~(s < x /\ x <= s)
        BY EscrowConstants, SMT DEF Times
      <4> QED
        BY <4>1 DEF Ahead
    <3>3. Total(Endings(locks, s, s)) = 0
      BY <3>2, EndingsType, AheadFinite, TotalZero
    <3>4. Total(Slopes(locks, s)) \in Nat
      BY WeightsType
    <3>5. \A x \in Nat : x = x + 0
      BY SMT
    <3> QED
      BY <3>1, <3>3, <3>4, <3>5
  <2> HIDE DEF P
  <2>2. 0 \in Nat
    BY SMT
  <2> QED
    BY <2>1, <2>2
<1>3. ASSUME NEW k \in Nat, k \in G PROVE k + 1 \in G
  <2>1. ASSUME NEW r \in Nat, r = s + (k + 1), r <= b PROVE P(r)
    <3> DEFINE q == s + k
    <3>1. q \in Nat /\ q = s + k /\ q <= b /\ r = q + 1 /\ q < r /\ s <= q /\ r - 1 = q
      BY <1>1, <2>1, SMT
    <3>2. P(q)
      BY <1>3, <3>1
    <3>3. r \in Times
      <4> HIDE DEF b
      <4>1. r \in 0..b
        BY <1>1, <2>1, SMT
      <4> QED
        BY <4>1 DEF Times, b
    <3> HIDE DEF q
    <3>4. r < MaxUint
      <4> HIDE DEF b
      <4> QED
        BY <1>1, <2>1, EscrowConstants, SMT
    <3>5. NoneEnds(locks, q, r - 1)
      <4>1. ASSUME NEW u \in Users PROVE ~Ends(locks[u], q, q)
        <5>1. locks[u].end \in Nat
          BY <3>1, LockNumbers
        <5> QED
          BY <3>1, <5>1, SMT DEF Ends
      <4> QED
        BY <3>1, <4>1 DEF NoneEnds
    <3>6. Total(Slopes(locks, q)) = Total(Slopes(locks, r)) + Total(Ending(locks, r))
      BY <3>1, <3>4, <3>5, SumEnds
    <3>7. Total(Endings(locks, s, r)) = Total(Ending(locks, r)) + Total(Endings(locks, s, q))
      BY <3>1, <3>3, OneMoreEnding
    <3>8. /\ Total(Slopes(locks, q)) \in Nat /\ Total(Slopes(locks, r)) \in Nat
          /\ Total(Endings(locks, s, q)) \in Nat
      BY <3>1, WeightsType, EndingsType
    <3>9. Total(Ending(locks, r)) \in Nat
      <4>1. r \in Nat \ {0}
        BY <3>1, SMT
      <4> QED
        BY <4>1, EndingType
    <3>10. \A w, x, y, z \in Nat : (x + y) + z = x + (y + z)
      BY SMT
    <3> QED
      BY <3>2, <3>6, <3>7, <3>8, <3>9, <3>10
  <2> HIDE DEF P, b
  <2> QED
    BY <2>1
<1> DEFINE k == t - s
<1>4. k \in Nat /\ t = s + k
  BY <1>1, SMT
<1> HIDE DEF G, k
<1>5. k \in G
  BY <1>2, <1>3, <1>4, StepInduction
<1> QED
  BY <1>1, <1>4, <1>5 DEF G

(* At the end of time no lock has a slope. *)
LEMMA NoSlopeAtEnd ==
    ASSUME NEW locks \in [Users -> Lock], NEW t, t = MaxTime + MAXTIME
    PROVE  Total(Slopes(locks, t)) = 0
<1>1. t \in Nat
  BY EscrowConstants, SMT
<1>2. ASSUME NEW u \in Users PROVE Slopes(locks, t)[u] = 0
  <2>1. locks[u].end \in Times \/ locks[u].end = MaxUint
    BY <1>1, LockNumbers
  <2>2. ~(locks[u].end > t) \/ locks[u].end = MaxUint
    BY <1>1, <2>1, EscrowConstants, SMT DEF Times
  <2>3. Slope(locks[u], t) = 0
    BY <2>2 DEF Slope, Live
  <2> QED
    BY <2>3 DEF Slopes
<1>3. Slopes(locks, t) \in [Users -> Nat]
  BY <1>1, WeightsType
<1> QED
  BY <1>2, <1>3, EscrowConstants, TotalZero

(* What is left of the slope of the total is the slope of the locks. *)
LEMMA SlopesLeft ==
    ASSUME EscrowInv, SumInv, NEW t \in Times
    PROVE  LastPoint.slope + Total([s \in Ahead(LastPoint.ts, t) |-> slope_changes[s]])
               = IF LastPoint.ts <= t THEN Total(Slopes(locked, t)) ELSE LastPoint.slope
<1> DEFINE T == LastPoint.ts
           S == Ahead(T, t)
           g == Endings(locked, T, t)
           f == [s \in S |-> slope_changes[s]]
<1>1. TypeOK /\ LastIsSum /\ ScheduleIsSum /\ locked \in [Users -> Lock]
  BY DEF EscrowInv, SumInv, TypeOK
<1>2. T \in Nat /\ t \in Nat /\ LastPoint.slope \in Nat
  BY <1>1, LastPointType, EscrowConstants, SMT DEF Times
<1>3. LastPoint.slope = Total(Slopes(locked, T))
  BY <1>1 DEF LastIsSum, SumPoint
<1>4. g \in [S -> Nat] /\ Total(g) \in Nat /\ IsFiniteSet(S) /\ \A s \in S : s \in Nat \ {0}
  BY <1>1, <1>2, EndingsType, AheadFinite
<1>5. ASSUME NEW s \in S PROVE f[s] = 0 - g[s]
  <2>1. s \in Times /\ s > T
    <3>1. s \in Times /\ T < s
      BY DEF Ahead
    <3> QED
      BY <1>2, <1>4, <3>1, SMT
  <2>2. slope_changes[s] = -Total(Ending(locked, s))
    BY <1>1, <2>1 DEF ScheduleIsSum
  <2>3. Total(Ending(locked, s)) \in Nat
    BY <1>1, <1>4, EndingType
  <2>4. \A x \in Nat : -x = 0 - x
    BY SMT
  <2>5. f[s] = slope_changes[s] /\ g[s] = Total(Ending(locked, s))
    BY DEF Endings
  <2> QED
    BY <2>2, <2>3, <2>4, <2>5
<1>6. DOMAIN f = S
  OBVIOUS
<1>7. Total(f) = 0 - Total(g)
  <2> HIDE DEF f, g, S
  <2> QED
    BY <1>4, <1>5, <1>6, TotalNegated
<1>8. CASE T <= t
  <2>1. Total(Slopes(locked, T)) = Total(Slopes(locked, t)) + Total(g)
    BY <1>1, <1>2, <1>8, SlopesAhead
  <2>2. Total(Slopes(locked, t)) \in Nat
    BY <1>1, <1>2, WeightsType
  <2>3. \A x, y \in Nat : (x + y) + (0 - y) = x
    BY SMT
  <2> HIDE DEF f, g
  <2>4. LastPoint.slope + Total(f) = Total(Slopes(locked, t))
    BY <1>3, <1>4, <1>7, <2>1, <2>2, <2>3
  <2> QED
    BY <1>8, <2>4 DEF f
<1>9. CASE ~(T <= t)
  <2>1. \A s \in Times : ~(T < s /\ s <= t)
    <3>1. ASSUME NEW s \in Times PROVE ~(T < s /\ s <= t)
      <4> HIDE DEF T
      <4>1. s \in Nat
        BY EscrowConstants, SMT DEF Times
      <4> QED
        BY <1>2, <1>9, <4>1, SMT
    <3> QED
      BY <3>1
  <2>2. S = {}
    BY <2>1 DEF Ahead
  <2>3. Total(g) = 0
    BY <1>4, <2>2, TotalZero
  <2>4. \A x \in Nat : x + (0 - 0) = x
    BY SMT
  <2> HIDE DEF f, g
  <2>5. LastPoint.slope + Total(f) = LastPoint.slope
    BY <1>2, <1>7, <2>3, <2>4
  <2> QED
    BY <1>9, <2>5 DEF f
<1> QED
  BY <1>8, <1>9

(* As the run states it. *)
LEMMA SlopesDoUnwind ==
    ASSUME EscrowInv, SumInv
    PROVE  SlopesUnwind
<1> DEFINE left(t) == LastPoint.slope + Total([s \in Ahead(LastPoint.ts, t) |-> slope_changes[s]])
           b == MaxTime + MAXTIME
<1>1. /\ TypeOK /\ locked \in [Users -> Lock]
      /\ LastPoint.slope \in Nat /\ LastPoint.ts \in Nat /\ LastPoint.ts <= MaxTime
      /\ b \in Times /\ b \in Nat /\ LastPoint.ts <= b
  <2>1. TypeOK /\ locked \in [Users -> Lock]
    BY DEF EscrowInv, TypeOK
  <2>2. LastPoint.slope \in Nat /\ LastPoint.ts \in 0..now /\ now \in Nat /\ now <= MaxTime
    BY <2>1, LastPointType
  <2> QED
    BY <2>1, <2>2, EscrowConstants, SMT DEF Times
<1>2. ASSUME NEW t \in Times PROVE left(t) >= 0
  <2>1. t \in Nat
    BY EscrowConstants, SMT DEF Times
  <2>2. Total(Slopes(locked, t)) \in Nat
    BY <1>1, <2>1, WeightsType
  <2>3. left(t) \in Nat
    BY <1>1, <2>2, SlopesLeft
  <2> HIDE DEF left
  <2> QED
    BY <2>3, SMT
<1>3. left(b) = 0
  <2>1. Total(Slopes(locked, b)) = 0
    BY <1>1, NoSlopeAtEnd
  <2> QED
    BY <1>1, <2>1, SlopesLeft
<1> QED
  BY <1>2, <1>3 DEF SlopesUnwind, Ahead

(* On the same condition the slope changes still scheduled never take the total
   slope below zero, and end it at zero. *)
THEOREM SlopesAlwaysUnwind == Spec /\ OnTime => []SlopesUnwind
<1>1. Init => SumInv
  BY SumInit
<1>2. EscrowInv /\ EscrowInv' /\ SumInv /\ [Next]_vars /\ [CheckpointedInTime]_point_history
          => SumInv'
  BY SumInvStep
<1>3. EscrowInv /\ SumInv => SlopesUnwind
  BY SlopesDoUnwind
<1> QED
  BY <1>1, <1>2, <1>3, EscrowInvariant, PTL DEF Spec, OnTime
=============================================================================
