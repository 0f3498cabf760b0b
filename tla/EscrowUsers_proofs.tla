------------------------- MODULE EscrowUsers_proofs -------------------------
(***************************************************************************)
(* Proofs about two contracts that build on the locks of the VotingEscrow: *)
(* the FeeDistributor, which pays by past votes, and the CliffEscrow, an   *)
(* account that locks for somebody else.  For any users, tokens, amounts,  *)
(* weeks, and number of epochs an arrival is spread over.                  *)
(***************************************************************************)
EXTENDS FeeDistributor, CliffEscrow, VeLocks_proofs

-----------------------------------------------------------------------------
(***************************************************************************)
(* FeeDistributor: the induction hypothesis                                *)
(***************************************************************************)
\* The sets of an epoch are a range of those there are, empty until it is
\* first filled.
SetsInRange ==
    /\ Len(token_sets) > 0
    /\ \A e \in Epochs :
          /\ initial_set_for_epoch[e] <= max_set_for_epoch[e]
          /\ initial_set_for_epoch[e] = 0 <=> max_set_for_epoch[e] = 0

\* The sets that an epoch is claimed in.
SetsOf(e) == (initial_set_for_epoch[e]..max_set_for_epoch[e]) \ {0}

\* A token that funds an epoch is in one of them, so the claim's loop over
\* them meets it.
FundsInSets ==
    \A e \in Epochs, t \in Tokens : balances_for_epoch[e][t] > 0 =>
        /\ e >= INITIAL_EPOCH
        /\ \E i \in SetsOf(e) : t \in token_sets[i]

\* The two records of what a user has claimed: the cursor of their epochs is
\* never behind the mark that a token has.
CursorsInStep ==
    \A u \in Users :
        /\ last_claimed_for[u] <= now
        /\ last_claimed_for[u] # 0 => last_claimed_for[u] >= INITIAL_EPOCH
        /\ \A t \in Tokens : claimed_epoch_for[u][t] <= last_claimed_for[u]

DistributorInv ==
    /\ TypeOK
    /\ SetsInRange
    /\ FundsInSets
    /\ CursorsInStep

-----------------------------------------------------------------------------
(***************************************************************************)
(* Epochs                                                                  *)
(***************************************************************************)
(* The constants are numbers and sets. *)
LEMMA DistributorConstants ==
    /\ IsFiniteSet(Users)
    /\ OVER_WEEKS \in Nat \ {0}
    /\ FirstSet \subseteq Tokens
    /\ \A set \in TokenSets : set \subseteq Tokens
    /\ Arrivals \subseteq Nat
    /\ EpochCounts \subseteq Nat \ {0}
    /\ Cliffs \subseteq Users
    /\ CliffOf \in [Users -> Cliffs \cup {NoCliff}]
  BY DistributorAssumption

(* Whole weeks are what rounding leaves alone. *)
LEMMA WholeWeeks ==
    ASSUME NEW q \in Nat
    PROVE  q * WEEK \in Nat /\ RoundToWeek(q * WEEK) = q * WEEK
<1>1. q * WEEK \in Nat /\ (q * WEEK) \div WEEK = q
  BY VeConstants, MultipleDiv
<1> QED
  BY <1>1 DEF RoundToWeek

(* A time that rounding leaves alone is a number of weeks. *)
LEMMA InWeeks ==
    ASSUME NEW e \in Nat, RoundToWeek(e) = e
    PROVE  \E q \in Nat : e = q * WEEK
<1>1. e \div WEEK \in Nat
  BY VeConstants, DivBounds
<1> QED
  BY <1>1 DEF RoundToWeek

(* The last epoch that is ever filled. *)
LEMMA LastEpoch ==
    /\ OVER_WEEKS * WEEK \in Nat
    /\ OVER_WEEKS * WEEK >= WEEK
    /\ MaxTime + OVER_WEEKS * WEEK \in Nat
<1>1. OVER_WEEKS \in Nat /\ OVER_WEEKS >= 1 /\ WEEK \in Nat /\ MaxTime \in Nat
  BY DistributorConstants, VeConstants, SMT
<1>2. OVER_WEEKS * WEEK \in Nat /\ 1 * WEEK <= OVER_WEEKS * WEEK
  BY <1>1, ProductMonotone
<1> QED
  BY <1>1, <1>2, SMT

(* Epochs are finitely many times, each a number of weeks. *)
LEMMA EpochsType ==
    /\ IsFiniteSet(Epochs)
    /\ Epochs \subseteq Nat
    /\ \A e \in Epochs : RoundToWeek(e) = e
<1>1. PICK last \in Nat : last = MaxTime + OVER_WEEKS * WEEK
  BY LastEpoch
<1>2. Epochs = {RoundToWeek(t) : t \in StartTime..last}
  BY <1>1 DEF Epochs
<1>3. ASSUME NEW t \in StartTime..last
      PROVE  RoundToWeek(t) \in 0..last /\ RoundToWeek(RoundToWeek(t)) = RoundToWeek(t)
  <2>1. t \in Nat /\ t <= last
    BY VeConstants, SMT
  <2>2. RoundToWeek(t) \in 0..t
    BY <2>1, RoundedTime
  <2>3. RoundToWeek(t) \in 0..last
    BY <2>1, <2>2, SMT
  <2> QED
    BY <2>1, <2>3, RoundedAgain
<1>4. Epochs \subseteq 0..last /\ \A e \in Epochs : RoundToWeek(e) = e
  BY <1>2, <1>3
<1>5. IsFiniteSet(0..last)
  BY FS_Interval, SMT
<1>6. IsFiniteSet(Epochs)
  BY <1>4, <1>5, FS_Subset, Zenon
<1>7. Epochs \subseteq Nat
  BY <1>4, SMT
<1> QED
  BY <1>4, <1>6, <1>7

(* Whole weeks up to the last are epochs. *)
LEMMA WeeksAreEpochs ==
    ASSUME NEW e \in Nat, RoundToWeek(e) = e, StartTime <= e, e <= MaxTime + OVER_WEEKS * WEEK
    PROVE  e \in Epochs
<1>1. e \in StartTime..(MaxTime + OVER_WEEKS * WEEK)
  BY LastEpoch, VeConstants, SMT
<1> QED
  BY <1>1 DEF Epochs

(* The next epoch is a whole number of weeks, after now and at most a week
   away. *)
LEMMA NextEpochType ==
    ASSUME NEW t \in Nat
    PROVE  /\ NextEpoch(t) \in Nat
           /\ RoundToWeek(NextEpoch(t)) = NextEpoch(t)
           /\ NextEpoch(t) > t
           /\ NextEpoch(t) <= t + WEEK
<1>1. t + WEEK \in Nat
  BY VeConstants, SMT
<1>2. PICK q \in Nat : q = (t + WEEK) \div WEEK
  BY <1>1, VeConstants, DivBounds
<1>3. NextEpoch(t) = q * WEEK
  BY <1>2 DEF NextEpoch, RoundToWeek
<1>4. q * WEEK \in Nat /\ RoundToWeek(q * WEEK) = q * WEEK
  BY WholeWeeks
<1>5. q * WEEK <= t + WEEK /\ t + WEEK < q * WEEK + WEEK
  BY <1>1, <1>2, VeConstants, DivBounds
<1>6. q * WEEK > t
  BY <1>4, <1>5, VeConstants, SMT
<1> QED
  BY <1>3, <1>4, <1>5, <1>6

(* Epochs are at least a week apart, and a number of weeks. *)
LEMMA WeeksApart ==
    ASSUME NEW a \in Nat, NEW b \in Nat, RoundToWeek(a) = a, RoundToWeek(b) = b, a <= b
    PROVE  /\ \E k \in Nat : b = a + k * WEEK
           /\ a < b => a + WEEK <= b
<1>1. PICK p \in Nat : a = p * WEEK
  BY InWeeks
<1>2. PICK q \in Nat : b = q * WEEK
  BY InWeeks
<1>3. p <= q
  BY <1>1, <1>2, VeConstants, FactorOut
<1>4. PICK k \in Nat : q = p + k
  <2>1. q - p \in Nat /\ q = p + (q - p)
    BY <1>3, SMT
  <2> QED
    BY <2>1
<1>5. (p + k) * WEEK = p * WEEK + k * WEEK
  BY VeConstants, SMT
<1>6. b = a + k * WEEK
  BY <1>1, <1>2, <1>4, <1>5
<1>7. ASSUME a < b PROVE a + WEEK <= b
  <2>1. k # 0
    <3> SUFFICES ASSUME k = 0 PROVE FALSE
      OBVIOUS
    <3>1. 0 * WEEK = 0
      BY VeConstants, SMT
    <3> QED
      BY <1>6, <1>7, <3>1, SMT
  <2>2. 1 <= k
    BY <2>1, SMT
  <2>3. 1 * WEEK <= k * WEEK /\ k * WEEK \in Nat
    BY <2>2, VeConstants, ProductMonotone
  <2> QED
    BY <1>6, <2>3, VeConstants, SMT
<1> QED
  BY <1>6, <1>7

(* A number of weeks after an epoch is a whole number of weeks. *)
LEMMA WeeksLater ==
    ASSUME NEW a \in Nat, RoundToWeek(a) = a, NEW k \in Nat
    PROVE  /\ a + k * WEEK \in Nat
           /\ a + k * WEEK >= a
           /\ RoundToWeek(a + k * WEEK) = a + k * WEEK
<1>1. PICK p \in Nat : a = p * WEEK
  BY InWeeks
<1>2. (p + k) * WEEK = p * WEEK + k * WEEK /\ k * WEEK \in Nat
  BY VeConstants, SMT
<1>3. (p + k) * WEEK \in Nat /\ RoundToWeek((p + k) * WEEK) = (p + k) * WEEK
  BY WholeWeeks
<1>4. a + k * WEEK = (p + k) * WEEK
  BY <1>1, <1>2
<1>5. a + k * WEEK >= a
  BY <1>2, SMT
<1> QED
  BY <1>3, <1>4, <1>5

(* The epochs that are filled now are epochs to come, OVER_WEEKS at most. *)
LEMMA FilledEpochsType ==
    ASSUME now \in StartTime..MaxTime
    PROVE  /\ FilledEpochs \subseteq Epochs
           /\ \A e \in FilledEpochs : e > now /\ e >= INITIAL_EPOCH
           /\ Cardinality(FilledEpochs) \in Nat
           /\ Cardinality(FilledEpochs) <= OVER_WEEKS
<1>0. now \in Nat /\ now >= StartTime /\ now <= MaxTime
  BY VeConstants, SMT
<1>1. PICK c \in Nat : c = FillCursor(now) /\ c = NextEpoch(now)
  BY <1>0, NextEpochType DEF FillCursor
<1>2. RoundToWeek(c) = c /\ c > now /\ c <= now + WEEK
  BY <1>0, <1>1, NextEpochType
<1>3. OVER_WEEKS - 1 \in Nat /\ OVER_WEEKS \in Nat
  BY DistributorConstants, SMT
<1>4. ASSUME NEW k \in 0..(OVER_WEEKS - 1)
      PROVE  c + k * WEEK \in Epochs /\ c + k * WEEK > now /\ c + k * WEEK >= c
  <2>1. k \in Nat /\ k <= OVER_WEEKS - 1
    BY <1>3, SMT
  <2>2. /\ c + k * WEEK \in Nat
        /\ c + k * WEEK >= c
        /\ RoundToWeek(c + k * WEEK) = c + k * WEEK
    BY <1>2, <2>1, WeeksLater
  <2>3. k * WEEK <= (OVER_WEEKS - 1) * WEEK /\ k * WEEK \in Nat
    BY <1>3, <2>1, VeConstants, ProductMonotone
  <2>4. (OVER_WEEKS - 1) * WEEK = OVER_WEEKS * WEEK - WEEK
    BY <1>3, VeConstants, SMT
  <2>5. c + k * WEEK <= MaxTime + OVER_WEEKS * WEEK
    BY <1>0, <1>2, <2>3, <2>4, LastEpoch, VeConstants, SMT
  <2>6. StartTime <= c + k * WEEK /\ c + k * WEEK > now
    BY <1>0, <1>2, <2>2, VeConstants, SMT
  <2> QED
    BY <2>2, <2>5, <2>6, WeeksAreEpochs
<1>5. FilledEpochs = {c + k * WEEK : k \in 0..(OVER_WEEKS - 1)}
  BY <1>1 DEF FilledEpochs
<1>6. c >= INITIAL_EPOCH
  <2>1. PICK i \in Nat : i = INITIAL_EPOCH
    BY NextEpochType, VeConstants DEF INITIAL_EPOCH
  <2>2. RoundToWeek(i) = i /\ i <= StartTime + WEEK
    BY <2>1, NextEpochType, VeConstants DEF INITIAL_EPOCH
  <2> SUFFICES ASSUME c < i PROVE FALSE
    BY <2>1, SMT
  <2>3. c + WEEK <= i
    BY <1>2, <2>2, WeeksApart, SMT
  <2> QED
    BY <1>0, <1>2, <2>2, <2>3, VeConstants, SMT
<1>7. Cardinality(FilledEpochs) \in Nat /\ Cardinality(FilledEpochs) <= OVER_WEEKS
  <2> DEFINE D == 0..(OVER_WEEKS - 1)
             f == [k \in D |-> c + k * WEEK]
  <2>1. IsFiniteSet(D) /\ Cardinality(D) = OVER_WEEKS
    BY <1>3, FS_Interval, SMT
  <2>2. f \in Surjection(D, FilledEpochs)
    BY <1>5, Zenon DEF Surjection
  <2> HIDE DEF D, f
  <2>3. IsFiniteSet(FilledEpochs) /\ Cardinality(FilledEpochs) <= Cardinality(D)
    BY <2>1, <2>2, FS_Surjection
  <2> QED
    BY <2>1, <2>3, FS_CardinalityType
<1>8. INITIAL_EPOCH \in Nat
  BY NextEpochType, VeConstants DEF INITIAL_EPOCH
<1>9. \A k \in 0..(OVER_WEEKS - 1) : c + k * WEEK >= INITIAL_EPOCH
  <2> SUFFICES ASSUME NEW k \in 0..(OVER_WEEKS - 1) PROVE c + k * WEEK >= INITIAL_EPOCH
    OBVIOUS
  <2>1. c + k * WEEK \in Nat
    BY <1>4, EpochsType
  <2> QED
    BY <1>4, <1>6, <1>8, <2>1, SMT
<1> QED
  BY <1>4, <1>5, <1>7, <1>9

(* The epochs that a claim is about: begun, after the last one claimed, and
   without a gap. *)
LEMMA DueEpochsType ==
    ASSUME DistributorInv, NEW u \in Users, NEW n \in Nat \ {0}
    PROVE  /\ DueEpochs(u, n) \subseteq Epochs
           /\ IsFiniteSet(DueEpochs(u, n))
           /\ \A e \in DueEpochs(u, n) :
                 e <= now /\ e > last_claimed_for[u] /\ e >= INITIAL_EPOCH
           /\ \A e \in DueEpochs(u, n), f \in Epochs :
                 f <= e /\ f > last_claimed_for[u] /\ f >= INITIAL_EPOCH => f \in DueEpochs(u, n)
<1>0. now \in Nat /\ now >= StartTime /\ now <= MaxTime
  BY VeConstants, SMT DEF DistributorInv, TypeOK
<1>1. PICK l \in Nat : l = last_claimed_for[u]
  <2>1. last_claimed_for[u] \in Epochs \cup {0}
    BY DEF DistributorInv, TypeOK
  <2>2. Epochs \subseteq Nat
    BY EpochsType
  <2>3. last_claimed_for[u] \in Nat
    <3>1. 0 \in Nat
      BY SMT
    <3> QED
      BY <2>1, <2>2, <3>1, Zenon
  <2> QED
    BY <2>3
<1>2. PICK i \in Nat : i = INITIAL_EPOCH
  BY NextEpochType, VeConstants DEF INITIAL_EPOCH
<1>3. RoundToWeek(i) = i /\ i > StartTime
  BY <1>2, NextEpochType, VeConstants DEF INITIAL_EPOCH
<1>4. l # 0 => RoundToWeek(l) = l /\ l >= i
  BY <1>1, <1>2, EpochsType DEF DistributorInv, TypeOK, CursorsInStep
<1>5. PICK first \in Nat : /\ first = FirstEpoch(u)
                           /\ first = IF l = 0 THEN i ELSE l + WEEK
  <2>1. FirstEpoch(u) = IF l = 0 THEN i ELSE l + WEEK
    BY <1>1, <1>2 DEF FirstEpoch
  <2>2. l + WEEK \in Nat
    BY VeConstants, SMT
  <2> QED
    BY <2>1, <2>2
<1>6. /\ RoundToWeek(first) = first
      /\ first >= i /\ first > l
  <2>1. CASE l = 0
    BY <1>3, <1>5, <2>1, VeConstants, SMT
  <2>2. CASE l # 0
    <3>1. l + 1 * WEEK = l + WEEK
      BY VeConstants, SMT
    <3>2. RoundToWeek(l + WEEK) = l + WEEK
      BY <1>4, <2>2, <3>1, WeeksLater
    <3> QED
      BY <1>4, <1>5, <2>2, <3>2, VeConstants, SMT
  <2> QED
    BY <2>1, <2>2
<1>7. PICK D : D = DueEpochs(u, n)
  OBVIOUS
<1>8. D = {first + k * WEEK : k \in 0..(n - 1)} \cap 0..now
  BY <1>5, <1>7 DEF DueEpochs
<1>9. ASSUME NEW e \in D
      PROVE  e \in Epochs /\ e <= now /\ e > l /\ e >= i
  <2>1. PICK k \in 0..(n - 1) : e = first + k * WEEK
    BY <1>8
  <2>2. k \in Nat
    BY SMT
  <2>3. e \in Nat /\ e >= first /\ RoundToWeek(e) = e
    BY <1>6, <2>1, <2>2, WeeksLater
  <2>4. e <= now
    BY <1>0, <1>8, SMT
  <2>5. e > l /\ e >= i /\ StartTime <= e
    BY <1>3, <1>6, <2>3, VeConstants, SMT
  <2>6. e <= MaxTime + OVER_WEEKS * WEEK
    BY <1>0, <2>3, <2>4, LastEpoch, VeConstants, SMT
  <2>7. e \in Epochs
    BY <2>3, <2>5, <2>6, WeeksAreEpochs
  <2> QED
    BY <2>4, <2>5, <2>7
<1>10. ASSUME NEW e \in D, NEW f \in Epochs, f <= e, f > l, f >= i
       PROVE  f \in D
  <2>1. f \in Nat /\ RoundToWeek(f) = f /\ e \in Nat
    BY <1>9, EpochsType
  <2>2. first <= f
    <3>1. CASE l = 0
      BY <1>5, <1>10, <3>1
    <3>2. CASE l # 0
      <4>1. l <= f
        BY <1>10, <2>1, SMT
      <4> QED
        BY <1>4, <1>5, <1>10, <2>1, <3>2, <4>1, WeeksApart
    <3> QED
      BY <3>1, <3>2
  <2>3. PICK j \in Nat : f = first + j * WEEK
    BY <1>6, <2>1, <2>2, WeeksApart
  <2>4. PICK k \in 0..(n - 1) : e = first + k * WEEK
    BY <1>8
  <2>5. j <= k
    <3>1. j * WEEK \in Nat /\ k * WEEK \in Nat /\ k \in Nat
      BY VeConstants, SMT
    <3>2. j * WEEK <= k * WEEK
      BY <1>10, <2>1, <2>3, <2>4, <3>1, SMT
    <3> QED
      BY <3>1, <3>2, VeConstants, FactorOut
  <2>6. j \in 0..(n - 1)
    BY <2>5, SMT
  <2>7. f \in 0..now
    BY <1>0, <1>9, <1>10, <2>1, SMT
  <2> QED
    BY <1>8, <2>3, <2>6, <2>7
<1>11. IsFiniteSet(D)
  BY <1>9, EpochsType, FS_Subset
<1> QED
  BY <1>1, <1>2, <1>7, <1>9, <1>10, <1>11

(* What is new of a token, and the part of it that each epoch gets. *)
LEMMA PerEpochType ==
    ASSUME TypeOK, NEW t \in Tokens
    PROVE  /\ token_balances[t] \in Nat /\ balance[t] \in Nat
           /\ NewBalance(t) \in Nat
           /\ NewBalance(t) >= token_balances[t]
           /\ NewBalance(t) # token_balances[t] => NewBalance(t) = balance[t]
           /\ PerEpoch(t) \in Nat
           /\ PerEpoch(t) * OVER_WEEKS <= NewBalance(t) - token_balances[t]
           /\ PerEpoch(t) > 0 => t \in CurrentSet
<1>1. PICK b \in Nat, tb \in Nat : b = balance[t] /\ tb = token_balances[t]
  BY DEF TypeOK
<1>2. PICK nb \in Nat : /\ nb = NewBalance(t)
                        /\ nb >= tb
                        /\ nb # tb => nb = b /\ t \in CurrentSet
  <2>1. CASE t \in CurrentSet
    BY <1>1, <2>1, SMT DEF NewBalance, Larger
  <2>2. CASE t \notin CurrentSet
    BY <1>1, <2>2, SMT DEF NewBalance
  <2> QED
    BY <2>1, <2>2
<1>3. nb - tb \in Nat
  BY <1>2, SMT
<1>4. PerEpoch(t) = (nb - tb) \div OVER_WEEKS
  BY <1>1, <1>2 DEF PerEpoch
<1>5. PICK d \in Nat : d = nb - tb
  BY <1>3
<1>6. d \div OVER_WEEKS \in Nat /\ (d \div OVER_WEEKS) * OVER_WEEKS <= d
  BY DistributorConstants, DivBounds
<1>7. d = 0 => d \div OVER_WEEKS = 0
  BY DistributorConstants, SMT
<1>8. PerEpoch(t) > 0 => nb # tb
  BY <1>2, <1>4, <1>5, <1>7, SMT
<1> QED
  BY <1>1, <1>2, <1>4, <1>5, <1>6, <1>8

(* Filling funds epochs to come, and each in the sets that it is claimed
   in. *)
LEMMA FillHolds ==
    ASSUME DistributorInv, FillEpochs
    PROVE  /\ initial_set_for_epoch' \in [Epochs -> 0..Len(token_sets)]
           /\ max_set_for_epoch' \in [Epochs -> 0..Len(token_sets)]
           /\ balances_for_epoch' \in [Epochs -> [Tokens -> Nat]]
           /\ \A e \in Epochs :
                 /\ initial_set_for_epoch'[e] <= max_set_for_epoch'[e]
                 /\ initial_set_for_epoch'[e] = 0 <=> max_set_for_epoch'[e] = 0
           /\ \A e \in Epochs, t \in Tokens : balances_for_epoch'[e][t] > 0 =>
                 /\ e >= INITIAL_EPOCH
                 /\ \E i \in (initial_set_for_epoch'[e]..max_set_for_epoch'[e]) \ {0} :
                        t \in token_sets[i]
           /\ \A e \in Epochs : e <= now =>
                 /\ initial_set_for_epoch'[e] = initial_set_for_epoch[e]
                 /\ max_set_for_epoch'[e] = max_set_for_epoch[e]
                 /\ balances_for_epoch'[e] = balances_for_epoch[e]
<1>0. PICK len \in Nat : len = Len(token_sets) /\ len > 0
  BY SMT DEF DistributorInv, TypeOK, SetsInRange
<1>1. /\ initial_set_for_epoch \in [Epochs -> 0..len]
      /\ max_set_for_epoch \in [Epochs -> 0..len]
      /\ balances_for_epoch \in [Epochs -> [Tokens -> Nat]]
      /\ now \in StartTime..MaxTime
      /\ now \in Nat
  BY <1>0, VeConstants, SMT DEF DistributorInv, TypeOK
<1>2. \A t \in Tokens : PerEpoch(t) \in Nat /\ (PerEpoch(t) > 0 => t \in CurrentSet)
  BY PerEpochType DEF DistributorInv
<1>3. \A e \in Epochs :
          /\ initial_set_for_epoch'[e] =
                IF e \in FilledEpochs
                THEN IF initial_set_for_epoch[e] = 0 THEN len ELSE initial_set_for_epoch[e]
                ELSE initial_set_for_epoch[e]
          /\ max_set_for_epoch'[e] = IF e \in FilledEpochs THEN len ELSE max_set_for_epoch[e]
  BY <1>0 DEF FillEpochs, InitialSet
<1>4. \A e \in Epochs, t \in Tokens :
          balances_for_epoch'[e][t] =
              balances_for_epoch[e][t] + (IF e \in FilledEpochs THEN PerEpoch(t) ELSE 0)
  BY DEF FillEpochs
<1>5. \A e \in FilledEpochs : e > now /\ e >= INITIAL_EPOCH /\ e \in Epochs
  BY <1>1, FilledEpochsType
<1>6. initial_set_for_epoch' \in [Epochs -> 0..len] /\ max_set_for_epoch' \in [Epochs -> 0..len]
  <2>1. \A e \in Epochs : initial_set_for_epoch'[e] \in 0..len /\ max_set_for_epoch'[e] \in 0..len
    BY <1>1, <1>3, SMT
  <2> QED
    BY <2>1, Zenon DEF FillEpochs
<1>7. balances_for_epoch' \in [Epochs -> [Tokens -> Nat]]
  <2>1. ASSUME NEW e \in Epochs, NEW t \in Tokens
        PROVE  balances_for_epoch[e][t]
                 + (IF e \in FilledEpochs THEN PerEpoch(t) ELSE 0) \in Nat
    <3>1. balances_for_epoch[e][t] \in Nat /\ PerEpoch(t) \in Nat
      BY <1>1, <1>2
    <3> QED
      BY <3>1, SMT
  <2> QED
    BY <2>1, Zenon DEF FillEpochs
<1>8. \A e \in Epochs :
          /\ initial_set_for_epoch[e] <= max_set_for_epoch[e]
          /\ initial_set_for_epoch[e] = 0 <=> max_set_for_epoch[e] = 0
  BY DEF DistributorInv, SetsInRange
<1>9. ASSUME NEW e \in Epochs
      PROVE  /\ initial_set_for_epoch'[e] <= max_set_for_epoch'[e]
             /\ initial_set_for_epoch'[e] = 0 <=> max_set_for_epoch'[e] = 0
  <2>1. initial_set_for_epoch[e] \in 0..len /\ max_set_for_epoch[e] \in 0..len
    BY <1>1
  <2> QED
    BY <1>0, <1>3, <1>8, <2>1, SMT
<1>10. ASSUME NEW e \in Epochs, e <= now
       PROVE  /\ initial_set_for_epoch'[e] = initial_set_for_epoch[e]
              /\ max_set_for_epoch'[e] = max_set_for_epoch[e]
              /\ balances_for_epoch'[e] = balances_for_epoch[e]
  <2>1. e \in Nat
    BY EpochsType
  <2>2. e \notin FilledEpochs
    BY <1>1, <1>5, <1>10, <2>1, SMT
  <2>3. \A t \in Tokens : balances_for_epoch[e][t] \in Nat
    BY <1>1
  <2>4. \A t \in Tokens : balances_for_epoch'[e][t] = balances_for_epoch[e][t]
    BY <1>4, <2>2, <2>3, SMT
  <2>5. balances_for_epoch'[e] \in [Tokens -> Nat] /\ balances_for_epoch[e] \in [Tokens -> Nat]
    BY <1>1, <1>7
  <2>6. balances_for_epoch'[e] = balances_for_epoch[e]
    BY <2>4, <2>5
  <2> QED
    BY <1>3, <2>2, <2>6
<1>11. ASSUME NEW e \in Epochs, NEW t \in Tokens, balances_for_epoch'[e][t] > 0
       PROVE  /\ e >= INITIAL_EPOCH
              /\ \E i \in (initial_set_for_epoch'[e]..max_set_for_epoch'[e]) \ {0} :
                     t \in token_sets[i]
  <2>0. /\ initial_set_for_epoch[e] \in 0..len /\ max_set_for_epoch[e] \in 0..len
        /\ initial_set_for_epoch'[e] \in 0..len /\ max_set_for_epoch'[e] \in 0..len
    BY <1>1, <1>6
  <2>1. PICK b \in Nat, p \in Nat : b = balances_for_epoch[e][t] /\ p = PerEpoch(t)
    BY <1>1, <1>2
  <2>2. CASE b > 0
    <3>1. /\ e >= INITIAL_EPOCH
          /\ \E i \in (initial_set_for_epoch[e]..max_set_for_epoch[e]) \ {0} :
                 t \in token_sets[i]
      BY <2>1, <2>2 DEF DistributorInv, FundsInSets, SetsOf
    <3>2. PICK i \in (initial_set_for_epoch[e]..max_set_for_epoch[e]) \ {0} :
              t \in token_sets[i]
      BY <3>1
    <3>3. i \in (initial_set_for_epoch'[e]..max_set_for_epoch'[e]) \ {0}
      BY <1>0, <1>3, <1>8, <2>0, SMT
    <3> QED
      BY <3>1, <3>2, <3>3
  <2>3. CASE b = 0
    <3>0. balances_for_epoch'[e][t] = b + (IF e \in FilledEpochs THEN p ELSE 0)
      BY <1>4, <2>1
    <3>1. e \in FilledEpochs /\ p > 0
      <4>1. CASE e \in FilledEpochs
        BY <1>11, <2>3, <3>0, <4>1, SMT
      <4>2. CASE e \notin FilledEpochs
        BY <1>11, <2>3, <3>0, <4>2, SMT
      <4> QED
        BY <4>1, <4>2
    <3>2. t \in token_sets[len]
      BY <1>0, <1>2, <2>1, <3>1 DEF CurrentSet
    <3>3. len \in (initial_set_for_epoch'[e]..max_set_for_epoch'[e]) \ {0}
      BY <1>0, <1>3, <2>0, <3>1, SMT
    <3> QED
      BY <1>5, <3>1, <3>2, <3>3
  <2> QED
    BY <2>1, <2>2, <2>3, SMT
<1> QED
  BY <1>0, <1>6, <1>7, <1>9, <1>10, <1>11

(* A share of an epoch that anybody had votes in is a number. *)
LEMMA ShareType ==
    ASSUME TypeOK, NEW u \in Users, NEW e \in Epochs, NEW t \in Tokens
    PROVE  /\ getPastTotalSupply(e) \in Nat
           /\ getPastTotalSupply(e) > 0 => Share(u, e, t) \in Nat
           /\ getPastTotalSupply(e) > 0 /\ balances_for_epoch[e][t] = 0 => Share(u, e, t) = 0
<1>1. votes_at[e] \in [Users -> Nat] /\ votes_at[e][u] \in Nat /\ balances_for_epoch[e][t] \in Nat
  BY DEF TypeOK
<1>2. getPastTotalSupply(e) \in Nat
  BY <1>1, DistributorConstants, TotalType DEF getPastTotalSupply
<1>3. ASSUME getPastTotalSupply(e) > 0
      PROVE  Share(u, e, t) \in Nat /\ (balances_for_epoch[e][t] = 0 => Share(u, e, t) = 0)
  <2>1. PICK w \in Nat \ {0} : w = getPastTotalSupply(e)
    BY <1>2, <1>3, SMT
  <2>2. PICK b \in Nat, v \in Nat : b = balances_for_epoch[e][t] /\ v = votes_at[e][u]
    BY <1>1
  <2>3. Share(u, e, t) = (b * v) \div w
    BY <2>1, <2>2 DEF Share
  <2>4. PICK m \in Nat : m = b * v
    BY SMT
  <2>5. m \div w \in Nat
    BY DivBounds
  <2>6. b = 0 => m = 0
    BY <2>2, <2>4, SMT
  <2>7. 0 \div w = 0
    BY <2>1, SMT
  <2> QED
    BY <2>2, <2>3, <2>4, <2>5, <2>6, <2>7
<1> QED
  BY <1>2, <1>3

\* What a claim for the due epochs D does, with E the epochs that are claimed of
\* a token and A what is paid of it.
Claims(u, D, E, A) ==
    /\ \A t \in Tokens : \A e \in D :
          e \in E[t] <=> t \in TokensOf(e) /\ claimed_epoch_for[u][t] < e
    /\ \A t \in Tokens : \A e \in E[t] :
          getPastTotalSupply(e) > 0 /\ Share(u, e, t) \in Nat
    /\ \A t \in Tokens : A[t] = Total([e \in E[t] |-> Share(u, e, t)])
    /\ \A t \in Tokens : A[t] <= balance[t]
    /\ last_claimed_for' = [last_claimed_for EXCEPT ![u] = IF D = {} THEN @ ELSE Max(D)]
    /\ claimed_epoch_for' = [claimed_epoch_for EXCEPT ![u] =
           [t \in Tokens |-> IF E[t] = {} THEN @[t] ELSE Max(E[t])]]
    /\ paid' = [paid EXCEPT ![u] = [e \in Epochs |-> [t \in Tokens |->
           @[e][t] + (IF e \in E[t] THEN Share(u, e, t) ELSE 0)]]]
    /\ balance' = [t \in Tokens |-> balance[t] - A[t]]
    /\ token_balances' = [t \in Tokens |-> AfterTransfer(t, A[t])]
    /\ FillEpochs
    /\ UNCHANGED <<escrowVars, token_sets, is_killed, arrived, drained>>

(* That is what it does. *)
LEMMA ClaimFacts ==
    ASSUME DistributorInv, NEW u \in Users, NEW n \in Nat \ {0},
           NEW D, D = DueEpochs(u, n), Claim(u, n)
    PROVE  \E E \in [Tokens -> SUBSET D], A \in [Tokens -> Nat] : Claims(u, D, E, A)
<1>2. D \subseteq Epochs /\ IsFiniteSet(D)
  BY DueEpochsType
<1> DEFINE F == [t \in Tokens |-> {e \in D : t \in TokensOf(e) /\ claimed_epoch_for[u][t] < e}]
<1>3. PICK E : E = F
  OBVIOUS
<1>4. E \in [Tokens -> SUBSET D]
  BY <1>3
<1>5. \A t \in Tokens : \A e \in D :
          e \in E[t] <=> t \in TokensOf(e) /\ claimed_epoch_for[u][t] < e
  BY <1>3
<1> DEFINE B == [t \in Tokens |-> Total([e \in E[t] |-> Share(u, e, t)])]
<1>6. PICK A : A = B
  OBVIOUS
<1>7. \A t \in Tokens : A[t] = Total([e \in E[t] |-> Share(u, e, t)])
  BY <1>6
<1>8. /\ FillEpochs
      /\ \A t \in Tokens : \A e \in E[t] : getPastTotalSupply(e) > 0
      /\ \A t \in Tokens : A[t] <= balance[t]
      /\ last_claimed_for' = [last_claimed_for EXCEPT ![u] = IF D = {} THEN @ ELSE Max(D)]
      /\ claimed_epoch_for' = [claimed_epoch_for EXCEPT ![u] =
             [t \in Tokens |-> IF E[t] = {} THEN @[t] ELSE Max(E[t])]]
      /\ paid' = [paid EXCEPT ![u] = [e \in Epochs |-> [t \in Tokens |->
             @[e][t] + (IF e \in E[t] THEN Share(u, e, t) ELSE 0)]]]
      /\ balance' = [t \in Tokens |-> balance[t] - A[t]]
      /\ token_balances' = [t \in Tokens |-> AfterTransfer(t, A[t])]
      /\ UNCHANGED <<escrowVars, token_sets, is_killed, arrived, drained>>
  BY <1>3, <1>6, Zenon DEF Claim
<1>9. \A t \in Tokens : \A e \in E[t] : Share(u, e, t) \in Nat
  BY <1>2, <1>4, <1>8, ShareType DEF DistributorInv
<1>10. ASSUME NEW t \in Tokens PROVE A[t] \in Nat
  <2>1. PICK S : S = E[t]
    OBVIOUS
  <2>2. IsFiniteSet(S)
    BY <1>2, <1>4, <2>1, FS_Subset
  <2>3. PICK f : f = [e \in S |-> Share(u, e, t)]
    OBVIOUS
  <2>4. f \in [S -> Nat]
    BY <1>9, <2>1, <2>3
  <2>5. Total(f) \in Nat
    BY <2>2, <2>4, TotalType
  <2> QED
    BY <1>7, <2>1, <2>3, <2>5
<1>11. A \in [Tokens -> Nat]
  BY <1>6, <1>10
<1> HIDE DEF F, B
<1>12. Claims(u, D, E, A)
  BY <1>5, <1>7, <1>8, <1>9, Zenon DEF Claims
<1> QED
  BY <1>4, <1>11, <1>12

-----------------------------------------------------------------------------
(***************************************************************************)
(* FeeDistributor: every step keeps the induction hypothesis               *)
(***************************************************************************)
(* Filling keeps what the hypothesis says of sets and funds, with the sets
   there were or one more. *)
LEMMA FillKeepsSets ==
    ASSUME DistributorInv, FillEpochs,
           NEW sets \in Seq(SUBSET Tokens), token_sets' = sets,
           Len(sets) >= Len(token_sets),
           \A i \in 1..Len(token_sets) : sets[i] = token_sets[i]
    PROVE  /\ token_sets' \in Seq(SUBSET Tokens)
           /\ initial_set_for_epoch' \in [Epochs -> 0..Len(token_sets')]
           /\ max_set_for_epoch' \in [Epochs -> 0..Len(token_sets')]
           /\ balances_for_epoch' \in [Epochs -> [Tokens -> Nat]]
           /\ SetsInRange'
           /\ FundsInSets'
<1>1. PICK len \in Nat, more \in Nat : /\ len = Len(token_sets) /\ more = Len(sets)
                                       /\ len > 0 /\ more >= len
  BY SMT DEF DistributorInv, TypeOK, SetsInRange
<1>2. /\ initial_set_for_epoch' \in [Epochs -> 0..len]
      /\ max_set_for_epoch' \in [Epochs -> 0..len]
      /\ balances_for_epoch' \in [Epochs -> [Tokens -> Nat]]
      /\ \A e \in Epochs :
            /\ initial_set_for_epoch'[e] <= max_set_for_epoch'[e]
            /\ initial_set_for_epoch'[e] = 0 <=> max_set_for_epoch'[e] = 0
  BY <1>1, FillHolds
<1>3. \A e \in Epochs, t \in Tokens : balances_for_epoch'[e][t] > 0 =>
          /\ e >= INITIAL_EPOCH
          /\ \E i \in (initial_set_for_epoch'[e]..max_set_for_epoch'[e]) \ {0} :
                 t \in token_sets[i]
  BY FillHolds
<1>4. 0..len \subseteq 0..more
  BY <1>1, SMT
<1>5. SetsInRange'
  BY <1>1, <1>2, SMT DEF SetsInRange
<1>6. ASSUME NEW e \in Epochs, NEW t \in Tokens, balances_for_epoch'[e][t] > 0
      PROVE  e >= INITIAL_EPOCH /\ \E i \in SetsOf(e)' : t \in sets[i]
  <2>1. PICK i \in (initial_set_for_epoch'[e]..max_set_for_epoch'[e]) \ {0} : t \in token_sets[i]
    BY <1>3, <1>6
  <2>2. initial_set_for_epoch'[e] \in 0..len /\ max_set_for_epoch'[e] \in 0..len
    BY <1>2
  <2>3. i \in 1..Len(token_sets)
    BY <1>1, <2>1, <2>2, SMT
  <2> QED
    BY <1>3, <1>6, <2>1, <2>3 DEF SetsOf
<1>7. FundsInSets'
  <2>1. INITIAL_EPOCH' = INITIAL_EPOCH /\ Epochs' = Epochs
    BY DEF INITIAL_EPOCH, NextEpoch, RoundToWeek, Epochs
  <2> QED
    BY <1>6, <2>1 DEF FundsInSets
<1>8. /\ initial_set_for_epoch' \in [Epochs -> 0..more]
      /\ max_set_for_epoch' \in [Epochs -> 0..more]
  BY <1>2, <1>4
<1> QED
  BY <1>1, <1>2, <1>5, <1>7, <1>8

(* What the cursors say does not depend on the time that goes by. *)
LEMMA CursorsStay ==
    ASSUME DistributorInv, now' \in StartTime..MaxTime, now <= now',
           UNCHANGED <<last_claimed_for, claimed_epoch_for>>
    PROVE  CursorsInStep'
<1>1. now \in Nat /\ now' \in Nat
  BY VeConstants, SMT DEF DistributorInv, TypeOK
<1>2. ASSUME NEW u \in Users PROVE last_claimed_for[u] <= now'
  <2>1. last_claimed_for[u] \in Nat
    <3>1. last_claimed_for[u] \in Epochs \cup {0} /\ Epochs \subseteq Nat
      BY EpochsType DEF DistributorInv, TypeOK
    <3>2. 0 \in Nat
      BY SMT
    <3> QED
      BY <3>1, <3>2, Zenon
  <2>2. last_claimed_for[u] <= now
    BY DEF DistributorInv, CursorsInStep
  <2> QED
    BY <1>1, <2>1, <2>2, SMT
<1> QED
  BY <1>2 DEF DistributorInv, CursorsInStep

(* A call of fill_epochs. *)
LEMMA FillCallHolds ==
    ASSUME DistributorInv, FillEpochsCall
    PROVE  DistributorInv'
<1>1. /\ FillEpochs /\ token_sets' = token_sets
      /\ token_balances' = [t \in Tokens |-> NewBalance(t)]
      /\ UNCHANGED <<escrowVars, claimVars, balance, is_killed, arrived, drained>>
  BY DEF FillEpochsCall
<1>2. token_sets \in Seq(SUBSET Tokens) /\ Len(token_sets) >= Len(token_sets)
  BY SMT DEF DistributorInv, TypeOK
<1>3. /\ token_sets' \in Seq(SUBSET Tokens)
      /\ initial_set_for_epoch' \in [Epochs -> 0..Len(token_sets')]
      /\ max_set_for_epoch' \in [Epochs -> 0..Len(token_sets')]
      /\ balances_for_epoch' \in [Epochs -> [Tokens -> Nat]]
      /\ SetsInRange'
      /\ FundsInSets'
  BY <1>1, <1>2, FillKeepsSets
<1>4. token_balances' \in [Tokens -> Nat]
  BY <1>1, PerEpochType DEF DistributorInv
<1>5. TypeOK'
  BY <1>1, <1>3, <1>4 DEF DistributorInv, TypeOK, escrowVars, veVars, claimVars
<1>6. CursorsInStep'
  <2>1. now' \in StartTime..MaxTime /\ now <= now'
    BY <1>1, VeConstants, SMT DEF DistributorInv, TypeOK, escrowVars, veVars
  <2> QED
    BY <1>1, <2>1, CursorsStay DEF claimVars
<1> QED
  BY <1>3, <1>5, <1>6 DEF DistributorInv

(* A new token set. *)
LEMMA AddTokenSetHolds ==
    ASSUME DistributorInv, NEW set \in TokenSets, AddTokenSet(set)
    PROVE  DistributorInv'
<1>1. /\ FillEpochs
      /\ token_balances' = [t \in Tokens |-> NewBalance(t)]
      /\ UNCHANGED <<escrowVars, claimVars, balance, is_killed, arrived, drained>>
  BY DEF AddTokenSet
<1>2. PICK sets : sets = Append(token_sets, set) /\ token_sets' = sets
  BY DEF AddTokenSet
<1>3. /\ sets \in Seq(SUBSET Tokens)
      /\ Len(sets) >= Len(token_sets)
      /\ \A i \in 1..Len(token_sets) : sets[i] = token_sets[i]
  <2>1. token_sets \in Seq(SUBSET Tokens) /\ set \in SUBSET Tokens
    BY DistributorConstants DEF DistributorInv, TypeOK
  <2> QED
    BY <1>2, <2>1, SMT
<1>4. /\ token_sets' \in Seq(SUBSET Tokens)
      /\ initial_set_for_epoch' \in [Epochs -> 0..Len(token_sets')]
      /\ max_set_for_epoch' \in [Epochs -> 0..Len(token_sets')]
      /\ balances_for_epoch' \in [Epochs -> [Tokens -> Nat]]
      /\ SetsInRange'
      /\ FundsInSets'
  BY <1>1, <1>2, <1>3, FillKeepsSets
<1>5. token_balances' \in [Tokens -> Nat]
  BY <1>1, PerEpochType DEF DistributorInv
<1>6. TypeOK'
  BY <1>1, <1>4, <1>5 DEF DistributorInv, TypeOK, escrowVars, veVars, claimVars
<1>7. CursorsInStep'
  <2>1. now' \in StartTime..MaxTime /\ now <= now'
    BY <1>1, VeConstants, SMT DEF DistributorInv, TypeOK, escrowVars, veVars
  <2> QED
    BY <1>1, <2>1, CursorsStay DEF claimVars
<1> QED
  BY <1>4, <1>6, <1>7 DEF DistributorInv

(* A claim, of whoever's votes. *)
LEMMA ClaimHolds ==
    ASSUME DistributorInv, NEW u \in Users, NEW n \in Nat \ {0}, Claim(u, n)
    PROVE  DistributorInv'
<1>0. PICK D : D = DueEpochs(u, n)
  OBVIOUS
<1>1. PICK E \in [Tokens -> SUBSET D], A \in [Tokens -> Nat] : Claims(u, D, E, A)
  BY <1>0, ClaimFacts, Zenon
<1>1a.
      /\ FillEpochs
      /\ token_sets' = token_sets
      /\ UNCHANGED <<escrowVars, is_killed, arrived, drained>>
      /\ balance' = [t \in Tokens |-> balance[t] - A[t]]
      /\ token_balances' = [t \in Tokens |-> AfterTransfer(t, A[t])]
      /\ \A t \in Tokens : A[t] <= balance[t]
      /\ \A t \in Tokens : \A e \in E[t] : Share(u, e, t) \in Nat
  BY <1>1 DEF Claims
<1>2. token_sets \in Seq(SUBSET Tokens) /\ Len(token_sets) >= Len(token_sets)
  BY SMT DEF DistributorInv, TypeOK
<1>3. /\ token_sets' \in Seq(SUBSET Tokens)
      /\ initial_set_for_epoch' \in [Epochs -> 0..Len(token_sets')]
      /\ max_set_for_epoch' \in [Epochs -> 0..Len(token_sets')]
      /\ balances_for_epoch' \in [Epochs -> [Tokens -> Nat]]
      /\ SetsInRange'
      /\ FundsInSets'
  BY <1>1a, <1>2, FillKeepsSets
<1>4. /\ D \subseteq Epochs /\ IsFiniteSet(D)
      /\ \A e \in D : e <= now /\ e > last_claimed_for[u] /\ e >= INITIAL_EPOCH
  BY <1>0, DueEpochsType
<1>5. D \subseteq Nat /\ Epochs \subseteq Nat /\ 0 \in Nat
  BY <1>4, EpochsType, Zenon
<1>6. D # {} => Max(D) \in D /\ \A e \in D : Max(D) >= e
  BY <1>4, <1>5, MaxIsLargest
<1>7. \A t \in Tokens : E[t] # {} => Max(E[t]) \in E[t] /\ E[t] \subseteq D
  <2> SUFFICES ASSUME NEW t \in Tokens, E[t] # {} PROVE Max(E[t]) \in E[t] /\ E[t] \subseteq D
    OBVIOUS
  <2>1. PICK S : S = E[t]
    OBVIOUS
  <2>2. S \subseteq D /\ S \in SUBSET Nat /\ IsFiniteSet(S)
    BY <1>1a, <1>4, <1>5, <2>1, FS_Subset
  <2> QED
    BY <2>1, <2>2, MaxIsLargest
<1>8. PICK m : /\ m = IF D = {} THEN last_claimed_for[u] ELSE Max(D)
               /\ last_claimed_for' = [last_claimed_for EXCEPT ![u] = m]
  BY <1>1 DEF Claims
<1>9. PICK k : /\ k = [t \in Tokens |-> IF E[t] = {} THEN claimed_epoch_for[u][t] ELSE Max(E[t])]
               /\ claimed_epoch_for' = [claimed_epoch_for EXCEPT ![u] = k]
  BY <1>1 DEF Claims
<1>10. PICK p : /\ p = [e \in Epochs |-> [t \in Tokens |->
                           paid[u][e][t] + (IF e \in E[t] THEN Share(u, e, t) ELSE 0)]]
                /\ paid' = [paid EXCEPT ![u] = p]
  BY <1>1 DEF Claims
<1>11. /\ last_claimed_for \in [Users -> Epochs \cup {0}]
       /\ claimed_epoch_for \in [Users -> [Tokens -> Epochs \cup {0}]]
       /\ paid \in [Users -> [Epochs -> [Tokens -> Nat]]]
       /\ balance \in [Tokens -> Nat] /\ token_balances \in [Tokens -> Nat]
  BY DEF DistributorInv, TypeOK
<1>12. m \in Epochs \cup {0}
  BY <1>4, <1>6, <1>8, <1>11, Zenon
<1>13. k \in [Tokens -> Epochs \cup {0}]
  <2>1. ASSUME NEW t \in Tokens
        PROVE  (IF E[t] = {} THEN claimed_epoch_for[u][t] ELSE Max(E[t])) \in Epochs \cup {0}
    <3>1. claimed_epoch_for[u][t] \in Epochs \cup {0}
      BY <1>11
    <3>2. E[t] # {} => Max(E[t]) \in Epochs
      BY <1>4, <1>7
    <3> QED
      BY <3>1, <3>2
  <2> QED
    BY <1>9, <2>1, Zenon
<1>14. p \in [Epochs -> [Tokens -> Nat]]
  <2>1. ASSUME NEW e \in Epochs, NEW t \in Tokens
        PROVE  paid[u][e][t] + (IF e \in E[t] THEN Share(u, e, t) ELSE 0) \in Nat
    <3>1. PICK x \in Nat : x = paid[u][e][t]
      BY <1>11
    <3>2. CASE e \in E[t]
      <4>1. PICK y \in Nat : y = Share(u, e, t)
        BY <1>1a, <3>2
      <4> QED
        BY <3>1, <3>2, <4>1, SMT
    <3>3. CASE e \notin E[t]
      BY <3>1, <3>3, SMT
    <3> QED
      BY <3>2, <3>3
  <2> QED
    BY <1>10, <2>1, Zenon
<1>15. balance' \in [Tokens -> Nat] /\ token_balances' \in [Tokens -> Nat]
  <2>1. ASSUME NEW t \in Tokens
        PROVE  balance[t] - A[t] \in Nat /\ AfterTransfer(t, A[t]) \in Nat
    <3>1. PICK b \in Nat, a \in Nat : b = balance[t] /\ a = A[t] /\ a <= b
      BY <1>1a, <1>11
    <3>2. b - a \in Nat
      BY <3>1, SMT
    <3>3. NewBalance(t) \in Nat
      BY PerEpochType DEF DistributorInv
    <3> QED
      BY <3>1, <3>2, <3>3 DEF AfterTransfer
  <2> QED
    BY <1>1a, <2>1, Zenon
<1>16. TypeOK'
  <2>1. last_claimed_for' \in [Users -> Epochs \cup {0}]
    BY <1>8, <1>11, <1>12
  <2>2. claimed_epoch_for' \in [Users -> [Tokens -> Epochs \cup {0}]]
    BY <1>9, <1>11, <1>13
  <2>3. paid' \in [Users -> [Epochs -> [Tokens -> Nat]]]
    BY <1>10, <1>11, <1>14
  <2>4. UNCHANGED <<now, locked, votes_at, is_killed, arrived, drained>>
    BY <1>1a DEF escrowVars, veVars
  <2> QED
    BY <1>3, <1>15, <2>1, <2>2, <2>3, <2>4 DEF DistributorInv, TypeOK
<1>17. CursorsInStep'
  <2>0. now' = now /\ INITIAL_EPOCH' = INITIAL_EPOCH
    BY <1>1a DEF escrowVars, veVars, INITIAL_EPOCH, NextEpoch, RoundToWeek
  <2>1. ASSUME NEW v \in Users, v # u
        PROVE  last_claimed_for'[v] = last_claimed_for[v] /\ claimed_epoch_for'[v] = claimed_epoch_for[v]
    BY <1>8, <1>9, <1>11, <2>1
  <2>2. last_claimed_for'[u] = m /\ claimed_epoch_for'[u] = k
    BY <1>8, <1>9, <1>11
  <2>3. \A v \in Users :
           /\ last_claimed_for[v] <= now
           /\ last_claimed_for[v] # 0 => last_claimed_for[v] >= INITIAL_EPOCH
           /\ \A t \in Tokens : claimed_epoch_for[v][t] <= last_claimed_for[v]
    BY DEF DistributorInv, CursorsInStep
  <2>4. m <= now /\ (m # 0 => m >= INITIAL_EPOCH)
    BY <1>4, <1>6, <1>8, <2>3
  <2>5. ASSUME NEW t \in Tokens PROVE k[t] <= m
    <3>1. k[t] = IF E[t] = {} THEN claimed_epoch_for[u][t] ELSE Max(E[t])
      BY <1>9
    <3>2. CASE E[t] # {}
      <4>1. Max(E[t]) \in D
        BY <1>7, <3>2
      <4> QED
        BY <1>5, <1>6, <1>8, <3>1, <3>2, <4>1, SMT
    <3>3. CASE E[t] = {} /\ D = {}
      BY <1>8, <2>3, <3>1, <3>3
    <3>4. CASE E[t] = {} /\ D # {}
      <4>1. m \in D /\ m > last_claimed_for[u]
        BY <1>4, <1>6, <1>8, <3>4
      <4>2. claimed_epoch_for[u][t] \in Nat /\ last_claimed_for[u] \in Nat /\ m \in Nat
        <5>1. claimed_epoch_for[u][t] \in Epochs \cup {0} /\ last_claimed_for[u] \in Epochs \cup {0}
          BY <1>11
        <5> QED
          BY <1>5, <4>1, <5>1, Zenon
      <4>3. claimed_epoch_for[u][t] <= last_claimed_for[u]
        BY <2>3
      <4> QED
        BY <3>1, <3>4, <4>1, <4>2, <4>3, SMT
    <3> QED
      BY <3>2, <3>3, <3>4
  <2> QED
    BY <2>0, <2>1, <2>2, <2>3, <2>4, <2>5 DEF CursorsInStep
<1> QED
  BY <1>3, <1>16, <1>17 DEF DistributorInv

(* What leaves sets, funds and cursors alone. *)
LEMMA OthersKeepInv ==
    ASSUME DistributorInv, TypeOK', now <= now', now' \in StartTime..MaxTime,
           UNCHANGED <<setVars, claimVars, balances_for_epoch>>
    PROVE  DistributorInv'
<1>1. CursorsInStep'
  BY CursorsStay DEF claimVars
<1>2. /\ UNCHANGED <<token_sets, initial_set_for_epoch, max_set_for_epoch, balances_for_epoch>>
      /\ INITIAL_EPOCH' = INITIAL_EPOCH /\ Epochs' = Epochs
  BY DEF setVars, INITIAL_EPOCH, NextEpoch, RoundToWeek, Epochs
<1>3. SetsInRange'
  BY <1>2 DEF DistributorInv, SetsInRange
<1>4. FundsInSets'
  BY <1>2 DEF DistributorInv, FundsInSets, SetsOf
<1> QED
  BY <1>1, <1>3, <1>4 DEF DistributorInv

(* The owner recovers a token. *)
LEMMA RecoverTokenHolds ==
    ASSUME DistributorInv, NEW t \in Tokens, RecoverToken(t)
    PROVE  DistributorInv'
<1>1. now' = now /\ now \in StartTime..MaxTime /\ now <= now'
  BY VeConstants, SMT DEF RecoverToken, escrowVars, veVars, DistributorInv, TypeOK
<1>2. balance' \in [Tokens -> Nat]
  <2>1. token_balances[t] \in Nat /\ 0 \in Nat /\ balance \in [Tokens -> Nat]
    BY SMT DEF DistributorInv, TypeOK
  <2> QED
    BY <2>1 DEF RecoverToken
<1>3. drained' \in [Tokens -> BOOLEAN]
  <2>1. PICK b \in BOOLEAN : drained' = [drained EXCEPT ![t] = b]
    <3>1. drained[t] \/ is_killed \in BOOLEAN
      BY DEF DistributorInv, TypeOK
    <3> QED
      BY DEF RecoverToken
  <2> QED
    BY <2>1 DEF DistributorInv, TypeOK
<1>4. TypeOK'
  BY <1>1, <1>2, <1>3
  DEF RecoverToken, DistributorInv, TypeOK, escrowVars, veVars, setVars, claimVars
<1> QED
  BY <1>1, <1>4, OthersKeepInv DEF RecoverToken

(* The kill switch. *)
LEMMA KillToggleHolds ==
    ASSUME DistributorInv, NEW killed \in BOOLEAN, KillToggle(killed)
    PROVE  DistributorInv'
<1>1. now' = now /\ now \in StartTime..MaxTime /\ now <= now'
  BY VeConstants, SMT DEF KillToggle, escrowVars, veVars, DistributorInv, TypeOK
<1>2. TypeOK'
  BY <1>1 DEF KillToggle, DistributorInv, TypeOK, escrowVars, veVars, setVars, claimVars
<1> QED
  BY <1>1, <1>2, OthersKeepInv DEF KillToggle

(* Tokens arrive. *)
LEMMA ArriveHolds ==
    ASSUME DistributorInv, NEW t \in Tokens, NEW amount \in Arrivals, Arrive(t, amount)
    PROVE  DistributorInv'
<1>1. now' = now /\ now \in StartTime..MaxTime /\ now <= now'
  BY VeConstants, SMT DEF Arrive, escrowVars, veVars, DistributorInv, TypeOK
<1>2. balance' \in [Tokens -> Nat] /\ arrived' \in [Tokens -> Nat]
  <2>1. /\ balance \in [Tokens -> Nat] /\ arrived \in [Tokens -> Nat]
        /\ balance[t] \in Nat /\ arrived[t] \in Nat /\ amount \in Nat
    BY DistributorConstants DEF DistributorInv, TypeOK
  <2>2. balance[t] + amount \in Nat /\ arrived[t] + amount \in Nat
    BY <2>1, SMT
  <2> QED
    BY <2>1, <2>2 DEF Arrive
<1>3. TypeOK'
  BY <1>1, <1>2 DEF Arrive, DistributorInv, TypeOK, escrowVars, veVars, setVars, claimVars
<1> QED
  BY <1>1, <1>3, OthersKeepInv DEF Arrive

(* The VotingEscrow goes on. *)
LEMMA EscrowStepFacts ==
    ASSUME TypeOK, EscrowStep
    PROVE  /\ locked' \in [Users -> Lock]
           /\ now' \in StartTime..MaxTime
           /\ now <= now'
           /\ votes_at' \in [Epochs -> [Users -> Nat]]
           /\ \A e \in Epochs : e # now' => votes_at'[e] = votes_at[e]
<1>1. now \in StartTime..MaxTime /\ locked \in [Users -> Lock]
  BY DEF TypeOK
<1>2. /\ locked' \in [Users -> Lock]
      /\ votes' \in [Users -> Nat]
      /\ now' \in StartTime..MaxTime
      /\ now <= now'
  BY <1>1, VeNextType DEF EscrowStep
<1>3. votes_at \in [Epochs -> [Users -> Nat]]
  BY DEF TypeOK
<1>4. votes_at' = [e \in Epochs |-> IF e = now' THEN votes' ELSE votes_at[e]]
  BY DEF EscrowStep
<1>5. votes_at' \in [Epochs -> [Users -> Nat]]
  BY <1>2, <1>3, <1>4
<1> QED
  BY <1>2, <1>4, <1>5

(* Operations on locks leave the distributor's records alone. *)
LEMMA EscrowStepHolds ==
    ASSUME DistributorInv, EscrowStep
    PROVE  DistributorInv'
<1>1. /\ locked' \in [Users -> Lock]
      /\ now' \in StartTime..MaxTime
      /\ now <= now'
      /\ votes_at' \in [Epochs -> [Users -> Nat]]
  BY EscrowStepFacts DEF DistributorInv
<1>2. TypeOK'
  BY <1>1 DEF EscrowStep, DistributorInv, TypeOK, setVars, claimVars
<1> QED
  BY <1>1, <1>2, OthersKeepInv DEF EscrowStep

(* The contract starts with one set, and nothing in it. *)
LEMMA DistributorInitHolds == Init => DistributorInv
<1> SUFFICES ASSUME Init PROVE DistributorInv
  OBVIOUS
<1>0. 0 \in Nat /\ 0..1 \subseteq Nat /\ 0 \in 0..1
  BY SMT
<1>1. now \in StartTime..MaxTime /\ now \in Nat /\ 0 <= now
  BY VeAssumption, VeConstants, SMT DEF Init, VeInit
<1>2. locked \in [Users -> Lock]
  <2>1. NoLock \in Lock
    BY VeConstants, SMT DEF NoLock, Lock, Times
  <2> QED
    BY <2>1 DEF Init, VeInit
<1>3. token_sets \in Seq(SUBSET Tokens) /\ Len(token_sets) = 1
  BY DistributorConstants DEF Init
<1>4. TypeOK
  <2>1. /\ votes_at \in [Epochs -> [Users -> Nat]]
        /\ last_claimed_for \in [Users -> Epochs \cup {0}]
        /\ claimed_epoch_for \in [Users -> [Tokens -> Epochs \cup {0}]]
        /\ balances_for_epoch \in [Epochs -> [Tokens -> Nat]]
        /\ token_balances \in [Tokens -> Nat]
        /\ balance \in [Tokens -> Nat]
        /\ arrived \in [Tokens -> Nat]
        /\ paid \in [Users -> [Epochs -> [Tokens -> Nat]]]
        /\ is_killed \in BOOLEAN
        /\ drained \in [Tokens -> BOOLEAN]
    BY <1>0 DEF Init
  <2>2. /\ initial_set_for_epoch \in [Epochs -> 0..Len(token_sets)]
        /\ max_set_for_epoch \in [Epochs -> 0..Len(token_sets)]
    BY <1>0, <1>3 DEF Init
  <2> QED
    BY <1>1, <1>2, <1>3, <2>1, <2>2 DEF TypeOK
<1>5. SetsInRange
  <2>1. \A e \in Epochs : initial_set_for_epoch[e] = 0 /\ max_set_for_epoch[e] = 0
    BY DEF Init
  <2> QED
    BY <1>3, <2>1, SMT DEF SetsInRange
<1>6. FundsInSets
  <2>1. \A e \in Epochs, t \in Tokens : balances_for_epoch[e][t] = 0
    BY DEF Init
  <2> QED
    BY <2>1, SMT DEF FundsInSets
<1>7. CursorsInStep
  <2>1. \A u \in Users : /\ last_claimed_for[u] = 0
                         /\ \A t \in Tokens : claimed_epoch_for[u][t] = 0
    BY DEF Init
  <2>2. 0 <= 0
    BY SMT
  <2>3. ASSUME NEW u \in Users
        PROVE  /\ last_claimed_for[u] <= now
               /\ last_claimed_for[u] # 0 => last_claimed_for[u] >= INITIAL_EPOCH
               /\ \A t \in Tokens : claimed_epoch_for[u][t] <= last_claimed_for[u]
    BY <1>1, <2>1, <2>2, Zenon
  <2> QED
    BY <2>3 DEF CursorsInStep
<1> QED
  BY <1>4, <1>5, <1>6, <1>7 DEF DistributorInv

(* Whose claim it is does not matter: it is some user's. *)
LEMMA ClaimIsSomeones ==
    ASSUME NEW receiver \in Users, NEW n \in EpochCounts, ExecuteClaim(receiver, n)
    PROVE  n \in Nat \ {0} /\ \E u \in Users : Claim(u, n)
<1>1. Owners(receiver) \subseteq Users
  BY DistributorConstants DEF Owners
<1> QED
  BY <1>1, DistributorConstants DEF ExecuteClaim

(* One step, or none. *)
LEMMA DistributorNextHolds == DistributorInv /\ [Next]_vars => DistributorInv'
<1> SUFFICES ASSUME DistributorInv, [Next]_vars PROVE DistributorInv'
  OBVIOUS
<1>1. CASE EscrowStep
  BY <1>1, EscrowStepHolds
<1>2. CASE FillEpochsCall
  BY <1>2, FillCallHolds
<1>3. CASE \E set \in TokenSets : AddTokenSet(set)
  BY <1>3, AddTokenSetHolds
<1>4. CASE \E u \in Users, n \in EpochCounts : ExecuteClaim(u, n)
  BY <1>4, ClaimIsSomeones, ClaimHolds
<1>5. CASE \E t \in Tokens : RecoverToken(t) \/ \E a \in Arrivals : Arrive(t, a)
  BY <1>5, RecoverTokenHolds, ArriveHolds
<1>6. CASE \E k \in BOOLEAN : KillToggle(k)
  BY <1>6, KillToggleHolds
<1>7. CASE UNCHANGED vars
  <2>1. now' = now /\ now \in StartTime..MaxTime /\ now <= now'
    BY <1>7, VeConstants, SMT DEF vars, escrowVars, veVars, DistributorInv, TypeOK
  <2>2. TypeOK'
    BY <1>7 DEF vars, DistributorInv, TypeOK, escrowVars, veVars, setVars, claimVars
  <2> QED
    BY <1>7, <2>1, <2>2, OthersKeepInv DEF vars
<1> QED
  BY <1>1, <1>2, <1>3, <1>4, <1>5, <1>6, <1>7 DEF Next

(* The induction hypothesis holds always. *)
LEMMA DistributorAlwaysHolds == Spec => []DistributorInv
  BY DistributorInitHolds, DistributorNextHolds, PTL DEF Spec

(* Nothing underflows: no claim pays more than there is, and the records of
   sets stay within the sets there are. *)
THEOREM DistributorTypeCorrect == Spec => []TypeOK
<1>1. DistributorInv => TypeOK
  BY DEF DistributorInv
<1> QED
  BY <1>1, DistributorAlwaysHolds, PTL

(* What is put into an epoch is put there before it begins, as are the sets
   it is claimed in, whoever calls what. *)
THEOREM EpochsStaySettled == Spec => EpochsAreSettled
<1> DEFINE Settled ==
        \A e \in Epochs : e <= now =>
            /\ balances_for_epoch'[e] = balances_for_epoch[e]
            /\ initial_set_for_epoch'[e] = initial_set_for_epoch[e]
            /\ max_set_for_epoch'[e] = max_set_for_epoch[e]
<1>1. DistributorInv /\ [Next]_vars => [Settled]_vars
  <2> SUFFICES ASSUME DistributorInv, Next PROVE Settled
    BY Zenon
  <2>1. CASE FillEpochs
    BY <2>1, FillHolds
  <2>2. CASE UNCHANGED <<setVars, balances_for_epoch>>
    BY <2>2 DEF setVars
  <2>3. FillEpochs \/ UNCHANGED <<setVars, balances_for_epoch>>
    <3>1. CASE EscrowStep
      BY <3>1 DEF EscrowStep
    <3>2. CASE FillEpochsCall
      BY <3>2 DEF FillEpochsCall
    <3>3. CASE \E set \in TokenSets : AddTokenSet(set)
      BY <3>3 DEF AddTokenSet
    <3>4. CASE \E u \in Users, n \in EpochCounts : ExecuteClaim(u, n)
      <4>1. PICK u \in Users, n \in Nat : Claim(u, n)
        BY <3>4, ClaimIsSomeones
      <4> QED
        BY <4>1 DEF Claim
    <3>5. CASE \E t \in Tokens : RecoverToken(t) \/ \E a \in Arrivals : Arrive(t, a)
      BY <3>5 DEF RecoverToken, Arrive
    <3>6. CASE \E k \in BOOLEAN : KillToggle(k)
      BY <3>6 DEF KillToggle
    <3> QED
      BY <3>1, <3>2, <3>3, <3>4, <3>5, <3>6 DEF Next
  <2> QED
    BY <2>1, <2>2, <2>3
<1>2. EpochsAreSettled <=> [][Settled]_vars
  BY DEF EpochsAreSettled
<1> HIDE DEF Settled
<1> QED
  BY <1>1, <1>2, DistributorAlwaysHolds, PTL DEF Spec

-----------------------------------------------------------------------------
(***************************************************************************)
(* FeeDistributor: shares and what is left of them                         *)
(***************************************************************************)
\* No epoch is claimed while votes at its beginning can still change.
ClaimsPast == \A u \in Users : last_claimed_for[u] # 0 => last_claimed_for[u] < now

\* What somebody has claimed is an epoch that somebody had votes in.
ClaimedHadVotes ==
    \A u \in Users, e \in Epochs, t \in Tokens :
        e <= last_claimed_for[u] /\ balances_for_epoch[e][t] > 0 => getPastTotalSupply(e) > 0

ShareInv ==
    /\ DistributorInv
    /\ ClaimsPast
    /\ ClaimedHadVotes
    /\ PaidIsShare

\* What an epoch has paid of a token, to everybody.
PaidOf(e, t) == Total([u \in Users |-> paid[u][e][t]])

(* No epoch pays out more than it got. *)
LEMMA PaidWithinFunds ==
    ASSUME TypeOK, PaidIsShare, ClaimedHadVotes, NEW e \in Epochs, NEW t \in Tokens
    PROVE  PaidOf(e, t) \in Nat /\ PaidOf(e, t) <= balances_for_epoch[e][t]
<1>1. PICK b \in Nat : b = balances_for_epoch[e][t]
  BY DEF TypeOK
<1>2. PICK f : f = [u \in Users |-> paid[u][e][t]]
  OBVIOUS
<1>3. f \in [Users -> Nat] /\ IsFiniteSet(Users)
  BY <1>2, DistributorConstants DEF TypeOK
<1>4. PaidOf(e, t) = Total(f) /\ Total(f) \in Nat
  BY <1>2, <1>3, TotalType DEF PaidOf
<1>5. \A u \in Users : f[u] = IF e <= last_claimed_for[u] /\ b > 0 THEN Share(u, e, t) ELSE 0
  BY <1>1, <1>2 DEF PaidIsShare
<1>6. CASE b = 0 \/ ~(getPastTotalSupply(e) > 0)
  <2>1. \A u \in Users : ~(e <= last_claimed_for[u] /\ b > 0)
    <3>1. b = 0 => ~(b > 0)
      BY SMT
    <3> QED
      BY <1>1, <1>6, <3>1 DEF ClaimedHadVotes
  <2>2. \A u \in Users : f[u] = 0
    BY <1>5, <2>1
  <2>3. Total(f) = 0
    BY <1>3, <2>2, TotalZero
  <2> QED
    BY <1>1, <1>4, <2>3, SMT
<1>7. CASE getPastTotalSupply(e) > 0
  <2>1. PICK v \in [Users -> Nat] : v = votes_at[e]
    BY DEF TypeOK
  <2>2. getPastTotalSupply(e) = Total(v) /\ Total(v) > 0
    BY <1>7, <2>1 DEF getPastTotalSupply
  <2>3. PICK g : g = [u \in Users |-> (b * v[u]) \div Total(v)]
    OBVIOUS
  <2>4. g \in [Users -> Nat] /\ Total(g) <= b
    <3>1. /\ \A u \in Users : (b * v[u]) \div Total(v) \in Nat
          /\ Total([u \in Users |-> (b * v[u]) \div Total(v)]) <= b
      BY <1>3, <2>2, SharesWithin
    <3> QED
      BY <2>3, <3>1
  <2>5. \A u \in Users : Share(u, e, t) = g[u]
    BY <1>1, <2>1, <2>2, <2>3 DEF Share
  <2>6. \A u \in Users : f[u] <= g[u]
    <3> SUFFICES ASSUME NEW u \in Users PROVE f[u] <= g[u]
      OBVIOUS
    <3>1. g[u] \in Nat /\ (f[u] = g[u] \/ f[u] = 0)
      BY <1>5, <2>4, <2>5
    <3> QED
      BY <3>1, SMT
  <2>7. Total(f) <= Total(g) /\ Total(g) \in Nat
    BY <1>3, <2>4, <2>6, TotalMonotone, TotalType
  <2> QED
    BY <1>1, <1>4, <2>4, <2>7, SMT
<1> QED
  BY <1>6, <1>7

(* What is left of the epochs is a sum of numbers. *)
LEMMA UnclaimedType ==
    ASSUME TypeOK, PaidIsShare, ClaimedHadVotes, NEW t \in Tokens
    PROVE  /\ [e \in Epochs |-> balances_for_epoch[e][t] - PaidOf(e, t)] \in [Epochs -> Nat]
           /\ Unclaimed(t) = Total([e \in Epochs |-> balances_for_epoch[e][t] - PaidOf(e, t)])
           /\ Unclaimed(t) \in Nat
<1>1. \A e \in Epochs : balances_for_epoch[e][t] - PaidOf(e, t) \in Nat
  <2> SUFFICES ASSUME NEW e \in Epochs PROVE balances_for_epoch[e][t] - PaidOf(e, t) \in Nat
    OBVIOUS
  <2>1. balances_for_epoch[e][t] \in Nat
    BY DEF TypeOK
  <2>2. PaidOf(e, t) \in Nat /\ PaidOf(e, t) <= balances_for_epoch[e][t]
    BY PaidWithinFunds
  <2> QED
    BY <2>1, <2>2, SMT
<1>2. Unclaimed(t) = Total([e \in Epochs |-> balances_for_epoch[e][t] - PaidOf(e, t)])
  BY DEF Unclaimed, PaidOf
<1>3. PICK r : r = [e \in Epochs |-> balances_for_epoch[e][t] - PaidOf(e, t)]
  OBVIOUS
<1>4. r \in [Epochs -> Nat]
  BY <1>1, <1>3
<1>5. Total(r) \in Nat
  BY <1>4, EpochsType, TotalType
<1> QED
  BY <1>2, <1>3, <1>4, <1>5

(* What comes in and what goes out of sums. *)
LEMMA InAndOut ==
    ASSUME NEW S, IsFiniteSet(S), NEW r \in [S -> Nat], NEW q \in [S -> Nat],
           NEW s \in [S -> Nat], NEW F \in SUBSET S, NEW p \in Nat,
           \A e \in F : q[e] + s[e] = r[e] + p,
           \A e \in S \ F : q[e] + s[e] = r[e]
    PROVE  Total(q) + Total(s) = Total(r) + p * Cardinality(F)
<1>1. PICK c : c = [e \in S |-> IF e \in F THEN p ELSE 0]
  OBVIOUS
<1>2. c \in [S -> Nat] /\ \A e \in S : c[e] = IF e \in F THEN p ELSE 0
  BY <1>1
<1>3. Total(c) = p * Cardinality(F)
  BY <1>1, TotalOfEqual
<1>4. PICK h : h = [e \in S |-> q[e] + s[e]]
  OBVIOUS
<1>5. /\ h \in [S -> Nat]
      /\ \A e \in S : h[e] = q[e] + s[e]
      /\ \A e \in S : h[e] = r[e] + c[e]
  <2>1. \A e \in S : q[e] + s[e] \in Nat
    <3> SUFFICES ASSUME NEW e \in S PROVE q[e] + s[e] \in Nat
      OBVIOUS
    <3>1. q[e] \in Nat /\ s[e] \in Nat
      OBVIOUS
    <3> QED
      BY <3>1, SMT
  <2>2. ASSUME NEW e \in S PROVE h[e] = r[e] + c[e]
    <3>1. h[e] = q[e] + s[e] /\ r[e] \in Nat
      BY <1>4
    <3>2. CASE e \in F
      BY <1>2, <3>1, <3>2
    <3>3. CASE e \notin F
      <4>1. h[e] = r[e] /\ c[e] = 0
        BY <1>2, <3>1, <3>3
      <4> QED
        BY <3>1, <4>1, SMT
    <3> QED
      BY <3>2, <3>3
  <2> QED
    BY <1>4, <2>1, <2>2
<1>6. Total(h) = Total(q) + Total(s)
  BY <1>5, TotalPlus
<1>7. Total(h) = Total(r) + Total(c)
  BY <1>2, <1>5, TotalPlus
<1> QED
  BY <1>3, <1>6, <1>7

(* Filling adds no more to what is left than what is newly counted, and what
   is paid in the same step, s by epoch, comes off it. *)
LEMMA FillAndPay ==
    ASSUME TypeOK, PaidIsShare, ClaimedHadVotes,
           TypeOK', PaidIsShare', ClaimedHadVotes',
           FillEpochs, NEW t \in Tokens, NEW s \in [Epochs -> Nat],
           \A e \in Epochs : PaidOf(e, t)' = PaidOf(e, t) + s[e]
    PROVE  /\ Unclaimed(t) \in Nat /\ Unclaimed(t)' \in Nat /\ Total(s) \in Nat
           /\ Unclaimed(t)' + Total(s) <= Unclaimed(t) + (NewBalance(t) - token_balances[t])
<1>1. PICK r : r = [e \in Epochs |-> balances_for_epoch[e][t] - PaidOf(e, t)]
  OBVIOUS
<1>2. PICK q : q = [e \in Epochs |-> balances_for_epoch'[e][t] - PaidOf(e, t)']
  OBVIOUS
<1>3. r \in [Epochs -> Nat] /\ Unclaimed(t) = Total(r) /\ Unclaimed(t) \in Nat
  BY <1>1, UnclaimedType
<1>4. q \in [Epochs -> Nat] /\ Unclaimed(t)' = Total(q) /\ Unclaimed(t)' \in Nat
  <2>1. /\ ([e \in Epochs |-> balances_for_epoch[e][t] - PaidOf(e, t)] \in [Epochs -> Nat])'
        /\ (Unclaimed(t) = Total([e \in Epochs |-> balances_for_epoch[e][t] - PaidOf(e, t)]))'
        /\ (Unclaimed(t) \in Nat)'
    BY UnclaimedType, PTL
  <2> QED
    BY <1>2, <2>1
<1>5. PICK p \in Nat : p = PerEpoch(t)
  BY PerEpochType
<1>6. PICK F \in SUBSET Epochs : F = FilledEpochs
  BY FilledEpochsType DEF TypeOK
<1>7. ASSUME NEW e \in Epochs
      PROVE  /\ e \in F => q[e] + s[e] = r[e] + p
             /\ e \notin F => q[e] + s[e] = r[e]
  <2>1. PICK b \in Nat, b2 \in Nat, o \in Nat, o2 \in Nat :
            /\ b = balances_for_epoch[e][t] /\ b2 = balances_for_epoch'[e][t]
            /\ o = PaidOf(e, t) /\ o2 = PaidOf(e, t)'
    <3>1. balances_for_epoch[e][t] \in Nat /\ balances_for_epoch'[e][t] \in Nat
      BY DEF TypeOK
    <3>2. PaidOf(e, t) \in Nat
      BY PaidWithinFunds
    <3>3. PaidOf(e, t)' \in Nat
      <4>1. s[e] \in Nat
        OBVIOUS
      <4> QED
        BY <3>2, <4>1, SMT
    <3> QED
      BY <3>1, <3>2, <3>3
  <2>2. b2 = b + (IF e \in F THEN p ELSE 0)
    BY <1>5, <1>6, <2>1 DEF FillEpochs
  <2>3. o2 = o + s[e] /\ s[e] \in Nat
    BY <2>1
  <2>4. r[e] = b - o /\ q[e] = b2 - o2
    BY <1>1, <1>2, <2>1
  <2>5. CASE e \in F
    BY <2>2, <2>3, <2>4, <2>5, SMT
  <2>6. CASE e \notin F
    BY <2>2, <2>3, <2>4, <2>6, SMT
  <2> QED
    BY <2>5, <2>6
<1>8. Total(q) + Total(s) = Total(r) + p * Cardinality(F)
  <2>1. IsFiniteSet(Epochs)
    BY EpochsType
  <2>2. /\ \A e \in F : q[e] + s[e] = r[e] + p
        /\ \A e \in Epochs \ F : q[e] + s[e] = r[e]
    BY <1>7
  <2> QED
    BY <1>3, <1>4, <1>5, <1>6, <2>1, <2>2, InAndOut
<1>9. p * Cardinality(F) <= NewBalance(t) - token_balances[t]
  <2>1. PICK c \in Nat : c = Cardinality(F) /\ c <= OVER_WEEKS
    BY <1>6, FilledEpochsType DEF TypeOK
  <2>2. p * c <= p * OVER_WEEKS /\ p * c \in Nat /\ p * OVER_WEEKS \in Nat
    BY <2>1, DistributorConstants, ProductMonotone
  <2>3. p * OVER_WEEKS <= NewBalance(t) - token_balances[t]
    BY <1>5, PerEpochType
  <2>4. NewBalance(t) - token_balances[t] \in Int
    BY PerEpochType, SMT
  <2> QED
    BY <2>1, <2>2, <2>3, <2>4, SMT
<1>10. Total(s) \in Nat
  BY EpochsType, TotalType
<1>11. p * Cardinality(F) \in Nat /\ NewBalance(t) - token_balances[t] \in Int
  <2>1. Cardinality(F) \in Nat
    BY <1>6, FilledEpochsType DEF TypeOK
  <2>2. NewBalance(t) - token_balances[t] \in Int
    BY PerEpochType, SMT
  <2>3. p * Cardinality(F) \in Nat
    BY <2>1, SMT
  <2> QED
    BY <2>2, <2>3
<1>12. Total(q) + Total(s) <= Total(r) + (NewBalance(t) - token_balances[t])
  BY <1>3, <1>8, <1>9, <1>11, SMT
<1> QED
  BY <1>3, <1>4, <1>10, <1>12

(* A filling keeps what has been claimed as it was. *)
LEMMA FillKeepsShares ==
    ASSUME ShareInv, FillEpochs, balances_for_epoch' \in [Epochs -> [Tokens -> Nat]],
           UNCHANGED <<escrowVars, claimVars>>
    PROVE  ClaimsPast' /\ ClaimedHadVotes' /\ PaidIsShare'
<1>1. UNCHANGED <<now, votes_at, last_claimed_for, paid>>
  BY DEF escrowVars, veVars, claimVars
<1>2. ClaimsPast'
  BY <1>1 DEF ShareInv, ClaimsPast
<1>3. \A e \in Epochs : e <= now => balances_for_epoch'[e] = balances_for_epoch[e]
  BY FillHolds DEF ShareInv
<1>4. \A u \in Users, e \in Epochs : e <= last_claimed_for[u] => e <= now
  <2> SUFFICES ASSUME NEW u \in Users, NEW e \in Epochs, e <= last_claimed_for[u]
               PROVE  e <= now
    OBVIOUS
  <2>1. e \in Nat /\ now \in Nat /\ last_claimed_for[u] \in Nat
    <3>1. /\ last_claimed_for[u] \in Epochs \cup {0} /\ Epochs \subseteq Nat
          /\ now \in StartTime..MaxTime
      BY EpochsType DEF ShareInv, DistributorInv, TypeOK
    <3>2. 0 \in Nat
      BY SMT
    <3>3. last_claimed_for[u] \in Nat
      BY <3>1, <3>2, Zenon
    <3> QED
      BY <3>1, <3>3, VeConstants, SMT
  <2>2. last_claimed_for[u] <= now
    BY DEF ShareInv, DistributorInv, CursorsInStep
  <2> QED
    BY <2>1, <2>2, SMT
<1>5. \A u \in Users, e \in Epochs : e <= last_claimed_for[u] =>
          balances_for_epoch'[e] = balances_for_epoch[e]
  BY <1>3, <1>4
<1>6. \A e \in Epochs : getPastTotalSupply(e)' = getPastTotalSupply(e)
  BY <1>1 DEF getPastTotalSupply
<1>7. \A u \in Users, e \in Epochs, t \in Tokens : e <= last_claimed_for[u] =>
          Share(u, e, t)' = Share(u, e, t)
  BY <1>1, <1>5, <1>6 DEF Share
<1>8. ClaimedHadVotes'
  <2>1. \A u \in Users, e \in Epochs, t \in Tokens :
            e <= last_claimed_for[u] /\ balances_for_epoch'[e][t] > 0 => getPastTotalSupply(e) > 0
    BY <1>5 DEF ShareInv, ClaimedHadVotes
  <2> QED
    BY <1>1, <1>6, <2>1 DEF ClaimedHadVotes
<1>9. PaidIsShare'
  <2>1. \A u \in Users, e \in Epochs, t \in Tokens :
            paid[u][e][t] = IF e <= last_claimed_for[u] /\ balances_for_epoch'[e][t] > 0
                            THEN Share(u, e, t)' ELSE 0
    <3> SUFFICES ASSUME NEW u \in Users, NEW e \in Epochs, NEW t \in Tokens
                 PROVE  paid[u][e][t] = IF e <= last_claimed_for[u] /\ balances_for_epoch'[e][t] > 0
                                        THEN Share(u, e, t)' ELSE 0
      OBVIOUS
    <3>1. paid[u][e][t] = IF e <= last_claimed_for[u] /\ balances_for_epoch[e][t] > 0
                          THEN Share(u, e, t) ELSE 0
      BY DEF ShareInv, PaidIsShare
    <3> QED
      BY <1>5, <1>7, <3>1
  <2> QED
    BY <1>1, <2>1 DEF PaidIsShare
<1> QED
  BY <1>2, <1>8, <1>9

(* Votes change for epochs that nobody has claimed. *)
LEMMA EscrowKeepsShares ==
    ASSUME ShareInv, EscrowStep
    PROVE  ClaimsPast' /\ ClaimedHadVotes' /\ PaidIsShare'
<1>1. UNCHANGED <<balances_for_epoch, last_claimed_for, paid>>
  BY DEF EscrowStep, claimVars
<1>2. /\ now' \in StartTime..MaxTime /\ now <= now'
      /\ \A e \in Epochs : e # now' => votes_at'[e] = votes_at[e]
  BY EscrowStepFacts DEF ShareInv, DistributorInv
<1>3. now \in Nat /\ now' \in Nat
  BY <1>2, VeConstants, SMT DEF ShareInv, DistributorInv, TypeOK
<1>4. ASSUME NEW u \in Users PROVE last_claimed_for[u] \in Nat
  <2>1. last_claimed_for[u] \in Epochs \cup {0} /\ Epochs \subseteq Nat
    BY EpochsType DEF ShareInv, DistributorInv, TypeOK
  <2>2. 0 \in Nat
    BY SMT
  <2> QED
    BY <2>1, <2>2, Zenon
<1>5. ASSUME NEW u \in Users, last_claimed_for[u] # 0 PROVE last_claimed_for[u] < now'
  <2>1. last_claimed_for[u] < now
    BY <1>5 DEF ShareInv, ClaimsPast
  <2> QED
    BY <1>2, <1>3, <1>4, <2>1, SMT
<1>6. ClaimsPast'
  BY <1>1, <1>5 DEF ClaimsPast
<1>7. ASSUME NEW u \in Users, NEW e \in Epochs, NEW t \in Tokens,
             e <= last_claimed_for[u], balances_for_epoch[e][t] > 0
      PROVE  votes_at'[e] = votes_at[e]
  <2>1. e \in Nat
    BY EpochsType
  <2>2. e >= INITIAL_EPOCH
    BY <1>7 DEF ShareInv, DistributorInv, FundsInSets
  <2>3. INITIAL_EPOCH \in Nat /\ INITIAL_EPOCH > StartTime /\ StartTime \in Nat
    BY NextEpochType, VeConstants DEF INITIAL_EPOCH
  <2>4. last_claimed_for[u] # 0
    BY <1>4, <1>7, <2>1, <2>2, <2>3, SMT
  <2>5. e # now'
    BY <1>3, <1>4, <1>5, <1>7, <2>1, <2>4, SMT
  <2> QED
    BY <1>2, <2>5
<1>8. ASSUME NEW u \in Users, NEW e \in Epochs, NEW t \in Tokens,
             e <= last_claimed_for[u], balances_for_epoch[e][t] > 0
      PROVE  getPastTotalSupply(e)' = getPastTotalSupply(e) /\ Share(u, e, t)' = Share(u, e, t)
  BY <1>1, <1>7, <1>8 DEF getPastTotalSupply, Share
<1>9. ClaimedHadVotes'
  <2>1. \A u \in Users, e \in Epochs, t \in Tokens :
            e <= last_claimed_for[u] /\ balances_for_epoch[e][t] > 0 => getPastTotalSupply(e)' > 0
    BY <1>8 DEF ShareInv, ClaimedHadVotes
  <2> QED
    BY <1>1, <2>1 DEF ClaimedHadVotes
<1>10. PaidIsShare'
  <2>1. \A u \in Users, e \in Epochs, t \in Tokens :
            paid[u][e][t] = IF e <= last_claimed_for[u] /\ balances_for_epoch[e][t] > 0
                            THEN Share(u, e, t)' ELSE 0
    <3> SUFFICES ASSUME NEW u \in Users, NEW e \in Epochs, NEW t \in Tokens
                 PROVE  paid[u][e][t] = IF e <= last_claimed_for[u] /\ balances_for_epoch[e][t] > 0
                                        THEN Share(u, e, t)' ELSE 0
      OBVIOUS
    <3>1. paid[u][e][t] = IF e <= last_claimed_for[u] /\ balances_for_epoch[e][t] > 0
                          THEN Share(u, e, t) ELSE 0
      BY DEF ShareInv, PaidIsShare
    <3> QED
      BY <1>8, <3>1
  <2> QED
    BY <1>1, <2>1 DEF PaidIsShare
<1> QED
  BY <1>6, <1>9, <1>10

(* A claim pays the user the shares of the epochs it is about, which have
   begun and will not change. *)
LEMMA ClaimKeepsShares ==
    ASSUME ShareInv, DistributorInv', NEW u \in Users, NEW n \in Nat \ {0},
           now # RoundToWeek(now),
           NEW D, D = DueEpochs(u, n),
           NEW E \in [Tokens -> SUBSET D], NEW A \in [Tokens -> Nat], Claims(u, D, E, A)
    PROVE  ClaimsPast' /\ ClaimedHadVotes' /\ PaidIsShare'
<1>1. /\ DistributorInv
      /\ \A v \in Users : last_claimed_for[v] # 0 => last_claimed_for[v] < now
      /\ \A v \in Users, e \in Epochs, t \in Tokens :
            e <= last_claimed_for[v] /\ balances_for_epoch[e][t] > 0 => getPastTotalSupply(e) > 0
      /\ \A v \in Users, e \in Epochs, t \in Tokens :
            paid[v][e][t] = IF e <= last_claimed_for[v] /\ balances_for_epoch[e][t] > 0
                            THEN Share(v, e, t) ELSE 0
  BY DEF ShareInv, ClaimsPast, ClaimedHadVotes, PaidIsShare
<1>2. /\ FillEpochs
      /\ \A t \in Tokens : \A e \in D :
            e \in E[t] <=> t \in TokensOf(e) /\ claimed_epoch_for[u][t] < e
      /\ \A t \in Tokens : \A e \in E[t] : getPastTotalSupply(e) > 0
      /\ UNCHANGED <<now, votes_at, token_sets>>
  BY DEF Claims, escrowVars, veVars
<1>3. /\ last_claimed_for \in [Users -> Epochs \cup {0}]
      /\ claimed_epoch_for \in [Users -> [Tokens -> Epochs \cup {0}]]
      /\ paid \in [Users -> [Epochs -> [Tokens -> Nat]]]
      /\ balances_for_epoch \in [Epochs -> [Tokens -> Nat]]
      /\ now \in StartTime..MaxTime
  BY <1>1 DEF DistributorInv, TypeOK
<1>4. now \in Nat /\ Epochs \subseteq Nat
  BY <1>3, EpochsType, VeConstants, SMT
<1>5. \A v \in Users : last_claimed_for[v] \in Nat
  <2>1. 0 \in Nat
    BY SMT
  <2> QED
    BY <1>3, <1>4, <2>1, Zenon
<1>6. /\ D \subseteq Epochs /\ IsFiniteSet(D)
      /\ \A e \in D : e <= now /\ e > last_claimed_for[u] /\ e >= INITIAL_EPOCH
      /\ \A e \in D, f \in Epochs :
            f <= e /\ f > last_claimed_for[u] /\ f >= INITIAL_EPOCH => f \in D
  BY <1>1, DueEpochsType
<1>7. \A e \in D : e < now
  <2> SUFFICES ASSUME NEW e \in D PROVE e < now
    OBVIOUS
  <2>1. e \in Nat /\ RoundToWeek(e) = e /\ e <= now
    BY <1>4, <1>6, EpochsType
  <2>2. e # now
    BY <2>1
  <2> QED
    BY <1>4, <2>1, <2>2, SMT
<1>8. D # {} => Max(D) \in D /\ \A e \in D : Max(D) >= e
  <2>1. D \in SUBSET Nat
    BY <1>4, <1>6, Zenon
  <2> QED
    BY <1>6, <2>1, MaxIsLargest
<1>9. PICK m : /\ m = IF D = {} THEN last_claimed_for[u] ELSE Max(D)
               /\ last_claimed_for' = [last_claimed_for EXCEPT ![u] = m]
  BY DEF Claims
<1>10. PICK p : /\ p = [e \in Epochs |-> [t \in Tokens |->
                           paid[u][e][t] + (IF e \in E[t] THEN Share(u, e, t) ELSE 0)]]
                /\ paid' = [paid EXCEPT ![u] = p]
  BY DEF Claims
<1>11. /\ last_claimed_for'[u] = m /\ paid'[u] = p
       /\ \A v \in Users \ {u} : last_claimed_for'[v] = last_claimed_for[v] /\ paid'[v] = paid[v]
  BY <1>3, <1>9, <1>10
<1>12. /\ m \in Nat /\ m <= now /\ last_claimed_for[u] <= m
       /\ m # 0 => m < now
  <2>1. CASE D = {}
    <3>1. m = last_claimed_for[u] /\ last_claimed_for[u] <= now
      BY <1>1, <1>9, <2>1 DEF DistributorInv, CursorsInStep
    <3> QED
      BY <1>1, <1>5, <3>1, SMT
  <2>2. CASE D # {}
    <3>1. m \in D /\ m < now /\ m > last_claimed_for[u]
      BY <1>6, <1>7, <1>8, <1>9, <2>2
    <3>2. m \in Nat
      BY <1>4, <1>6, <3>1, Zenon
    <3> QED
      BY <1>4, <1>5, <3>1, <3>2, SMT
  <2> QED
    BY <2>1, <2>2
<1>13. ClaimsPast'
  <2>1. \A v \in Users : last_claimed_for'[v] # 0 => last_claimed_for'[v] < now
    BY <1>1, <1>11, <1>12
  <2> QED
    BY <1>2, <2>1 DEF ClaimsPast
<1>14. \A e \in Epochs : e <= now => balances_for_epoch'[e] = balances_for_epoch[e]
  BY <1>1, <1>2, FillHolds
<1>15. \A v \in Users, e \in Epochs : e <= last_claimed_for'[v] => e <= now
  <2> SUFFICES ASSUME NEW v \in Users, NEW e \in Epochs, e <= last_claimed_for'[v] PROVE e <= now
    OBVIOUS
  <2>1. last_claimed_for'[v] \in Nat /\ last_claimed_for'[v] <= now
    <3>1. last_claimed_for[v] <= now
      BY <1>1 DEF DistributorInv, CursorsInStep
    <3> QED
      BY <1>5, <1>11, <1>12, <3>1
  <2>2. e \in Nat
    BY <1>4
  <2> QED
    BY <1>4, <2>1, <2>2, SMT
<1>16. \A e \in Epochs : getPastTotalSupply(e)' = getPastTotalSupply(e)
  BY <1>2 DEF getPastTotalSupply
<1>17. \A v \in Users, e \in Epochs, t \in Tokens : e <= now => Share(v, e, t)' = Share(v, e, t)
  BY <1>2, <1>14, <1>16 DEF Share
<1>18. ASSUME NEW e \in Epochs, NEW t \in Tokens, balances_for_epoch'[e][t] > 0,
              e <= m, ~(e <= last_claimed_for[u])
       PROVE  e \in E[t]
  <2>1. e \in Nat /\ e > last_claimed_for[u]
    BY <1>4, <1>5, <1>18, SMT
  <2>2. D # {}
    BY <1>9, <1>18
  <2>3. e >= INITIAL_EPOCH /\ t \in TokensOf(e)
    <3>1. FundsInSets'
      BY DEF DistributorInv
    <3>2. INITIAL_EPOCH' = INITIAL_EPOCH /\ Epochs' = Epochs
      BY DEF INITIAL_EPOCH, NextEpoch, RoundToWeek, Epochs
    <3>3. /\ e >= INITIAL_EPOCH
          /\ \E i \in (initial_set_for_epoch'[e]..max_set_for_epoch'[e]) \ {0} : t \in token_sets[i]
      BY <1>2, <1>18, <3>1, <3>2 DEF FundsInSets, SetsOf
    <3> QED
      BY <3>3 DEF TokensOf
  <2>4. e \in D
    BY <1>6, <1>8, <1>9, <1>18, <2>1, <2>2, <2>3
  <2>5. claimed_epoch_for[u][t] < e
    <3>1. claimed_epoch_for[u][t] <= last_claimed_for[u]
      BY <1>1 DEF DistributorInv, CursorsInStep
    <3>2. claimed_epoch_for[u][t] \in Nat
      <4>1. claimed_epoch_for[u][t] \in Epochs \cup {0} /\ 0 \in Nat
        BY <1>3, SMT
      <4> QED
        BY <1>4, <4>1, Zenon
    <3> QED
      BY <1>5, <2>1, <3>1, <3>2, SMT
  <2> QED
    BY <1>2, <2>3, <2>4, <2>5
<1>19. ClaimedHadVotes'
  <2>1. ASSUME NEW v \in Users, NEW e \in Epochs, NEW t \in Tokens,
               e <= last_claimed_for'[v], balances_for_epoch'[e][t] > 0
        PROVE  getPastTotalSupply(e) > 0
    <3>1. balances_for_epoch[e][t] > 0
      BY <1>14, <1>15, <2>1
    <3>2. CASE e <= last_claimed_for[v]
      BY <1>1, <3>1, <3>2
    <3>3. CASE ~(e <= last_claimed_for[v])
      <4>1. v = u /\ e <= m
        BY <1>11, <2>1, <3>3
      <4>2. e \in E[t]
        BY <1>18, <2>1, <3>3, <4>1
      <4> QED
        BY <1>2, <4>2
    <3> QED
      BY <3>2, <3>3
  <2> QED
    BY <1>16, <2>1 DEF ClaimedHadVotes
<1>20. PaidIsShare'
  <2>1. ASSUME NEW v \in Users, NEW e \in Epochs, NEW t \in Tokens
        PROVE  paid'[v][e][t] =
                   IF e <= last_claimed_for'[v] /\ balances_for_epoch'[e][t] > 0
                   THEN Share(v, e, t)' ELSE 0
    <3>0. paid[v][e][t] = IF e <= last_claimed_for[v] /\ balances_for_epoch[e][t] > 0
                          THEN Share(v, e, t) ELSE 0
      BY <1>1
    <3>1. e <= last_claimed_for'[v] =>
              balances_for_epoch'[e] = balances_for_epoch[e] /\ Share(v, e, t)' = Share(v, e, t)
      BY <1>14, <1>15, <1>17
    <3>2. e <= last_claimed_for[v] =>
              balances_for_epoch'[e] = balances_for_epoch[e] /\ Share(v, e, t)' = Share(v, e, t)
      <4>1. last_claimed_for[v] <= now /\ e \in Nat /\ last_claimed_for[v] \in Nat
        BY <1>1, <1>4, <1>5 DEF DistributorInv, CursorsInStep
      <4>2. e <= last_claimed_for[v] => e <= now
        BY <1>4, <4>1, SMT
      <4> QED
        BY <1>14, <1>17, <4>2
    <3>3. CASE v # u
      <4>1. last_claimed_for'[v] = last_claimed_for[v] /\ paid'[v] = paid[v]
        BY <1>11, <3>3
      <4> QED
        BY <3>0, <3>1, <4>1
    <3>4. CASE v = u
      <4>0. PICK x \in Nat : x = paid[u][e][t]
        BY <1>3
      <4>1. paid'[u][e][t] = x + (IF e \in E[t] THEN Share(u, e, t) ELSE 0)
        BY <1>10, <1>11, <4>0
      <4>2. e \in E[t] => e \in D
        OBVIOUS
      <4>3. CASE e <= last_claimed_for[u]
        <5>1. e \notin E[t]
          <6>1. e \in Nat
            BY <1>4
          <6>2. e \notin D
            BY <1>5, <1>6, <4>3, <6>1, SMT
          <6> QED
            BY <4>2, <6>2
        <5>2. e <= last_claimed_for'[u]
          <6>1. e \in Nat
            BY <1>4
          <6> QED
            BY <1>5, <1>11, <1>12, <4>3, <6>1, SMT
        <5>3. paid'[u][e][t] = x
          BY <4>1, <5>1, SMT
        <5> QED
          BY <3>0, <3>1, <3>4, <4>0, <4>3, <5>2, <5>3
      <4>4. CASE ~(e <= last_claimed_for[u]) /\ e \in E[t]
        <5>1. x = 0
          BY <3>0, <3>4, <4>0, <4>4
        <5>2. getPastTotalSupply(e) > 0
          BY <1>2, <4>4
        <5>3. Share(u, e, t) \in Nat /\ (balances_for_epoch[e][t] = 0 => Share(u, e, t) = 0)
          BY <1>1, <5>2, ShareType DEF DistributorInv
        <5>4. paid'[u][e][t] = Share(u, e, t)
          BY <4>1, <4>4, <5>1, <5>3, SMT
        <5>5. e <= last_claimed_for'[u]
          BY <1>8, <1>9, <1>11, <4>2, <4>4
        <5>6. balances_for_epoch[e][t] \in Nat
          BY <1>3
        <5>7. ~(balances_for_epoch[e][t] > 0) => balances_for_epoch[e][t] = 0
          BY <5>6, SMT
        <5> QED
          BY <3>1, <3>4, <5>3, <5>4, <5>5, <5>7
      <4>5. CASE ~(e <= last_claimed_for[u]) /\ e \notin E[t]
        <5>1. x = 0
          BY <3>0, <3>4, <4>0, <4>5
        <5>2. paid'[u][e][t] = 0
          BY <4>1, <4>5, <5>1, SMT
        <5>3. ~(e <= last_claimed_for'[u] /\ balances_for_epoch'[e][t] > 0)
          BY <1>11, <1>18, <4>5
        <5> QED
          BY <3>4, <5>2, <5>3
      <4> QED
        BY <3>4, <4>3, <4>4, <4>5
    <3> QED
      BY <3>3, <3>4
  <2> QED
    BY <2>1 DEF PaidIsShare
<1> QED
  BY <1>13, <1>19, <1>20

SolventInv == ShareInv /\ Solvent

(* Filling leaves the contract with what the epochs still have to pay, and
   counts it. *)
LEMMA FillKeepsSolvent ==
    ASSUME SolventInv, ShareInv', FillEpochs, UNCHANGED <<paid, balance, drained>>,
           token_balances' = [t \in Tokens |-> NewBalance(t)]
    PROVE  Solvent'
<1>1. ASSUME NEW t \in Tokens, ~drained[t]
      PROVE  Unclaimed(t)' <= NewBalance(t) /\ NewBalance(t) <= balance[t]
  <2>1. /\ token_balances[t] \in Nat /\ balance[t] \in Nat
        /\ NewBalance(t) \in Nat
        /\ NewBalance(t) # token_balances[t] => NewBalance(t) = balance[t]
    BY PerEpochType DEF SolventInv, ShareInv, DistributorInv
  <2>2. Unclaimed(t) <= token_balances[t] /\ token_balances[t] <= balance[t]
    BY <1>1 DEF SolventInv, Solvent
  <2>3. PICK s : s = [e \in Epochs |-> 0]
    OBVIOUS
  <2>4. s \in [Epochs -> Nat] /\ \A e \in Epochs : s[e] = 0
    BY <2>3
  <2>5. \A e \in Epochs : PaidOf(e, t)' = PaidOf(e, t) + s[e]
    <3> SUFFICES ASSUME NEW e \in Epochs PROVE PaidOf(e, t)' = PaidOf(e, t) + s[e]
      OBVIOUS
    <3>1. PaidOf(e, t) \in Nat
      BY PaidWithinFunds DEF SolventInv, ShareInv, DistributorInv
    <3>2. PaidOf(e, t)' = PaidOf(e, t)
      BY DEF PaidOf
    <3> QED
      BY <2>4, <3>1, <3>2, SMT
  <2>6. /\ Unclaimed(t) \in Nat /\ Unclaimed(t)' \in Nat /\ Total(s) \in Nat
        /\ Unclaimed(t)' + Total(s) <= Unclaimed(t) + (NewBalance(t) - token_balances[t])
    BY <2>4, <2>5, FillAndPay DEF SolventInv, ShareInv, DistributorInv
  <2>7. Unclaimed(t)' <= NewBalance(t)
    BY <2>1, <2>2, <2>6, SMT
  <2>8. NewBalance(t) <= balance[t]
    BY <2>1, <2>2, SMT
  <2> QED
    BY <2>7, <2>8
<1> QED
  BY <1>1 DEF Solvent

(* A claim takes what it pays off both. *)
LEMMA ClaimKeepsSolvent ==
    ASSUME SolventInv, ShareInv', NEW u \in Users,
           NEW D \in SUBSET Epochs,
           NEW E \in [Tokens -> SUBSET D], NEW A \in [Tokens -> Nat], Claims(u, D, E, A)
    PROVE  Solvent'
<1>1. /\ FillEpochs
      /\ \A t \in Tokens : \A e \in E[t] : Share(u, e, t) \in Nat
      /\ \A t \in Tokens : A[t] = Total([e \in E[t] |-> Share(u, e, t)])
      /\ balance' = [t \in Tokens |-> balance[t] - A[t]]
      /\ token_balances' = [t \in Tokens |-> AfterTransfer(t, A[t])]
      /\ \A t \in Tokens : A[t] <= balance[t]
      /\ drained' = drained
  BY DEF Claims
<1>2. PICK p : /\ p = [e \in Epochs |-> [t \in Tokens |->
                           paid[u][e][t] + (IF e \in E[t] THEN Share(u, e, t) ELSE 0)]]
               /\ paid' = [paid EXCEPT ![u] = p]
  BY DEF Claims
<1>3. /\ paid \in [Users -> [Epochs -> [Tokens -> Nat]]]
      /\ paid' \in [Users -> [Epochs -> [Tokens -> Nat]]]
  BY DEF SolventInv, ShareInv, DistributorInv, TypeOK
<1>4. paid'[u] = p /\ \A v \in Users \ {u} : paid'[v] = paid[v]
  BY <1>2, <1>3
<1>5. ASSUME NEW t \in Tokens, ~drained[t]
      PROVE  Unclaimed(t)' <= AfterTransfer(t, A[t]) /\ AfterTransfer(t, A[t]) <= balance[t] - A[t]
  <2>1. /\ token_balances[t] \in Nat /\ balance[t] \in Nat
        /\ NewBalance(t) \in Nat
        /\ NewBalance(t) # token_balances[t] => NewBalance(t) = balance[t]
    BY PerEpochType DEF SolventInv, ShareInv, DistributorInv
  <2>2. Unclaimed(t) <= token_balances[t] /\ token_balances[t] <= balance[t]
    BY <1>5 DEF SolventInv, Solvent
  <2>3. PICK s : s = [e \in Epochs |-> IF e \in E[t] THEN Share(u, e, t) ELSE 0]
    OBVIOUS
  <2>4. s \in [Epochs -> Nat]
    <3>1. \A e \in Epochs : (IF e \in E[t] THEN Share(u, e, t) ELSE 0) \in Nat
      <4>1. 0 \in Nat
        BY SMT
      <4> QED
        BY <1>1, <4>1, Zenon
    <3> QED
      BY <2>3, <3>1
  <2>5. Total(s) = A[t]
    <3>1. PICK T : T = E[t] /\ T \in SUBSET Epochs
      OBVIOUS
    <3>2. \A e \in Epochs \ T : s[e] = 0
      BY <2>3, <3>1
    <3>3. Total(s) = Total([e \in T |-> s[e]])
      BY <2>4, <3>1, <3>2, EpochsType, TotalOfPart
    <3>4. [e \in T |-> s[e]] = [e \in T |-> Share(u, e, t)]
      BY <2>3, <3>1
    <3> QED
      BY <1>1, <3>1, <3>3, <3>4
  <2>6. ASSUME NEW e \in Epochs PROVE PaidOf(e, t)' = PaidOf(e, t) + s[e]
    <3>1. PICK f : f = [v \in Users |-> paid[v][e][t]]
      OBVIOUS
    <3>2. PICK g : g = [v \in Users |-> paid'[v][e][t]]
      OBVIOUS
    <3>3. f \in [Users -> Nat] /\ g \in [Users -> Nat]
      BY <1>3, <3>1, <3>2
    <3>4. \A v \in Users \ {u} : g[v] = f[v]
      BY <1>4, <3>1, <3>2
    <3>5. g[u] = f[u] + s[e]
      BY <1>2, <1>4, <2>3, <3>1, <3>2
    <3>6. Total(g) = Total(f) - f[u] + g[u]
      BY <3>3, <3>4, DistributorConstants, TotalUpdate
    <3>7. Total(f) \in Nat /\ f[u] \in Nat /\ g[u] \in Nat /\ s[e] \in Nat
      BY <2>4, <3>3, DistributorConstants, TotalType
    <3>8. Total(g) = Total(f) + s[e]
      BY <3>5, <3>6, <3>7, SMT
    <3>9. PaidOf(e, t) = Total(f) /\ PaidOf(e, t)' = Total(g)
      BY <3>1, <3>2 DEF PaidOf
    <3> QED
      BY <3>8, <3>9
  <2>7. /\ Unclaimed(t) \in Nat /\ Unclaimed(t)' \in Nat /\ Total(s) \in Nat
        /\ Unclaimed(t)' + Total(s) <= Unclaimed(t) + (NewBalance(t) - token_balances[t])
    BY <1>1, <2>4, <2>6, FillAndPay DEF SolventInv, ShareInv, DistributorInv
  <2>8. A[t] \in Nat /\ A[t] <= balance[t]
    BY <1>1
  <2>9. Unclaimed(t)' + A[t] <= NewBalance(t) /\ NewBalance(t) <= balance[t]
    BY <2>1, <2>2, <2>5, <2>7, SMT
  <2>10. CASE A[t] > 0
    <3>1. AfterTransfer(t, A[t]) = balance[t] - A[t]
      BY <2>10 DEF AfterTransfer
    <3> QED
      BY <2>1, <2>7, <2>8, <2>9, <3>1, SMT
  <2>11. CASE ~(A[t] > 0)
    <3>1. AfterTransfer(t, A[t]) = NewBalance(t)
      BY <2>11 DEF AfterTransfer
    <3>2. A[t] = 0
      BY <2>8, <2>11, SMT
    <3> QED
      BY <2>1, <2>7, <2>9, <3>1, <3>2, SMT
  <2> QED
    BY <2>10, <2>11
<1> QED
  BY <1>1, <1>5 DEF Solvent

(* What others do does not touch what is owed. *)
LEMMA OthersKeepSolvent ==
    ASSUME SolventInv, UNCHANGED <<balances_for_epoch, paid, token_balances>>,
           \A t \in Tokens : ~drained'[t] =>
               /\ ~drained[t]
               /\ token_balances[t] <= balance[t] => token_balances[t] <= balance'[t]
    PROVE  Solvent'
<1>1. \A t \in Tokens : Unclaimed(t)' = Unclaimed(t)
  BY DEF Unclaimed
<1> QED
  BY <1>1 DEF SolventInv, Solvent

(* One step, or none. *)
LEMMA SolventNextHolds ==
    ASSUME ClaimsMissEpochs, SolventInv, [Next]_vars
    PROVE  SolventInv'
<1>0. DistributorInv'
  BY DistributorNextHolds DEF SolventInv, ShareInv
<1>1. /\ balances_for_epoch' \in [Epochs -> [Tokens -> Nat]]
      /\ \A t \in Tokens : token_balances[t] \in Nat /\ balance[t] \in Nat
  BY <1>0 DEF SolventInv, ShareInv, DistributorInv, TypeOK
<1>2. CASE EscrowStep
  <2>1. ShareInv'
    BY <1>0, <1>2, EscrowKeepsShares DEF SolventInv, ShareInv
  <2>2. Solvent'
    BY <1>2, OthersKeepSolvent DEF EscrowStep, claimVars
  <2> QED
    BY <2>1, <2>2 DEF SolventInv
<1>3. CASE FillEpochsCall \/ \E set \in TokenSets : AddTokenSet(set)
  <2>1. /\ FillEpochs
        /\ token_balances' = [t \in Tokens |-> NewBalance(t)]
        /\ UNCHANGED <<escrowVars, claimVars, balance, drained>>
    BY <1>3 DEF FillEpochsCall, AddTokenSet
  <2>2. ShareInv'
    BY <1>0, <1>1, <2>1, FillKeepsShares DEF SolventInv, ShareInv
  <2>3. Solvent'
    BY <2>1, <2>2, FillKeepsSolvent DEF claimVars
  <2> QED
    BY <2>2, <2>3 DEF SolventInv
<1>4. CASE \E receiver \in Users, n \in EpochCounts : ExecuteClaim(receiver, n)
  <2>1. PICK u \in Users, n \in Nat \ {0} : Claim(u, n) /\ now # RoundToWeek(now)
    <3>1. PICK receiver \in Users, n \in EpochCounts : ExecuteClaim(receiver, n)
      BY <1>4
    <3>2. now # RoundToWeek(now)
      BY <3>1 DEF ExecuteClaim
    <3>3. n \in Nat \ {0} /\ \E u \in Users : Claim(u, n)
      BY <3>1, ClaimIsSomeones
    <3> QED
      BY <3>2, <3>3
  <2>2. PICK D : D = DueEpochs(u, n)
    OBVIOUS
  <2>3. D \in SUBSET Epochs
    BY <2>2, DueEpochsType DEF SolventInv, ShareInv
  <2>4. PICK E \in [Tokens -> SUBSET D], A \in [Tokens -> Nat] : Claims(u, D, E, A)
    BY <2>1, <2>2, ClaimFacts, Zenon DEF SolventInv, ShareInv
  <2>5. ShareInv'
    BY <1>0, <2>1, <2>2, <2>4, ClaimKeepsShares DEF SolventInv, ShareInv
  <2>6. Solvent'
    BY <2>3, <2>4, <2>5, ClaimKeepsSolvent
  <2> QED
    BY <2>5, <2>6 DEF SolventInv
<1>5. ASSUME UNCHANGED <<escrowVars, claimVars, balances_for_epoch>> PROVE ShareInv'
  <2>1. UNCHANGED <<now, votes_at, last_claimed_for, paid, balances_for_epoch>>
    BY <1>5 DEF escrowVars, veVars, claimVars
  <2>2. \A e \in Epochs : getPastTotalSupply(e)' = getPastTotalSupply(e)
    BY <2>1 DEF getPastTotalSupply
  <2>3. \A u \in Users, e \in Epochs, t \in Tokens : Share(u, e, t)' = Share(u, e, t)
    BY <2>1, <2>2 DEF Share
  <2>4. ClaimsPast'
    BY <2>1 DEF SolventInv, ShareInv, ClaimsPast
  <2>5. ClaimedHadVotes'
    BY <2>1, <2>2 DEF SolventInv, ShareInv, ClaimedHadVotes
  <2>6. PaidIsShare'
    BY <2>1, <2>3 DEF SolventInv, ShareInv, PaidIsShare
  <2> QED
    BY <1>0, <2>4, <2>5, <2>6 DEF ShareInv
<1>6. ASSUME NEW t \in Tokens, RecoverToken(t) PROVE SolventInv'
  <2>1. ShareInv'
    BY <1>5, <1>6 DEF RecoverToken
  <2>2. ASSUME NEW x \in Tokens, ~drained'[x]
        PROVE  /\ ~drained[x]
               /\ token_balances[x] <= balance[x] => token_balances[x] <= balance'[x]
    <3>0. balance \in [Tokens -> Nat] /\ drained \in [Tokens -> BOOLEAN]
      BY DEF SolventInv, ShareInv, DistributorInv, TypeOK
    <3>1. CASE x = t
      <4>1. PICK b \in BOOLEAN : b = (drained[t] \/ is_killed)
        OBVIOUS
      <4>2. drained' = [drained EXCEPT ![t] = b]
        BY <1>6, <4>1 DEF RecoverToken
      <4>3. drained'[t] = b
        BY <3>0, <4>2
      <4>4. ~drained[t] /\ ~is_killed
        BY <2>2, <3>1, <4>1, <4>3
      <4>5. balance' = [balance EXCEPT ![t] = token_balances[t]]
        BY <1>6, <4>4 DEF RecoverToken
      <4>6. balance'[t] = token_balances[t]
        BY <3>0, <4>5
      <4>7. token_balances[t] <= token_balances[t]
        BY <1>1, SMT
      <4> QED
        BY <3>1, <4>4, <4>6, <4>7
    <3>2. CASE x # t
      <4>1. drained'[x] = drained[x] /\ balance'[x] = balance[x]
        BY <1>6, <3>0, <3>2 DEF RecoverToken
      <4> QED
        BY <2>2, <4>1
    <3> QED
      BY <3>1, <3>2
  <2>3. Solvent'
    BY <1>6, <2>2, OthersKeepSolvent DEF RecoverToken, claimVars
  <2> QED
    BY <2>1, <2>3 DEF SolventInv
<1>7. ASSUME NEW t \in Tokens, NEW a \in Arrivals, Arrive(t, a) PROVE SolventInv'
  <2>1. ShareInv'
    BY <1>5, <1>7 DEF Arrive
  <2>2. ASSUME NEW x \in Tokens, token_balances[x] <= balance[x]
        PROVE  token_balances[x] <= balance'[x]
    <3>1. balance'[x] = balance[x] + a \/ balance'[x] = balance[x]
      BY <1>7 DEF Arrive, SolventInv, ShareInv, DistributorInv, TypeOK
    <3>2. a \in Nat
      BY DistributorConstants
    <3> QED
      BY <1>1, <2>2, <3>1, <3>2, SMT
  <2>3. Solvent'
    BY <1>7, <2>2, OthersKeepSolvent DEF Arrive, claimVars
  <2> QED
    BY <2>1, <2>3 DEF SolventInv
<1>8. CASE (\E k \in BOOLEAN : KillToggle(k)) \/ UNCHANGED vars
  <2>1. UNCHANGED <<escrowVars, claimVars, balances_for_epoch, token_balances, balance, drained>>
    BY <1>8 DEF KillToggle, vars
  <2>2. Solvent'
    BY <2>1, OthersKeepSolvent DEF claimVars
  <2> QED
    BY <1>5, <2>1, <2>2 DEF SolventInv
<1> QED
  BY <1>2, <1>3, <1>4, <1>6, <1>7, <1>8 DEF Next

(* Nothing is owed at first. *)
LEMMA SolventInitHolds == Init => SolventInv
<1> SUFFICES ASSUME Init PROVE SolventInv
  OBVIOUS
<1>1. DistributorInv
  BY DistributorInitHolds
<1>2. /\ \A u \in Users : last_claimed_for[u] = 0
      /\ \A u \in Users, e \in Epochs, t \in Tokens : paid[u][e][t] = 0
      /\ \A e \in Epochs, t \in Tokens : balances_for_epoch[e][t] = 0
      /\ \A t \in Tokens : token_balances[t] = 0 /\ balance[t] = 0
  BY DEF Init
<1>3. 0 <= 0 /\ ~(0 > 0)
  BY SMT
<1>4. ClaimsPast /\ ClaimedHadVotes /\ PaidIsShare
  BY <1>2, <1>3, Zenon DEF ClaimsPast, ClaimedHadVotes, PaidIsShare
<1>5. ASSUME NEW t \in Tokens PROVE Unclaimed(t) = 0
  <2>1. PICK r : r = [e \in Epochs |-> balances_for_epoch[e][t] - PaidOf(e, t)]
    OBVIOUS
  <2>2. r \in [Epochs -> Nat] /\ Unclaimed(t) = Total(r)
    BY <1>1, <1>4, <2>1, UnclaimedType DEF DistributorInv
  <2>3. \A e \in Epochs : r[e] = 0
    <3> SUFFICES ASSUME NEW e \in Epochs PROVE r[e] = 0
      OBVIOUS
    <3>1. PaidOf(e, t) \in Nat /\ PaidOf(e, t) <= 0
      BY <1>1, <1>2, <1>4, PaidWithinFunds DEF DistributorInv
    <3>2. r[e] = 0 - PaidOf(e, t)
      BY <1>2, <2>1
    <3> QED
      BY <3>1, <3>2, SMT
  <2> QED
    BY <2>2, <2>3, EpochsType, TotalZero
<1>6. Solvent
  BY <1>2, <1>3, <1>5 DEF Solvent
<1> QED
  BY <1>1, <1>4, <1>6 DEF SolventInv, ShareInv

(* So does solvency, with what it rests on. *)
LEMMA SolventAlwaysHolds == ASSUME ClaimsMissEpochs PROVE Spec => []SolventInv
<1>1. Init => SolventInv
  BY SolventInitHolds
<1>2. SolventInv /\ [Next]_vars => SolventInv'
  BY SolventNextHolds
<1> QED
  BY <1>1, <1>2, PTL DEF Spec

(* Everybody is paid their share of every epoch they have claimed, once, in
   whatever pieces and with whatever token sets, for any users, votes,
   tokens and amounts. *)
THEOREM SharesArePaid == ASSUME ClaimsMissEpochs PROVE Spec => []PaidIsShare
<1>1. SolventInv => PaidIsShare
  BY DEF SolventInv, ShareInv
<1> QED
  BY <1>1, SolventAlwaysHolds, PTL

(* The contract always holds what its epochs have still to pay, and counts
   it, so that every claim can be paid. *)
THEOREM DistributorStaysSolvent == ASSUME ClaimsMissEpochs PROVE Spec => []Solvent
<1>1. SolventInv => Solvent
  BY DEF SolventInv
<1> QED
  BY <1>1, SolventAlwaysHolds, PTL

-----------------------------------------------------------------------------
(***************************************************************************)
(* CliffEscrow                                                             *)
(***************************************************************************)
(* The strengthening: nobody has been approved before the cliff is over. *)
NothingApproved == ~CliffIsOver => allowance = 0

CliffInv ==
    /\ CliffTypeOK
    /\ NothingLeavesBeforeCliff
    /\ NothingApproved

(* The amounts are numbers, and so is the cliff. *)
LEMMA CliffConstants ==
    /\ Cliff \in Users
    /\ UnlockTimes \subseteq Nat
    /\ Amounts \subseteq Nat
  BY CliffAssumption

(* The contract starts empty. *)
LEMMA CliffInitHolds == CliffInit => CliffInv
<1> SUFFICES ASSUME CliffInit PROVE CliffInv
  OBVIOUS
<1>1. NoLock \in Lock /\ NoLock.amount = 0
  BY VeConstants, SMT DEF NoLock, Lock, Times
<1>2. now \in StartTime..MaxTime
  BY VeAssumption, SMT DEF CliffInit, VeInit
<1>3. CliffTypeOK
  BY <1>1, <1>2 DEF CliffInit, VeInit, CliffTypeOK
<1>4. yb + locked[Cliff].amount = received
  BY <1>1, CliffConstants, SMT DEF CliffInit, VeInit
<1>5. allowance = 0
  BY DEF CliffInit
<1> QED
  BY <1>3, <1>4, <1>5 DEF CliffInv, NothingLeavesBeforeCliff, NothingApproved

(* What the contract locks it pays, and what it withdraws it gets. *)
LEMMA LockingHolds ==
    ASSUME CliffInv, LockTokens \/ ToggleLock \/ WithdrawLock
    PROVE  CliffInv'
<1>1. /\ locked' \in [Users -> Lock]
      /\ now' = now
  BY CliffConstants, LockingType DEF LockTokens, ToggleLock, WithdrawLock, CliffInv, CliffTypeOK
<1>2. PaidFromBalance
  BY DEF LockTokens, ToggleLock, WithdrawLock
<1>3. locked[Cliff].amount \in Nat /\ locked'[Cliff].amount \in Nat
  BY <1>1, CliffConstants DEF CliffInv, CliffTypeOK, Lock
<1>4. yb \in Nat /\ received \in Nat
  BY DEF CliffInv, CliffTypeOK
<1>5. yb' \in Nat /\ yb' + locked'[Cliff].amount = yb + locked[Cliff].amount
  BY <1>2, <1>3, <1>4, SMT DEF PaidFromBalance
<1>6. CliffTypeOK'
  BY <1>1, <1>2, <1>5 DEF PaidFromBalance, cliffVars, CliffInv, CliffTypeOK
<1> QED
  BY <1>1, <1>2, <1>5, <1>6
  DEF PaidFromBalance, cliffVars, CliffInv, NothingLeavesBeforeCliff, NothingApproved, CliffIsOver

(* What leaves, leaves after the cliff, an approval before it being of
   nothing. *)
LEMMA LeavingHolds ==
    ASSUME CliffInv, NEW amount \in Amounts,
           TransferTokens(amount) \/ Approve(amount) \/ TakeApproved(amount)
    PROVE  CliffInv'
<1>1. amount \in Nat
  BY CliffConstants
<1>2. /\ now' = now /\ locked' = locked /\ unlock_time' = unlock_time /\ received' = received
      /\ yb' \in Nat /\ allowance' \in Nat
      /\ ~CliffIsOver => yb' = yb /\ allowance' = allowance
  <2>1. CASE TransferTokens(amount)
    BY <1>1, <2>1, SMT DEF TransferTokens, veVars, cliffVars, CliffInv, CliffTypeOK
  <2>2. CASE Approve(amount)
    BY <1>1, <2>2, SMT DEF Approve, veVars, CliffInv, CliffTypeOK
  <2>3. CASE TakeApproved(amount)
    <3>1. yb' \in Nat /\ allowance' \in Nat
      BY <1>1, <2>3, SMT DEF TakeApproved, CliffInv, CliffTypeOK
    <3>2. ASSUME ~CliffIsOver PROVE yb' = yb /\ allowance' = allowance
      <4>1. allowance = 0
        BY <3>2 DEF CliffInv, NothingApproved
      <4>2. amount = 0
        BY <1>1, <2>3, <4>1, SMT DEF TakeApproved
      <4> QED
        BY <2>3, <4>2, SMT DEF TakeApproved, CliffInv, CliffTypeOK
    <3> QED
      BY <2>3, <3>1, <3>2 DEF TakeApproved, veVars
  <2> QED
    BY <2>1, <2>2, <2>3
<1>3. CliffTypeOK'
  BY <1>2 DEF CliffInv, CliffTypeOK
<1> QED
  BY <1>2, <1>3
  DEF CliffInv, NothingLeavesBeforeCliff, NothingApproved, CliffIsOver

(* The lock is sent away after the cliff only. *)
LEMMA TransferLockHolds ==
    ASSUME CliffInv, NEW to \in Users, TransferLock(to)
    PROVE  CliffInv'
<1>1. locked' \in [Users -> Lock] /\ now' = now
  BY CliffConstants, TransferType DEF TransferLock, CliffInv, CliffTypeOK
<1>2. CliffIsOver' /\ CliffTypeOK'
  BY <1>1 DEF TransferLock, cliffVars, CliffIsOver, CliffInv, CliffTypeOK
<1> QED
  BY <1>2 DEF CliffInv, NothingLeavesBeforeCliff, NothingApproved

(* What others do adds to the contract or leaves it alone. *)
LEMMA OthersHold ==
    ASSUME CliffInv, NEW u \in Users \ {Cliff},
           OthersLock(u) \/ \E to \in Users : OthersTransfer(u, to)
    PROVE  CliffInv'
<1>1. CASE OthersLock(u)
  <2>1. locked' \in [Users -> Lock] /\ locked'[Cliff] = locked[Cliff] /\ now' = now
    BY <1>1, CliffConstants, LockingType DEF OthersLock, CliffInv, CliffTypeOK
  <2>2. CliffTypeOK'
    BY <1>1, <2>1 DEF OthersLock, cliffVars, CliffInv, CliffTypeOK
  <2> QED
    BY <1>1, <2>1, <2>2
    DEF OthersLock, cliffVars, CliffInv, NothingLeavesBeforeCliff, NothingApproved, CliffIsOver
<1>2. ASSUME NEW to \in Users, OthersTransfer(u, to) PROVE CliffInv'
  <2>1. /\ locked' \in [Users -> Lock]
        /\ locked'[to].amount = locked[to].amount + locked[u].amount
        /\ to # Cliff => locked'[Cliff] = locked[Cliff]
        /\ now' = now
    BY <1>2, CliffConstants, TransferType DEF OthersTransfer, CliffInv, CliffTypeOK
  <2>2. /\ locked[u].amount \in Nat
        /\ locked[Cliff].amount \in Nat
        /\ yb \in Nat /\ received \in Nat
    BY CliffConstants DEF CliffInv, CliffTypeOK, Lock
  <2>3. received' \in Nat /\ UNCHANGED <<cliffVars, yb>>
    BY <1>2, <2>2, SMT DEF OthersTransfer
  <2>4. CliffTypeOK'
    BY <2>1, <2>3 DEF cliffVars, CliffInv, CliffTypeOK
  <2>5. ~CliffIsOver => yb + locked'[Cliff].amount = received'
    <3>1. CASE to = Cliff
      <4>1. received' = received + locked[u].amount
        BY <1>2, <3>1 DEF OthersTransfer
      <4>2. locked'[Cliff].amount = locked[Cliff].amount + locked[u].amount
        BY <2>1, <3>1
      <4>3. ~CliffIsOver => yb + locked[Cliff].amount = received
        BY DEF CliffInv, NothingLeavesBeforeCliff
      <4> QED
        BY <2>2, <4>1, <4>2, <4>3, SMT
    <3>2. CASE to # Cliff
      <4>1. received' = received
        BY <1>2, <2>2, <3>2, SMT DEF OthersTransfer
      <4> QED
        BY <2>1, <3>2, <4>1 DEF CliffInv, NothingLeavesBeforeCliff
    <3> QED
      BY <3>1, <3>2
  <2> QED
    BY <2>1, <2>3, <2>4, <2>5
    DEF cliffVars, CliffInv, NothingLeavesBeforeCliff, NothingApproved, CliffIsOver
<1> QED
  BY <1>1, <1>2

(* Arrivals and time. *)
LEMMA EnvironmentHolds ==
    ASSUME CliffInv,
           \/ \E amount \in Amounts : ReceiveYB(amount)
           \/ Tick /\ UNCHANGED <<cliffVars, yb, received>>
           \/ UNCHANGED cliffEscrowVars
    PROVE  CliffInv'
<1>1. ASSUME NEW amount \in Amounts, ReceiveYB(amount) PROVE CliffInv'
  <2>1. amount \in Nat /\ yb \in Nat /\ received \in Nat /\ locked[Cliff].amount \in Nat
    BY CliffConstants DEF CliffInv, CliffTypeOK, Lock
  <2>2. yb' \in Nat /\ received' \in Nat
    BY <1>1, <2>1, SMT DEF ReceiveYB
  <2>3. CliffTypeOK'
    BY <1>1, <2>2 DEF ReceiveYB, veVars, cliffVars, CliffInv, CliffTypeOK
  <2>4. ~CliffIsOver => yb' + locked[Cliff].amount = received'
    <3>1. yb' = yb + amount /\ received' = received + amount
      BY <1>1 DEF ReceiveYB
    <3>2. ~CliffIsOver => yb + locked[Cliff].amount = received
      BY DEF CliffInv, NothingLeavesBeforeCliff
    <3> QED
      BY <2>1, <3>1, <3>2, SMT
  <2> QED
    BY <1>1, <2>3, <2>4
    DEF ReceiveYB, veVars, cliffVars, CliffInv, NothingLeavesBeforeCliff, NothingApproved, CliffIsOver
<1>2. CASE Tick /\ UNCHANGED <<cliffVars, yb, received>>
  <2>1. now' \in StartTime..MaxTime /\ now <= now' /\ locked' = locked /\ now \in Nat /\ now' \in Nat
    BY <1>2, VeConstants, SMT DEF Tick, CliffInv, CliffTypeOK
  <2>2. CliffTypeOK'
    BY <1>2, <2>1 DEF cliffVars, CliffInv, CliffTypeOK
  <2>3. unlock_time \in Nat
    BY CliffConstants DEF CliffInv, CliffTypeOK
  <2>4. ~CliffIsOver' => ~CliffIsOver
    BY <1>2, <2>1, <2>3, SMT DEF cliffVars, CliffIsOver
  <2> QED
    BY <1>2, <2>1, <2>2, <2>4 DEF cliffVars, CliffInv, NothingLeavesBeforeCliff, NothingApproved
<1>3. CASE UNCHANGED cliffEscrowVars
  BY <1>3 DEF cliffEscrowVars, veVars, cliffVars, CliffInv, CliffTypeOK, NothingLeavesBeforeCliff,
              NothingApproved, CliffIsOver
<1> QED
  BY <1>1, <1>2, <1>3

(* One step, or none. *)
LEMMA CliffNextHolds == CliffInv /\ [CliffNext]_cliffEscrowVars => CliffInv'
<1> SUFFICES ASSUME CliffInv, [CliffNext]_cliffEscrowVars PROVE CliffInv'
  OBVIOUS
<1>1. CASE LockTokens \/ ToggleLock \/ WithdrawLock
  BY <1>1, LockingHolds
<1>2. CASE \E to \in Users : TransferLock(to)
  BY <1>2, TransferLockHolds
<1>3. CASE \E amount \in Amounts :
               TransferTokens(amount) \/ Approve(amount) \/ TakeApproved(amount)
  BY <1>3, LeavingHolds
<1>4. CASE \E u \in Users \ {Cliff} : OthersLock(u) \/ \E to \in Users : OthersTransfer(u, to)
  BY <1>4, OthersHold
<1>5. CASE \/ \E amount \in Amounts : ReceiveYB(amount)
           \/ Tick /\ UNCHANGED <<cliffVars, yb, received>>
           \/ UNCHANGED cliffEscrowVars
  BY <1>5, EnvironmentHolds
<1> QED
  BY <1>1, <1>2, <1>3, <1>4, <1>5 DEF CliffNext

(* The induction hypothesis holds always. *)
LEMMA CliffAlwaysHolds == CliffSpec => []CliffInv
  BY CliffInitHolds, CliffNextHolds, PTL DEF CliffSpec

-----------------------------------------------------------------------------
(* The balance of the contract never underflows, and its lock is a lock. *)
THEOREM CliffTypeCorrect == CliffSpec => []CliffTypeOK
<1>1. CliffInv => CliffTypeOK
  BY DEF CliffInv
<1> QED
  BY <1>1, CliffAlwaysHolds, PTL

(* No sequence of calls, of the recipient or of others, takes tokens out of
   the contract and its lock before the cliff is over. *)
THEOREM CliffHolds == CliffSpec => []NothingLeavesBeforeCliff
<1>1. CliffInv => NothingLeavesBeforeCliff
  BY DEF CliffInv
<1> QED
  BY <1>1, CliffAlwaysHolds, PTL
=============================================================================
