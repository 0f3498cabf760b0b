--------------------------- MODULE Payouts_proofs ---------------------------
(***************************************************************************)
(* Proofs about what is paid out, by two specifications: by the vesting    *)
(* escrow, module VestingEscrow, for any accounts, amounts, vesting period *)
(* and horizon; and by the refunds, module Refunds, for any batches of     *)
(* holders, runs and mishaps, with the votes of module MarketVotes that    *)
(* bring the DAO what is refunded.                                         *)
(***************************************************************************)
EXTENDS VestingEscrow, Refunds, Sums_proofs, SequenceTheorems, TLAPS

(* The strengthening: what is frozen for a disabled account is exactly what
   had not vested for it when it was disabled, and an enabled account has
   nothing frozen and has never been taken from. *)
FrozenIsUnvested ==
    \A r \in Accounts :
        IF disabled_at[r] = 0
        THEN disabled_amounts[r] = 0 /\ ~disabled_rugged[r]
        ELSE disabled_amounts[r] = initial_locked[r] - VestedOf(r)

IInv ==
    /\ TypeOK
    /\ WithinAllocation
    /\ FrozenIsUnvested

-----------------------------------------------------------------------------
(***************************************************************************)
(* Vesting as a function of time and amount                                *)
(***************************************************************************)

(* The vesting period is not empty. *)
LEMMA PeriodType ==
    /\ START_TIME \in Nat
    /\ END_TIME - START_TIME \in Nat \ {0}
    /\ StartTime \in Nat \ {0}
    /\ MaxTime \in Nat
  BY VestingAssumption, SMT

(* What has vested is between nothing and everything. *)
LEMMA VestedBounds ==
    ASSUME NEW locked \in Nat, NEW t \in Nat
    PROVE  Vested(locked, t) \in 0..locked
<1>1. CASE t < START_TIME
  BY <1>1, SMT DEF Vested
<1>2. CASE ~(t < START_TIME)
  <2>1. t - START_TIME \in Nat
    BY <1>2, PeriodType, SMT
  <2>2. locked * (t - START_TIME) \in Nat
    BY <2>1, SMT
  <2>3. (locked * (t - START_TIME)) \div (END_TIME - START_TIME) \in Nat
    BY <2>2, PeriodType, DivBounds
  <2> QED
    BY <1>2, <2>3, SMT DEF Vested, Smaller
<1> QED
  BY <1>1, <1>2

(* More has vested later, and of more. *)
LEMMA VestedMonotone ==
    ASSUME NEW l \in Nat, NEW m \in Nat, NEW s \in Nat, NEW t \in Nat,
           l <= m, s <= t
    PROVE  Vested(l, s) <= Vested(m, t)
<1>1. CASE s < START_TIME
  <2>1. Vested(l, s) = 0
    BY <1>1 DEF Vested
  <2> QED
    BY <2>1, VestedBounds, SMT
<1>2. CASE ~(s < START_TIME)
  <2> DEFINE i == s - START_TIME
             j == t - START_TIME
             w == END_TIME - START_TIME
  <2>1. i \in Nat /\ j \in Nat /\ i <= j /\ ~(t < START_TIME) /\ w \in Nat \ {0}
    BY <1>2, PeriodType, SMT
  <2> HIDE DEF i, j, w
  <2>2. l * i \in Nat /\ m * j \in Nat /\ m * i \in Nat
    BY <2>1, SMT
  <2>3. l * i <= m * i
    BY <2>1, SMT
  <2>4. m * i <= m * j
    BY <2>1, SMT
  <2>5. l * i <= m * j
    BY <2>2, <2>3, <2>4, SMT
  <2>6. (l * i) \div w <= (m * j) \div w
    BY <2>1, <2>2, <2>5, DivMonotone
  <2>7. (l * i) \div w \in Nat /\ (m * j) \div w \in Nat
    BY <2>1, <2>2, DivBounds
  <2>8. Vested(l, s) = Smaller((l * i) \div w, l)
    BY <1>2 DEF Vested, i, w
  <2>9. Vested(m, t) = Smaller((m * j) \div w, m)
    BY <2>1 DEF Vested, j, w
  <2> QED
    BY <2>6, <2>7, <2>8, <2>9, SMT DEF Smaller
<1> QED
  BY <1>1, <1>2

-----------------------------------------------------------------------------
(***************************************************************************)
(* Every operation keeps the induction hypothesis                          *)
(***************************************************************************)

(* What an account has vested is a part of what it was given. *)
LEMMA VestedOfType ==
    ASSUME TypeOK, NEW r \in Accounts
    PROVE  /\ VestingTime(r) \in Nat
           /\ VestedOf(r) \in 0..initial_locked[r]
<1>1. now \in Nat /\ disabled_at[r] \in Nat /\ initial_locked[r] \in Nat
  BY PeriodType, SMT DEF TypeOK
<1>2. VestingTime(r) \in Nat
  BY <1>1 DEF VestingTime
<1> QED
  BY <1>1, <1>2, VestedBounds DEF VestedOf

(* The same after a step. *)
LEMMA VestedOfTypeNext ==
    ASSUME TypeOK', NEW r \in Accounts
    PROVE  VestedOf(r)' \in 0..(initial_locked'[r])
<1>1. now' \in Nat /\ disabled_at'[r] \in Nat /\ initial_locked'[r] \in Nat
  BY PeriodType, SMT DEF TypeOK
<1>2. VestingTime(r)' \in Nat
  BY <1>1 DEF VestingTime
<1> QED
  BY <1>1, <1>2, VestedBounds DEF VestedOf

(* Nothing is claimed, frozen or taken before anything is given. *)
LEMMA InitKeepsAccounts == Init => IInv
<1> SUFFICES ASSUME Init PROVE IInv
  OBVIOUS
<1>1. TypeOK
  BY PeriodType, VestingAssumption, SMT DEF Init, TypeOK
<1>2. ASSUME NEW r \in Accounts
      PROVE  VestedOf(r) = 0 /\ Rugged(r) = 0 /\ initial_locked[r] = 0 /\ total_claimed[r] = 0
  <2>1. initial_locked[r] = 0 /\ total_claimed[r] = 0 /\ Rugged(r) = 0
    BY DEF Init, Rugged
  <2>2. VestedOf(r) \in 0..0
    BY <1>1, <2>1, VestedOfType
  <2> QED
    BY <2>1, <2>2, SMT
<1>3. WithinAllocation
  BY <1>2, SMT DEF WithinAllocation
<1>4. FrozenIsUnvested
  BY DEF Init, FrozenIsUnvested
<1> QED
  BY <1>1, <1>3, <1>4 DEF IInv

(* Funding touches an enabled account only, and gives it more. *)
LEMMA FundKeepsAccounts ==
    ASSUME IInv, NEW r \in Accounts, NEW amount \in Amounts, NEW c \in BOOLEAN,
           Fund(r, amount, c)
    PROVE  IInv' /\ \A a \in Accounts : VestedOf(a)' >= VestedOf(a)
<1> DEFINE f == IF c THEN CliffOf[r] ELSE r
<1>1. f \in Accounts
  BY VestingAssumption DEF Fund, Accounts
<1>2. amount \in Nat
  BY VestingAssumption
<1>3. /\ disabled_at[f] = 0
      /\ ~disabled_rugged[f]
      /\ amount <= unallocated_supply
      /\ initial_locked' = [initial_locked EXCEPT ![f] = @ + amount]
      /\ initial_locked_supply' = initial_locked_supply + amount
      /\ unallocated_supply' = unallocated_supply - amount
      /\ has_cliff' \subseteq Users
      /\ UNCHANGED <<now, balance, total_claimed, can_disable, disableVars>>
  BY DEF Fund, MayFund, IInv, TypeOK
<1> HIDE DEF f
<1> USE DEF disableVars
<1>4. TypeOK'
  <2>1. initial_locked' \in [Accounts -> Nat]
    BY <1>1, <1>2, <1>3 DEF IInv, TypeOK
  <2>2. unallocated_supply' \in Nat /\ initial_locked_supply' \in Nat
    BY <1>2, <1>3, SMT DEF IInv, TypeOK
  <2> QED
    BY <1>3, <2>1, <2>2 DEF IInv, TypeOK
<1>5. ASSUME NEW a \in Accounts
      PROVE  /\ VestedOf(a) <= VestedOf(a)'
             /\ a # f => VestedOf(a)' = VestedOf(a) /\ initial_locked[a]' = initial_locked[a]
             /\ Rugged(a)' = Rugged(a)
  <2>1. VestingTime(a)' = VestingTime(a) /\ Rugged(a)' = Rugged(a)
    BY <1>3 DEF VestingTime, Rugged
  <2>2. a # f => initial_locked'[a] = initial_locked[a]
    BY <1>3 DEF IInv, TypeOK
  <2>3. initial_locked[a] \in Nat /\ initial_locked'[a] \in Nat
    BY <1>4 DEF IInv, TypeOK
  <2>4. initial_locked[a] <= initial_locked'[a]
    BY <1>1, <1>2, <1>3, <2>3, SMT DEF IInv, TypeOK
  <2>5. VestingTime(a) \in Nat
    BY VestedOfType DEF IInv
  <2>6. Vested(initial_locked[a], VestingTime(a)) <= Vested(initial_locked'[a], VestingTime(a))
    BY <2>3, <2>4, <2>5, VestedMonotone, SMT
  <2> QED
    BY <2>1, <2>2, <2>6 DEF VestedOf
<1>6. WithinAllocation'
  <2> SUFFICES ASSUME NEW a \in Accounts
               PROVE  /\ total_claimed'[a] <= VestedOf(a)'
                      /\ VestedOf(a)' + Rugged(a)' <= initial_locked'[a]
    BY DEF WithinAllocation
  <2>1. VestedOf(a) \in 0..initial_locked[a] /\ VestedOf(a)' \in 0..(initial_locked'[a])
    BY <1>4, VestedOfType, VestedOfTypeNext DEF IInv
  <2>2. /\ total_claimed[a] <= VestedOf(a)
        /\ VestedOf(a) + Rugged(a) <= initial_locked[a]
        /\ total_claimed[a] \in Nat
        /\ initial_locked[a] \in Nat /\ initial_locked'[a] \in Nat
    BY <1>4 DEF IInv, WithinAllocation, TypeOK
  <2>3. CASE a = f
    <3>1. Rugged(a)' = 0
      BY <1>3, <2>3 DEF Rugged
    <3> QED
      BY <1>3, <1>5, <2>1, <2>2, <3>1, SMT
  <2>4. CASE a # f
    BY <1>3, <1>5, <2>2, <2>4
  <2> QED
    BY <2>3, <2>4
<1>7. FrozenIsUnvested'
  <2> SUFFICES ASSUME NEW a \in Accounts
               PROVE  IF disabled_at'[a] = 0
                      THEN disabled_amounts'[a] = 0 /\ ~disabled_rugged'[a]
                      ELSE disabled_amounts'[a] = initial_locked'[a] - VestedOf(a)'
    BY DEF FrozenIsUnvested
  <2>1. CASE a = f
    BY <1>3, <2>1 DEF IInv, FrozenIsUnvested
  <2>2. CASE a # f
    BY <1>3, <1>5, <2>2 DEF IInv, FrozenIsUnvested
  <2> QED
    BY <2>1, <2>2
<1>8. ASSUME NEW a \in Accounts PROVE VestedOf(a)' >= VestedOf(a)
  <2>1. VestedOf(a) \in Int /\ VestedOf(a)' \in Int
    <3>1. VestedOf(a) \in 0..initial_locked[a] /\ VestedOf(a)' \in 0..(initial_locked'[a])
      BY <1>4, VestedOfType, VestedOfTypeNext DEF IInv
    <3> QED
      BY <3>1, SMT
  <2> QED
    BY <1>5, <2>1, SMT
<1> QED
  BY <1>4, <1>6, <1>7, <1>8 DEF IInv

(* What the induction hypothesis says of one account. *)
AccountOK(r) ==
    /\ total_claimed[r] <= VestedOf(r)
    /\ VestedOf(r) + Rugged(r) <= initial_locked[r]
    /\ IF disabled_at[r] = 0
       THEN disabled_amounts[r] = 0 /\ ~disabled_rugged[r]
       ELSE disabled_amounts[r] = initial_locked[r] - VestedOf(r)

(* The hypothesis can be shown account by account. *)
LEMMA AccountByAccount ==
    ASSUME TypeOK', \A a \in Accounts : AccountOK(a)'
    PROVE  IInv'
  BY DEF IInv, AccountOK, WithinAllocation, FrozenIsUnvested

(* An account that a step does not touch stays as it was. *)
LEMMA UntouchedAccount ==
    ASSUME IInv, NEW a \in Accounts, now' = now,
           initial_locked'[a] = initial_locked[a], total_claimed'[a] = total_claimed[a],
           disabled_at'[a] = disabled_at[a], disabled_amounts'[a] = disabled_amounts[a],
           disabled_rugged'[a] = disabled_rugged[a]
    PROVE  AccountOK(a)' /\ VestedOf(a)' >= VestedOf(a)
<1>1. VestedOf(a)' = VestedOf(a) /\ Rugged(a)' = Rugged(a)
  BY DEF VestedOf, VestingTime, Rugged
<1>2. VestedOf(a) \in Int
  <2>1. VestedOf(a) \in 0..initial_locked[a]
    BY VestedOfType DEF IInv
  <2> QED
    BY <2>1, SMT
<1>3. AccountOK(a)
  BY DEF IInv, AccountOK, WithinAllocation, FrozenIsUnvested
<1>4. AccountOK(a)'
  BY <1>1, <1>3 DEF AccountOK
<1> QED
  BY <1>1, <1>2, <1>4, SMT

(* Steps that touch no account at all. *)
LEMMA OthersKeepAccounts ==
    ASSUME IInv,
           \/ \E amount \in Amounts : AddTokens(amount)
           \/ DisableCanDisable
           \/ UNCHANGED vars
    PROVE  IInv' /\ \A a \in Accounts : VestedOf(a)' >= VestedOf(a)
<1>1. UNCHANGED <<now, accountVars, disableVars>>
  BY DEF AddTokens, DisableCanDisable, vars
<1>2. TypeOK'
  <2>1. CASE \E amount \in Amounts : AddTokens(amount)
    <3>1. PICK amount \in Nat : AddTokens(amount)
      BY <2>1, VestingAssumption
    <3>2. balance' \in Nat /\ unallocated_supply' \in Nat
      BY <3>1, SMT DEF AddTokens, IInv, TypeOK
    <3> QED
      BY <1>1, <3>1, <3>2 DEF AddTokens, accountVars, disableVars, IInv, TypeOK
  <2>2. CASE DisableCanDisable
    BY <2>2 DEF DisableCanDisable, supplyVars, accountVars, disableVars, IInv, TypeOK
  <2>3. CASE UNCHANGED vars
    BY <2>3 DEF vars, supplyVars, accountVars, disableVars, IInv, TypeOK
  <2> QED
    BY <2>1, <2>2, <2>3
<1>3. ASSUME NEW a \in Accounts PROVE AccountOK(a)' /\ VestedOf(a)' >= VestedOf(a)
  BY <1>1, UntouchedAccount DEF accountVars, disableVars
<1> QED
  BY <1>2, <1>3, AccountByAccount

(* Disabling an account freezes exactly what has not vested. *)
LEMMA DisableKeepsAccounts ==
    ASSUME IInv, NEW r \in Accounts, Disable(r)
    PROVE  IInv' /\ \A a \in Accounts : VestedOf(a)' >= VestedOf(a)
<1>1. VestedOf(r) \in 0..initial_locked[r] /\ VestedOf(r) = Vested(initial_locked[r], now)
  BY VestedOfType DEF IInv, Disable, VestedOf, VestingTime
<1>2. LockedOf(r) \in Nat /\ LockedOf(r) = initial_locked[r] - VestedOf(r)
  <2>1. initial_locked[r] \in Nat
    BY DEF IInv, TypeOK
  <2> QED
    BY <1>1, <2>1, SMT DEF LockedOf
<1>3. now \in Nat /\ now # 0 /\ now \in 0..now
  BY PeriodType, SMT DEF IInv, TypeOK
<1>4. TypeOK'
  <2>1. disabled_total' \in Nat
    BY <1>2, SMT DEF Disable, IInv, TypeOK
  <2>2. disabled_amounts' \in [Accounts -> Nat] /\ disabled_at' \in [Accounts -> 0..now]
    BY <1>2, <1>3 DEF Disable, IInv, TypeOK
  <2> QED
    BY <2>1, <2>2 DEF Disable, supplyVars, accountVars, IInv, TypeOK
<1>5. VestedOf(r)' = VestedOf(r)
  BY <1>1, <1>3 DEF Disable, accountVars, VestedOf, VestingTime, IInv, TypeOK
<1>6. ~disabled_rugged[r] /\ ~disabled_rugged'[r] /\ Rugged(r)' = 0 /\ Rugged(r) = 0
  BY DEF Disable, Rugged
<1>7. disabled_at'[r] = now /\ disabled_amounts'[r] = LockedOf(r)
  BY DEF Disable, IInv, TypeOK
<1>8. AccountOK(r)' /\ VestedOf(r)' >= VestedOf(r)
  <2>1. total_claimed[r] <= VestedOf(r) /\ VestedOf(r) + Rugged(r) <= initial_locked[r]
    BY DEF IInv, WithinAllocation
  <2>2. total_claimed'[r] <= VestedOf(r)' /\ VestedOf(r)' + Rugged(r)' <= initial_locked'[r]
    BY <1>5, <1>6, <2>1 DEF Disable, accountVars
  <2>3. disabled_amounts'[r] = initial_locked'[r] - VestedOf(r)'
    BY <1>2, <1>5, <1>7 DEF Disable, accountVars
  <2>4. AccountOK(r)'
    BY <1>3, <1>7, <2>2, <2>3 DEF AccountOK
  <2> QED
    BY <1>1, <1>5, <2>4, SMT
<1>9. ASSUME NEW a \in Accounts, a # r
      PROVE  AccountOK(a)' /\ VestedOf(a)' >= VestedOf(a)
  <2>1. disabled_at'[a] = disabled_at[a] /\ disabled_amounts'[a] = disabled_amounts[a]
    BY <1>9 DEF Disable, IInv, TypeOK
  <2> QED
    BY <2>1, UntouchedAccount DEF Disable, accountVars
<1>10. \A a \in Accounts : AccountOK(a)' /\ VestedOf(a)' >= VestedOf(a)
  BY <1>8, <1>9
<1> QED
  BY <1>4, <1>10, AccountByAccount

(* Enabling an account that was not taken from lets it vest up to now. *)
LEMMA EnableKeepsAccounts ==
    ASSUME IInv, NEW r \in Accounts, Enable(r)
    PROVE  IInv' /\ \A a \in Accounts : VestedOf(a)' >= VestedOf(a)
<1>1. /\ ~disabled_rugged[r]
      /\ disabled_at[r] # 0
      /\ disabled_at[r] \in Nat /\ now \in Nat /\ disabled_at[r] <= now
      /\ initial_locked[r] \in Nat
  BY PeriodType, SMT DEF Enable, MayEnable, IInv, TypeOK
<1>2. disabled_at'[r] = 0 /\ disabled_amounts'[r] = 0
  BY DEF Enable, IInv, TypeOK
<1>3. TypeOK'
  <2>1. disabled_total' \in Nat
    BY SMT DEF Enable, IInv, TypeOK
  <2>2. 0 \in 0..now
    BY <1>1, SMT
  <2>3. disabled_amounts' \in [Accounts -> Nat] /\ disabled_at' \in [Accounts -> 0..now]
    BY <2>2 DEF Enable, IInv, TypeOK
  <2> QED
    BY <2>1, <2>3 DEF Enable, supplyVars, accountVars, IInv, TypeOK
<1>4. VestedOf(r)' >= VestedOf(r)
  <2>1. VestedOf(r) = Vested(initial_locked[r], disabled_at[r])
    BY <1>1 DEF VestedOf, VestingTime
  <2>2. VestedOf(r)' = Vested(initial_locked[r], now)
    BY <1>2 DEF Enable, accountVars, VestedOf, VestingTime
  <2>3. VestedOf(r) <= VestedOf(r)'
    BY <1>1, <2>1, <2>2, VestedMonotone, SMT
  <2>4. VestedOf(r) \in 0..initial_locked[r] /\ VestedOf(r)' \in 0..(initial_locked'[r])
    BY <1>3, VestedOfType, VestedOfTypeNext DEF IInv
  <2> QED
    BY <2>3, <2>4, SMT
<1>5. AccountOK(r)'
  <2>1. total_claimed[r] <= VestedOf(r) /\ total_claimed[r] \in Nat
    BY DEF IInv, WithinAllocation, TypeOK
  <2>2. /\ total_claimed'[r] = total_claimed[r]
        /\ initial_locked'[r] = initial_locked[r]
        /\ disabled_rugged'[r] = disabled_rugged[r]
    BY DEF Enable, accountVars
  <2>3. Rugged(r)' = 0
    BY <1>1, <2>2 DEF Rugged
  <2>4. VestedOf(r) \in 0..initial_locked[r] /\ VestedOf(r)' \in 0..(initial_locked'[r])
    BY <1>3, VestedOfType, VestedOfTypeNext DEF IInv
  <2>5. total_claimed'[r] <= VestedOf(r)'
    BY <1>1, <1>4, <2>1, <2>2, <2>4, SMT
  <2>6. VestedOf(r)' + Rugged(r)' <= initial_locked'[r]
    BY <1>1, <2>2, <2>3, <2>4, SMT
  <2> QED
    BY <1>1, <1>2, <2>2, <2>5, <2>6 DEF AccountOK
<1>6. ASSUME NEW a \in Accounts, a # r
      PROVE  AccountOK(a)' /\ VestedOf(a)' >= VestedOf(a)
  <2>1. disabled_at'[a] = disabled_at[a] /\ disabled_amounts'[a] = disabled_amounts[a]
    BY <1>6 DEF Enable, IInv, TypeOK
  <2> QED
    BY <2>1, UntouchedAccount DEF Enable, accountVars
<1>7. \A a \in Accounts : AccountOK(a)' /\ VestedOf(a)' >= VestedOf(a)
  BY <1>4, <1>5, <1>6
<1> QED
  BY <1>3, <1>7, AccountByAccount

(* Only what is frozen is taken, and what has vested is not frozen. *)
LEMMA RugKeepsAccounts ==
    ASSUME IInv, NEW r \in Accounts, RugDisabled(r)
    PROVE  IInv' /\ \A a \in Accounts : VestedOf(a)' >= VestedOf(a)
<1>1. disabled_amounts[r] \in Nat /\ disabled_amounts[r] <= balance
  BY DEF RugDisabled, IInv, TypeOK
<1>2. TypeOK'
  <2>1. balance' \in Nat
    BY <1>1, SMT DEF RugDisabled, IInv, TypeOK
  <2>2. disabled_rugged' \in [Accounts -> BOOLEAN]
    BY DEF RugDisabled, IInv, TypeOK
  <2> QED
    BY <2>1, <2>2 DEF RugDisabled, accountVars, IInv, TypeOK
<1>3. VestedOf(r)' = VestedOf(r) /\ VestedOf(r) \in 0..initial_locked[r]
  BY VestedOfType DEF RugDisabled, accountVars, VestedOf, VestingTime, IInv
<1>4. disabled_amounts[r] = initial_locked[r] - VestedOf(r) /\ disabled_at[r] # 0
  BY DEF RugDisabled, MayRug, IInv, FrozenIsUnvested
<1>5. Rugged(r)' = 0 \/ Rugged(r)' = disabled_amounts[r]
  BY DEF RugDisabled, Rugged
<1>6. AccountOK(r)' /\ VestedOf(r)' >= VestedOf(r)
  <2>1. initial_locked[r] \in Nat /\ total_claimed[r] <= VestedOf(r)
    BY DEF IInv, WithinAllocation, TypeOK
  <2>2. /\ total_claimed'[r] = total_claimed[r]
        /\ initial_locked'[r] = initial_locked[r]
        /\ disabled_at'[r] = disabled_at[r]
        /\ disabled_amounts'[r] = disabled_amounts[r]
    BY DEF RugDisabled, accountVars
  <2>3. VestedOf(r)' + Rugged(r)' <= initial_locked[r]
    BY <1>3, <1>4, <1>5, <2>1, SMT
  <2>4. AccountOK(r)'
    BY <1>3, <1>4, <2>1, <2>2, <2>3 DEF AccountOK
  <2> QED
    BY <1>3, <2>4, SMT
<1>7. ASSUME NEW a \in Accounts, a # r
      PROVE  AccountOK(a)' /\ VestedOf(a)' >= VestedOf(a)
  <2>1. disabled_rugged'[a] = disabled_rugged[a]
    BY <1>7 DEF RugDisabled, IInv, TypeOK
  <2> QED
    BY <2>1, UntouchedAccount DEF RugDisabled, accountVars
<1>8. \A a \in Accounts : AccountOK(a)' /\ VestedOf(a)' >= VestedOf(a)
  BY <1>6, <1>7
<1> QED
  BY <1>2, <1>8, AccountByAccount

(* A claim takes an account to what has vested for it. *)
LEMMA ClaimKeepsAccounts ==
    ASSUME IInv, NEW r \in Accounts, Claim(r)
    PROVE  IInv' /\ \A a \in Accounts : VestedOf(a)' >= VestedOf(a)
<1>1. VestedOf(r) \in Nat /\ total_claimed[r] \in Nat /\ initial_locked[r] \in Nat
  <2>1. VestedOf(r) \in 0..initial_locked[r]
    BY VestedOfType DEF IInv
  <2> QED
    BY <2>1, SMT DEF IInv, TypeOK
<1>2. total_claimed'[r] = VestedOf(r)
  BY <1>1, SMT DEF Claim, IInv, TypeOK
<1>3. TypeOK'
  <2>1. balance' \in Nat
    BY <1>1, SMT DEF Claim, IInv, TypeOK
  <2>2. total_claimed[r] + (VestedOf(r) - total_claimed[r]) \in Nat
    BY <1>1, SMT
  <2>3. total_claimed' \in [Accounts -> Nat]
    BY <2>2 DEF Claim, IInv, TypeOK
  <2> QED
    BY <2>1, <2>3 DEF Claim, disableVars, IInv, TypeOK
<1>4. VestedOf(r)' = VestedOf(r) /\ Rugged(r)' = Rugged(r)
  BY DEF Claim, disableVars, VestedOf, VestingTime, Rugged
<1>5. AccountOK(r)' /\ VestedOf(r)' >= VestedOf(r)
  <2>1. /\ VestedOf(r) + Rugged(r) <= initial_locked[r]
        /\ IF disabled_at[r] = 0
           THEN disabled_amounts[r] = 0 /\ ~disabled_rugged[r]
           ELSE disabled_amounts[r] = initial_locked[r] - VestedOf(r)
    BY DEF IInv, WithinAllocation, FrozenIsUnvested
  <2>2. total_claimed'[r] <= VestedOf(r)' /\ VestedOf(r)' >= VestedOf(r)
    BY <1>1, <1>2, <1>4, SMT
  <2> QED
    BY <1>4, <2>1, <2>2 DEF AccountOK, Claim, disableVars
<1>6. ASSUME NEW a \in Accounts, a # r
      PROVE  AccountOK(a)' /\ VestedOf(a)' >= VestedOf(a)
  <2>1. total_claimed'[a] = total_claimed[a]
    BY <1>6 DEF Claim, IInv, TypeOK
  <2> QED
    BY <2>1, UntouchedAccount DEF Claim, disableVars
<1>7. \A a \in Accounts : AccountOK(a)' /\ VestedOf(a)' >= VestedOf(a)
  BY <1>5, <1>6
<1> QED
  BY <1>3, <1>7, AccountByAccount

(* As time passes enabled accounts vest and disabled ones do not. *)
LEMMA TickKeepsAccounts ==
    ASSUME IInv, Tick
    PROVE  IInv' /\ \A a \in Accounts : VestedOf(a)' >= VestedOf(a)
<1>1. /\ UNCHANGED <<accountVars, disableVars>>
      /\ now \in Nat /\ now' \in Nat /\ now <= now' /\ now' \in StartTime..MaxTime
  BY PeriodType, SMT DEF Tick, IInv, TypeOK
<1>2. TypeOK'
  <2>1. 0..now \subseteq 0..now'
    BY <1>1, SMT
  <2>2. disabled_at' \in [Accounts -> 0..now']
    BY <1>1, <2>1 DEF disableVars, IInv, TypeOK
  <2> QED
    BY <1>1, <2>2 DEF Tick, supplyVars, accountVars, disableVars, IInv, TypeOK
<1>3. ASSUME NEW a \in Accounts PROVE AccountOK(a)' /\ VestedOf(a)' >= VestedOf(a)
  <2>1. /\ initial_locked[a] \in Nat /\ total_claimed[a] \in Nat
        /\ total_claimed[a] <= VestedOf(a)
        /\ VestedOf(a) + Rugged(a) <= initial_locked[a]
    BY DEF IInv, WithinAllocation, TypeOK
  <2>2. VestedOf(a) \in 0..initial_locked[a] /\ VestedOf(a)' \in 0..(initial_locked'[a])
    BY <1>2, VestedOfType, VestedOfTypeNext DEF IInv
  <2>3. CASE disabled_at[a] = 0
    <3>1. VestedOf(a) = Vested(initial_locked[a], now) /\ VestedOf(a)' = Vested(initial_locked[a], now')
      BY <1>1, <2>3 DEF VestedOf, VestingTime, accountVars, disableVars
    <3>2. VestedOf(a) <= VestedOf(a)'
      BY <1>1, <2>1, <3>1, VestedMonotone, SMT
    <3>3. disabled_amounts[a] = 0 /\ ~disabled_rugged[a]
      BY <2>3 DEF IInv, FrozenIsUnvested
    <3>4. Rugged(a)' = 0
      BY <1>1, <3>3 DEF Rugged, disableVars
    <3>5. /\ total_claimed'[a] <= VestedOf(a)'
          /\ VestedOf(a)' + Rugged(a)' <= initial_locked'[a]
          /\ VestedOf(a)' >= VestedOf(a)
      BY <1>1, <2>1, <2>2, <3>2, <3>4, SMT DEF accountVars
    <3> QED
      BY <1>1, <2>3, <3>3, <3>5 DEF AccountOK, disableVars
  <2>4. CASE disabled_at[a] # 0
    <3>1. VestedOf(a)' = VestedOf(a) /\ Rugged(a)' = Rugged(a)
      BY <1>1, <2>4 DEF VestedOf, VestingTime, Rugged, accountVars, disableVars
    <3>2. disabled_amounts[a] = initial_locked[a] - VestedOf(a)
      BY <2>4 DEF IInv, FrozenIsUnvested
    <3>3. VestedOf(a)' >= VestedOf(a)
      BY <2>2, <3>1, SMT
    <3> QED
      BY <1>1, <2>1, <2>4, <3>1, <3>2, <3>3 DEF AccountOK, accountVars, disableVars
  <2> QED
    BY <2>3, <2>4
<1> QED
  BY <1>2, <1>3, AccountByAccount

(* One step of the contract, or none. *)
LEMMA NextKeepsAccounts ==
    IInv /\ [Next]_vars => IInv' /\ \A a \in Accounts : VestedOf(a)' >= VestedOf(a)
<1> SUFFICES ASSUME IInv, [Next]_vars
             PROVE  IInv' /\ \A a \in Accounts : VestedOf(a)' >= VestedOf(a)
  OBVIOUS
<1>1. CASE (\E amount \in Amounts : AddTokens(amount)) \/ DisableCanDisable \/ UNCHANGED vars
  BY <1>1, OthersKeepAccounts
<1>2. CASE \E r \in Accounts, amount \in Amounts, c \in BOOLEAN : Fund(r, amount, c)
  BY <1>2, FundKeepsAccounts
<1>3. CASE \E r \in Accounts : Disable(r) \/ Enable(r) \/ RugDisabled(r) \/ Claim(r)
  BY <1>3, DisableKeepsAccounts, EnableKeepsAccounts, RugKeepsAccounts, ClaimKeepsAccounts
<1>4. CASE Tick
  BY <1>4, TickKeepsAccounts
<1> QED
  BY <1>1, <1>2, <1>3, <1>4 DEF Next

(* The induction hypothesis holds always. *)
LEMMA AccountsKept == Spec => []IInv
<1>1. IInv /\ [Next]_vars => IInv'
  BY NextKeepsAccounts
<1> QED
  BY <1>1, InitKeepsAccounts, PTL DEF Spec

-----------------------------------------------------------------------------
(***************************************************************************)
(* What the contract holds                                                 *)
(***************************************************************************)
\* What the contract still owes to every account.
Owes == [r \in Accounts |-> initial_locked[r] - total_claimed[r] - Rugged(r)]

(* The contract never owes less than nothing. *)
LEMMA OwesType ==
    ASSUME IInv
    PROVE  Owes \in [Accounts -> Nat]
<1> SUFFICES ASSUME NEW r \in Accounts
             PROVE  initial_locked[r] - total_claimed[r] - Rugged(r) \in Nat
  BY DEF Owes
<1>1. VestedOf(r) \in 0..initial_locked[r]
  BY VestedOfType DEF IInv
<1>2. /\ total_claimed[r] <= VestedOf(r) /\ VestedOf(r) + Rugged(r) <= initial_locked[r]
      /\ initial_locked[r] \in Nat /\ total_claimed[r] \in Nat /\ disabled_amounts[r] \in Nat
  BY DEF IInv, TypeOK, WithinAllocation
<1>3. Rugged(r) \in Nat
  BY <1>2 DEF Rugged
<1> QED
  BY <1>1, <1>2, <1>3, SMT

(* The same after a step. *)
LEMMA OwesTypeNext ==
    ASSUME IInv'
    PROVE  Owes' \in [Accounts -> Nat]
<1> SUFFICES ASSUME NEW r \in Accounts
             PROVE  initial_locked'[r] - total_claimed'[r] - Rugged(r)' \in Nat
  BY DEF Owes
<1>1. VestedOf(r)' \in 0..(initial_locked'[r])
  BY VestedOfTypeNext DEF IInv
<1>2. /\ total_claimed'[r] <= VestedOf(r)' /\ VestedOf(r)' + Rugged(r)' <= initial_locked'[r]
      /\ initial_locked'[r] \in Nat /\ total_claimed'[r] \in Nat /\ disabled_amounts'[r] \in Nat
  BY DEF IInv, TypeOK, WithinAllocation
<1>3. Rugged(r)' \in Nat
  BY <1>2 DEF Rugged
<1> QED
  BY <1>1, <1>2, <1>3, SMT

(* There are finitely many accounts. *)
LEMMA AccountsFinite == IsFiniteSet(Accounts)
  BY VestingAssumption, FS_Union DEF Accounts

(* A step that only touches what is owed to one account. *)
LEMMA OneAccount ==
    ASSUME IInv, IInv', NEW r \in Accounts,
           \A a \in Accounts \ {r} : /\ initial_locked'[a] = initial_locked[a]
                                     /\ total_claimed'[a] = total_claimed[a]
                                     /\ Rugged(a)' = Rugged(a)
    PROVE  Total(Owes)' = Total(Owes) - (initial_locked[r] - total_claimed[r] - Rugged(r))
                            + (initial_locked'[r] - total_claimed'[r] - Rugged(r)')
<1>1. \A a \in Accounts \ {r} : Owes'[a] = Owes[a]
  BY DEF Owes
<1>2. /\ Owes[r] = initial_locked[r] - total_claimed[r] - Rugged(r)
      /\ Owes'[r] = initial_locked'[r] - total_claimed'[r] - Rugged(r)'
  BY DEF Owes
<1>3. Owes \in [Accounts -> Nat] /\ Owes' \in [Accounts -> Nat]
  BY OwesType, OwesTypeNext
<1> HIDE DEF Owes
<1>4. Total(Owes') = Total(Owes) - Owes[r] + Owes'[r]
  BY <1>1, <1>3, AccountsFinite, TotalUpdate
<1> QED
  BY <1>2, <1>4

(* A step that touches what is owed to no account. *)
LEMMA NoAccount ==
    ASSUME IInv, UNCHANGED <<initial_locked, total_claimed>>,
           \A a \in Accounts : Rugged(a)' = Rugged(a)
    PROVE  Total(Owes)' = Total(Owes)
<1>1. Owes' = Owes
  BY DEF Owes
<1> QED
  BY <1>1

(* Tokens come in with what is not allocated, and leave with what is owed. *)
LEMMA NextKeepsBalance ==
    ASSUME IInv, IInv', [Next]_vars, Solvent
    PROVE  Solvent'
<1> DEFINE t == Total(Owes)
<1>1. Solvent <=> balance = unallocated_supply + t
  BY DEF Solvent, Owes
<1>2. Solvent' <=> balance' = unallocated_supply' + t'
  BY DEF Solvent, Owes
<1>3. /\ balance \in Nat /\ unallocated_supply \in Nat /\ t \in Nat
      /\ \A r \in Accounts : /\ initial_locked[r] \in Nat /\ total_claimed[r] \in Nat
                             /\ disabled_amounts[r] \in Nat
                             /\ VestedOf(r) \in 0..initial_locked[r]
  BY OwesType, AccountsFinite, TotalType, VestedOfType DEF IInv, TypeOK
<1>4. \A r \in Accounts : Rugged(r) \in Nat
  BY <1>3 DEF Rugged
<1> SUFFICES balance' = unallocated_supply' + t'
  BY <1>2
<1> USE DEF supplyVars, accountVars, disableVars
<1>5. ASSUME NEW amount \in Amounts, AddTokens(amount) PROVE balance' = unallocated_supply' + t'
  <2>1. t' = t
    BY <1>5, NoAccount DEF AddTokens, Rugged
  <2>2. amount \in Nat
    BY VestingAssumption
  <2> HIDE DEF t
  <2> QED
    BY <1>1, <1>3, <1>5, <2>1, <2>2, SMT DEF AddTokens
<1>6. ASSUME NEW r \in Accounts, NEW amount \in Amounts, NEW c \in BOOLEAN, Fund(r, amount, c)
      PROVE  balance' = unallocated_supply' + t'
  <2> DEFINE f == IF c THEN CliffOf[r] ELSE r
  <2>1. f \in Accounts /\ amount \in Nat
    BY <1>6, VestingAssumption DEF Fund, Accounts
  <2>2. /\ initial_locked' = [initial_locked EXCEPT ![f] = @ + amount]
        /\ unallocated_supply' = unallocated_supply - amount
        /\ UNCHANGED <<balance, total_claimed, disableVars>>
    BY <1>6 DEF Fund
  <2> HIDE DEF f
  <2>3. \A a \in Accounts : Rugged(a)' = Rugged(a)
    BY <2>2 DEF Rugged
  <2>4. /\ initial_locked'[f] = initial_locked[f] + amount
        /\ \A a \in Accounts \ {f} : initial_locked'[a] = initial_locked[a]
    BY <2>1, <2>2 DEF IInv, TypeOK
  <2>5. t' = t - (initial_locked[f] - total_claimed[f] - Rugged(f))
               + (initial_locked'[f] - total_claimed'[f] - Rugged(f)')
    BY <2>1, <2>2, <2>3, <2>4, OneAccount
  <2>6. t' = t + amount
    <3> HIDE DEF t
    <3> QED
      BY <1>3, <1>4, <2>1, <2>2, <2>3, <2>4, <2>5, SMT
  <2> HIDE DEF t
  <2> QED
    BY <1>1, <1>3, <2>1, <2>2, <2>6, SMT
<1>7. ASSUME NEW r \in Accounts, Disable(r) PROVE balance' = unallocated_supply' + t'
  <2>1. ~disabled_rugged[r] /\ ~disabled_rugged'[r]
    BY <1>7 DEF Disable
  <2>2. \A a \in Accounts \ {r} : disabled_amounts'[a] = disabled_amounts[a]
    BY <1>7 DEF Disable, IInv, TypeOK
  <2>3. \A a \in Accounts : Rugged(a)' = Rugged(a)
    BY <1>7, <2>1, <2>2 DEF Rugged, Disable
  <2>4. t' = t
    BY <1>7, <2>3, NoAccount DEF Disable
  <2> QED
    BY <1>1, <1>7, <2>4 DEF Disable
<1>8. ASSUME NEW r \in Accounts, Enable(r) PROVE balance' = unallocated_supply' + t'
  <2>1. ~disabled_rugged[r] /\ ~disabled_rugged'[r]
    BY <1>8 DEF Enable, MayEnable
  <2>2. \A a \in Accounts \ {r} : disabled_amounts'[a] = disabled_amounts[a]
    BY <1>8 DEF Enable, IInv, TypeOK
  <2>3. \A a \in Accounts : Rugged(a)' = Rugged(a)
    BY <1>8, <2>1, <2>2 DEF Rugged, Enable
  <2>4. t' = t
    BY <1>8, <2>3, NoAccount DEF Enable
  <2> QED
    BY <1>1, <1>8, <2>4 DEF Enable
<1>9. ASSUME NEW r \in Accounts, RugDisabled(r) PROVE balance' = unallocated_supply' + t'
  <2>1. /\ disabled_amounts[r] <= balance
        /\ balance' = balance - disabled_amounts[r]
        /\ UNCHANGED <<unallocated_supply, initial_locked, total_claimed, disabled_amounts>>
        /\ disabled_rugged' = [disabled_rugged EXCEPT ![r] = @ \/ disabled_amounts[r] > 0]
    BY <1>9 DEF RugDisabled
  <2>2. \A a \in Accounts \ {r} : Rugged(a)' = Rugged(a)
    BY <2>1 DEF Rugged, IInv, TypeOK
  <2>3. Rugged(r) = 0
    BY <1>9 DEF Rugged, RugDisabled, MayRug
  <2>4. disabled_rugged'[r] <=> disabled_amounts[r] > 0
    BY <1>9, <2>1 DEF RugDisabled, MayRug, IInv, TypeOK
  <2>5. Rugged(r)' = disabled_amounts[r]
    BY <1>3, <2>1, <2>4, SMT DEF Rugged
  <2>6. t' = t - (initial_locked[r] - total_claimed[r] - Rugged(r))
               + (initial_locked'[r] - total_claimed'[r] - Rugged(r)')
    BY <2>1, <2>2, OneAccount
  <2>7. t' = t - disabled_amounts[r]
    <3> HIDE DEF t
    <3> QED
      BY <1>3, <2>1, <2>3, <2>5, <2>6, SMT
  <2> HIDE DEF t
  <2> QED
    BY <1>1, <1>3, <2>1, <2>7, SMT
<1>10. ASSUME NEW r \in Accounts, Claim(r) PROVE balance' = unallocated_supply' + t'
  <2> DEFINE claimable == VestedOf(r) - total_claimed[r]
  <2>1. /\ claimable <= balance
        /\ total_claimed' = [total_claimed EXCEPT ![r] = @ + claimable]
        /\ balance' = balance - claimable
        /\ UNCHANGED <<unallocated_supply, initial_locked, disableVars>>
    BY <1>10 DEF Claim
  <2>2. claimable \in Int
    BY <1>3, SMT
  <2> HIDE DEF claimable
  <2>3. \A a \in Accounts : Rugged(a)' = Rugged(a)
    BY <2>1 DEF Rugged
  <2>4. /\ total_claimed'[r] = total_claimed[r] + claimable
        /\ \A a \in Accounts \ {r} : total_claimed'[a] = total_claimed[a]
    BY <2>1 DEF IInv, TypeOK
  <2>5. t' = t - (initial_locked[r] - total_claimed[r] - Rugged(r))
               + (initial_locked'[r] - total_claimed'[r] - Rugged(r)')
    BY <2>1, <2>3, <2>4, OneAccount
  <2>6. t' = t - claimable
    <3> HIDE DEF t
    <3> QED
      BY <1>3, <1>4, <2>1, <2>2, <2>3, <2>4, <2>5, SMT
  <2> HIDE DEF t
  <2> QED
    BY <1>1, <1>3, <2>1, <2>2, <2>6, SMT
<1>11. CASE DisableCanDisable \/ Tick \/ UNCHANGED vars
  <2>1. UNCHANGED <<balance, unallocated_supply, initial_locked, total_claimed,
                    disabled_amounts, disabled_rugged>>
    BY <1>11 DEF DisableCanDisable, Tick, vars
  <2>2. t' = t
    BY <2>1, NoAccount DEF Rugged
  <2> QED
    BY <1>1, <2>1, <2>2
<1> HIDE DEF t
<1> QED
  BY <1>5, <1>6, <1>7, <1>8, <1>9, <1>10, <1>11 DEF Next

(* The contract starts with nothing, which it owes to nobody. *)
LEMMA InitIsSolvent == Init => Solvent
<1> SUFFICES ASSUME Init PROVE Solvent
  OBVIOUS
<1>1. Owes = [r \in Accounts |-> 0]
  BY SMT DEF Init, Rugged, Owes
<1>2. Owes \in [Accounts -> Nat] /\ \A r \in Accounts : Owes[r] = 0
  BY <1>1
<1>3. Total(Owes) = 0
  BY <1>2, AccountsFinite, TotalZero
<1> QED
  BY <1>3 DEF Init, Solvent, Owes

-----------------------------------------------------------------------------
(***************************************************************************)
(* Theorems                                                                *)
(***************************************************************************)

(* No supply, allocation, claim or frozen amount ever underflows. *)
THEOREM TypeCorrect == Spec => []TypeOK
<1>1. IInv => TypeOK
  BY DEF IInv
<1> QED
  BY <1>1, AccountsKept, PTL

(* No account gets more than has vested for it, and what it gets and what is
   taken from it is within what it was given. *)
THEOREM AccountsStayWithinAllocation == Spec => []WithinAllocation
<1>1. IInv => WithinAllocation
  BY DEF IInv
<1> QED
  BY <1>1, AccountsKept, PTL

(* The tokens in the contract are those that are not allocated and those that
   are owed to the accounts, to the last one: whatever is funded, claimed,
   frozen or taken, for however many accounts. *)
THEOREM EscrowStaysSolvent == Spec => []Solvent
<1>1. IInv /\ IInv' /\ [Next]_vars /\ Solvent => Solvent'
  BY NextKeepsBalance
<1> QED
  BY <1>1, InitIsSolvent, AccountsKept, PTL DEF Spec

(* What has vested stays vested, whatever the owner does. *)
THEOREM VestedTokensStay == Spec => VestedStaysVested
<1>1. IInv /\ [Next]_vars => [\A r \in Accounts : VestedOf(r)' >= VestedOf(r)]_vars
  BY NextKeepsAccounts
<1> QED
  BY <1>1, AccountsKept, PTL DEF Spec, VestedStaysVested

-----------------------------------------------------------------------------
(***************************************************************************)
(* The votes about markets, gauges and fees                                *)
(***************************************************************************)
\* Accounts and votes may be of any kind.
ListedProposals ==
    \E W : proposals \in Seq([by : W, vote : W, status : Statuses])

Listed(s) == \E S : s \in Seq(S)

\* A script finds a market's LT or gauge, or takes the zero address for it.
Known(p) == p = Zero \/ Exists(p)

\* What the script that creates a vote read, or checked, and nothing undoes.
MarketVoteOK(v) ==
    /\ v.kind = "direct" => Listed(v.pools)
    /\ v.kind \in {"owner", "v3", "fees_on"} => v.owner # DAO
    /\ v.kind = "stage1" => v.lt \in {Zero, FeePlace}
    /\ v.kind = "gauges" => Listed(v.gauges) /\ \A g \in ToSet(v.gauges) : Known(g)
    /\ v.kind = "tokens" => \A t \in v.tokens : t \in Zero .. 3 * N + 2 => Known(t)

MarketVotesOK == \A i \in 1 .. Len(proposals) : MarketVoteOK(proposals[i].vote)

\* The DAO sends the fees to the FeeDistributor through an owner contract, and
\* is not the admin again.
FeesThroughOwner ==
    /\ admin \in Nat
    /\ receiver = "FeeDistributor" => admin # DAO
    /\ feesOn => receiver = "FeeDistributor"

MarketInv ==
    /\ ListedProposals /\ Listed(markets) /\ Listed(gauges)
    /\ MarketVotesOK
    /\ FeesThroughOwner
    /\ NothingRegisteredAhead
    /\ NoFeesLeftBehind

(***************************************************************************)
(* Sequences of anything                                                   *)
(***************************************************************************)
(* A sequence has a length, whatever it is of. *)
LEMMA ListedLen ==
    ASSUME NEW s, Listed(s)
    PROVE  Len(s) \in Nat /\ DOMAIN s = 1 .. Len(s)
  BY DEF Listed

(* Concatenation keeps what was there, and its place. *)
LEMMA ListedConcat ==
    ASSUME NEW s, NEW t, Listed(s), Listed(t)
    PROVE  /\ Listed(s \o t) /\ DOMAIN s \subseteq DOMAIN (s \o t)
           /\ ToSet(s \o t) = ToSet(s) \cup ToSet(t)
<1>1. PICK S, T : s \in Seq(S) /\ t \in Seq(T)
  BY DEF Listed
<1>2. s \in Seq(S \cup T) /\ t \in Seq(S \cup T)
  BY <1>1, SeqMonotonic
<1>3. /\ s \o t \in Seq(S \cup T)
      /\ Len(s \o t) = Len(s) + Len(t) /\ Len(s) \in Nat /\ Len(t) \in Nat
      /\ \A i \in 1 .. Len(s) + Len(t) : (s \o t)[i] = IF i <= Len(s) THEN s[i] ELSE t[i - Len(s)]
  BY <1>2, ConcatProperties
<1>4. DOMAIN s = 1 .. Len(s) /\ DOMAIN t = 1 .. Len(t) /\ DOMAIN (s \o t) = 1 .. Len(s) + Len(t)
  BY <1>2, <1>3
<1>5. ASSUME NEW e \in ToSet(s \o t) PROVE e \in ToSet(s) \cup ToSet(t)
  <2>1. PICK i \in 1 .. Len(s) + Len(t) : e = (s \o t)[i]
    BY <1>4 DEF ToSet
  <2>2. CASE i <= Len(s)
    BY <1>3, <1>4, <2>1, <2>2 DEF ToSet
  <2>3. CASE ~(i <= Len(s))
    <3>1. i - Len(s) \in 1 .. Len(t) /\ e = t[i - Len(s)]
      BY <1>3, <2>1, <2>3
    <3> QED
      BY <1>4, <3>1 DEF ToSet
  <2> QED
    BY <2>2, <2>3
<1>6. ASSUME NEW e \in ToSet(s) PROVE e \in ToSet(s \o t)
  <2>1. PICK i \in 1 .. Len(s) : e = s[i]
    BY <1>4 DEF ToSet
  <2>2. i \in 1 .. Len(s) + Len(t) /\ e = (s \o t)[i]
    BY <1>3, <2>1
  <2> QED
    BY <1>4, <2>2 DEF ToSet
<1>7. ASSUME NEW e \in ToSet(t) PROVE e \in ToSet(s \o t)
  <2>1. PICK i \in 1 .. Len(t) : e = t[i]
    BY <1>4 DEF ToSet
  <2>2. /\ i + Len(s) \in 1 .. Len(s) + Len(t) /\ ~(i + Len(s) <= Len(s))
        /\ (i + Len(s)) - Len(s) = i
    BY <1>3
  <2>3. e = (s \o t)[i + Len(s)]
    BY <1>3, <2>1, <2>2
  <2> QED
    BY <1>4, <2>2, <2>3 DEF ToSet
<1> QED
  BY <1>3, <1>4, <1>5, <1>6, <1>7 DEF Listed

(* A table over an interval from 1 is a sequence. *)
LEMMA ListedTable ==
    ASSUME NEW n \in Nat, NEW s, DOMAIN s = 1 .. n, s = [i \in 1 .. n |-> s[i]]
    PROVE  Listed(s)
<1>1. s \in [1 .. n -> {s[i] : i \in 1 .. n}]
  OBVIOUS
<1>2. s \in Seq({s[i] : i \in 1 .. n})
  BY <1>1
<1> QED
  BY <1>2 DEF Listed

(***************************************************************************)
(* Proposals                                                               *)
(***************************************************************************)
(* The proposal that is executed is marked, and none changes what it says. *)
LEMMA MarketMarked ==
    ASSUME ListedProposals, NEW i \in DOMAIN proposals, PassAndMarkExecuted(i)
    PROVE  /\ ListedProposals' /\ Len(proposals') = Len(proposals)
           /\ \A j \in 1 .. Len(proposals) : proposals'[j].vote = proposals[j].vote
<1>1. PICK W : proposals \in Seq([by : W, vote : W, status : Statuses])
  BY DEF ListedProposals
<1> DEFINE R == [by : W, vote : W, status : Statuses]
<1> DEFINE p == [proposals[i] EXCEPT !.status = "executed"]
<1>2. proposals \in Seq(R) /\ proposals[i] \in R
  <2>1. proposals \in Seq(R)
    BY <1>1
  <2> HIDE DEF R
  <2> QED
    BY <2>1
<1>3. p \in R /\ p.vote = proposals[i].vote
  BY <1>2 DEF Statuses
<1>4. proposals' = [proposals EXCEPT ![i] = p]
  BY DEF PassAndMarkExecuted
<1> HIDE DEF p
<1>5. /\ proposals' \in Seq(R) /\ Len(proposals') = Len(proposals)
      /\ \A j \in 1 .. Len(proposals) : proposals'[j].vote = proposals[j].vote
  <2> HIDE DEF R
  <2> QED
    BY <1>2, <1>3, <1>4
<1> QED
  BY <1>5 DEF ListedProposals

\* What a script adds, with accounts and votes from a set.
NewProposals(V) == [by : V, vote : V, status : {"open"}]

(* Nothing that a vote says becomes wrong while markets are added. *)
LEMMA MarketVoteKept ==
    ASSUME DOMAIN markets \subseteq DOMAIN markets', NEW v, MarketVoteOK(v)
    PROVE  MarketVoteOK(v)'
  BY DEF MarketVoteOK, Known, Exists

(* So the votes stay as they were when they were created. *)
LEMMA MarketVotesKept ==
    ASSUME MarketVotesOK, ListedProposals, DOMAIN markets \subseteq DOMAIN markets',
           Len(proposals') = Len(proposals),
           \A j \in 1 .. Len(proposals) : proposals'[j].vote = proposals[j].vote
    PROVE  MarketVotesOK'
<1>1. ASSUME NEW i \in 1 .. Len(proposals) PROVE MarketVoteOK(proposals[i].vote)'
  <2>1. PICK v : v = proposals[i].vote
    OBVIOUS
  <2>2. MarketVoteOK(v)'
    <3>1. MarketVoteOK(v)
      BY <2>1, Zenon DEF MarketVotesOK
    <3> QED
      BY <3>1, MarketVoteKept
  <2>3. v = proposals'[i].vote
    BY <2>1
  <2> QED
    BY <2>2, <2>3, Zenon DEF MarketVoteOK
<1> QED
  BY <1>1 DEF MarketVotesOK

(* The launch, and the chain as the scripts of the fees and of v3 found it. *)
LEMMA MarketsStart ==
    ASSUME VotingInit, treasury = {}, feesOn = FALSE, Launch \/ BeforeFees \/ BeforeV3
    PROVE  MarketInv
<1>1. ListedProposals /\ MarketVotesOK
  <2>1. proposals \in Seq([by : {}, vote : {}, status : Statuses]) /\ Len(proposals) = 0
    BY DEF VotingInit
  <2>2. ListedProposals
    BY <2>1, Zenon DEF ListedProposals
  <2> QED
    BY <2>1, <2>2 DEF MarketVotesOK
<1>2. NoFeesLeftBehind
  BY DEF NoFeesLeftBehind
<1>3. FeesThroughOwner
  BY DEF FeesThroughOwner, Launch, BeforeFees, BeforeV3, DAO
<1>4. CASE Launch
  <2>1. markets \in Seq({}) /\ gauges \in Seq({}) /\ ToSet(gauges) = {} /\ tokenSet = {}
    BY <1>4 DEF Launch, ToSet
  <2> QED
    BY <1>1, <1>2, <1>3, <2>1 DEF MarketInv, Listed, NothingRegisteredAhead
<1>5. ASSUME NEW n \in Nat, n >= 3, markets = Made(1 .. n), gauges = [p \in FirstPlaces |-> p],
             tokenSet \subseteq 1 .. n
      PROVE  MarketInv
  <2>1. DOMAIN markets = 1 .. n /\ markets = [p \in 1 .. n |-> markets[p]]
    BY <1>5 DEF Made
  <2>2. Listed(markets)
    BY <2>1, ListedTable
  <2>3. DOMAIN gauges = 1 .. 3 /\ gauges = [i \in 1 .. 3 |-> gauges[i]] /\ ToSet(gauges) \subseteq 1 .. n
    BY <1>5 DEF FirstPlaces, N, ToSet
  <2>4. Listed(gauges)
    BY <2>3, ListedTable
  <2>5. NothingRegisteredAhead
    BY <1>5, <2>1, <2>3 DEF NothingRegisteredAhead, Exists
  <2> QED
    BY <1>1, <1>2, <1>3, <2>2, <2>4, <2>5 DEF MarketInv
<1>6. CASE BeforeFees
  <2>1. PICK n \in Nat : n = 6
    OBVIOUS
  <2>2. n >= 3 /\ markets = Made(1 .. n) /\ tokenSet \subseteq 1 .. n
    BY <1>6, <2>1 DEF BeforeFees, N
  <2> QED
    BY <1>5, <1>6, <2>2, Zenon DEF BeforeFees
<1>7. CASE BeforeV3
  <2>1. PICK n \in Nat : n = 7
    OBVIOUS
  <2>2. n >= 3 /\ markets = Made(1 .. n) /\ tokenSet \subseteq 1 .. n
    BY <1>7, <2>1 DEF BeforeV3, N, WETHPlace, SecondPlaces
  <2> QED
    BY <1>5, <1>7, <2>2, Zenon DEF BeforeV3
<1> QED
  BY <1>4, <1>6, <1>7

(***************************************************************************)
(* The scripts                                                             *)
(***************************************************************************)
(* A script that only creates votes changes nothing else. *)
LEMMA VotesAdded ==
    ASSUME MarketInv, NEW V, NEW new \in Seq(NewProposals(V)),
           proposals' = proposals \o new,
           \A k \in 1 .. Len(new) : MarketVoteOK(new[k].vote),
           UNCHANGED <<factoryVars, feeVars, gaugeVars>>
    PROVE  MarketInv'
<1>1. /\ ListedProposals' /\ Len(proposals) \in Nat
      /\ \A i \in 1 .. Len(proposals) : proposals'[i] = proposals[i]
      /\ \A i \in 1 .. Len(proposals') :
             i \in 1 .. Len(proposals) \/ \E k \in 1 .. Len(new) : proposals'[i] = new[k]
  <2>1. PICK W : proposals \in Seq([by : W, vote : W, status : Statuses])
    BY DEF MarketInv, ListedProposals
  <2> DEFINE R == [by : W \cup V, vote : W \cup V, status : Statuses]
  <2>2. [by : W, vote : W, status : Statuses] \subseteq R /\ NewProposals(V) \subseteq R
    BY DEF Statuses, NewProposals
  <2>3. proposals \in Seq(R) /\ new \in Seq(R)
    <3> HIDE DEF R
    <3> QED
      BY <2>1, <2>2, SeqMonotonic
  <2> HIDE DEF R
  <2>4. /\ proposals' \in Seq(R) /\ Len(proposals) \in Nat /\ Len(new) \in Nat
        /\ Len(proposals') = Len(proposals) + Len(new)
        /\ \A i \in 1 .. Len(proposals) + Len(new) :
               proposals'[i] = IF i <= Len(proposals) THEN proposals[i] ELSE new[i - Len(proposals)]
    BY <2>3, ConcatProperties
  <2>5. \A i \in 1 .. Len(proposals) : proposals'[i] = proposals[i]
    BY <2>4
  <2>6. ASSUME NEW i \in 1 .. Len(proposals'), i \notin 1 .. Len(proposals)
        PROVE  \E k \in 1 .. Len(new) : proposals'[i] = new[k]
    <3>1. i - Len(proposals) \in 1 .. Len(new) /\ proposals'[i] = new[i - Len(proposals)]
      BY <2>4, <2>6
    <3> QED
      BY <3>1
  <2>7. ListedProposals'
    BY <2>4 DEF ListedProposals, R
  <2> QED
    BY <2>4, <2>5, <2>6, <2>7
<1>2. markets' = markets
  BY DEF factoryVars
<1>3. ASSUME NEW i \in 1 .. Len(proposals') PROVE MarketVoteOK(proposals[i].vote)'
  <2>1. PICK v : v = proposals'[i].vote
    OBVIOUS
  <2>2. MarketVoteOK(v)
    <3>1. CASE i \in 1 .. Len(proposals)
      <4>1. v = proposals[i].vote
        BY <1>1, <2>1, <3>1
      <4> QED
        BY <3>1, <4>1, Zenon DEF MarketInv, MarketVotesOK
    <3>2. CASE \E k \in 1 .. Len(new) : proposals'[i] = new[k]
      BY <2>1, <3>2, Zenon
    <3> QED
      BY <1>1, <3>1, <3>2
  <2>3. MarketVoteOK(v)'
    BY <1>2, <2>2, MarketVoteKept
  <2> QED
    BY <2>1, <2>3, Zenon DEF MarketVoteOK
<1>4. MarketVotesOK'
  BY <1>3 DEF MarketVotesOK
<1>5. (Listed(markets) /\ Listed(gauges) /\ FeesThroughOwner)'
  BY DEF MarketInv, Listed, FeesThroughOwner, factoryVars, feeVars, gaugeVars
<1>6. NothingRegisteredAhead' /\ NoFeesLeftBehind'
  BY DEF MarketInv, NothingRegisteredAhead, NoFeesLeftBehind, Exists, ToSet,
         factoryVars, feeVars, gaugeVars
<1> QED
  BY <1>1, <1>4, <1>5, <1>6 DEF MarketInv

(* A script that creates one vote. *)
LEMMA VoteCreated ==
    ASSUME MarketInv, NEW creator, NEW v, MarketVoteOK(v), Create(creator, v)
    PROVE  MarketInv'
<1> DEFINE p == [by |-> creator, vote |-> v, status |-> "open"]
<1> DEFINE V == {creator, v}
<1>1. p \in NewProposals(V) /\ p.vote = v
  BY DEF NewProposals
<1>2. proposals' = Append(proposals, p) /\ UNCHANGED <<factoryVars, feeVars, gaugeVars>>
  BY DEF Create, CreateProposal
<1> HIDE DEF p
<1>3. PICK new : new = <<p>>
  OBVIOUS
<1>4. Len(new) = 1 /\ new[1] = p /\ new \in Seq(NewProposals(V))
  <2> PICK R : R = NewProposals(V)
    OBVIOUS
  <2>1. p \in R
    BY <1>1
  <2>2. <<p>> \in Seq(R) /\ Len(<<p>>) = 1 /\ <<p>>[1] = p
    BY <2>1
  <2> QED
    BY <1>3, <2>2
<1>5. proposals' = proposals \o new
  <2>1. PICK W : proposals \in Seq([by : W, vote : W, status : Statuses])
    BY DEF MarketInv, ListedProposals
  <2> QED
    BY <1>2, <1>3, <2>1
<1>6. \A k \in 1 .. Len(new) : MarketVoteOK(new[k].vote)
  BY <1>1, <1>4
<1> HIDE DEF V
<1> QED
  BY <1>2, <1>4, <1>5, <1>6, VotesAdded

(* The same, with its elements and its length. *)
LEMMA TableSeq ==
    ASSUME NEW n \in Nat, NEW R, NEW s \in [1 .. n -> R]
    PROVE  s \in Seq(R) /\ Len(s) = n
  OBVIOUS

(* A vote with one pool, and what a direct vote needs. *)
LEMMA OnePool ==
    ASSUME NEW a, NEW b
    PROVE  Listed(<<MarketOf(a, b)>>)
<1>1. PICK m : m = MarketOf(a, b)
  OBVIOUS
<1>2. <<m>> \in Seq({m})
  OBVIOUS
<1> QED
  BY <1>1, <1>2 DEF Listed

(* A direct vote is a list of pools. *)
LEMMA DirectOK ==
    ASSUME NEW v, v.kind = "direct", Listed(v.pools)
    PROVE  MarketVoteOK(v)
  BY DEF MarketVoteOK

(* The votes about the first markets, that the DAO makes as the admin. *)
LEMMA MarketScriptsSafe ==
    ASSUME MarketInv, MarketScripts
    PROVE  MarketInv'
<1>1. CASE FirstMarkets
  <2> DEFINE pools == [a \in 1 .. N |-> MarketOf(a, FALSE)]
  <2>1. Listed(pools)
    <3>1. DOMAIN pools = 1 .. 3 /\ pools = [i \in 1 .. 3 |-> pools[i]]
      BY DEF N
    <3> HIDE DEF pools
    <3> QED
      BY <3>1, ListedTable
  <2> HIDE DEF pools
  <2> DEFINE v == [kind |-> "direct", pools |-> pools]
  <2>2. MarketVoteOK(v)
    BY <2>1, DirectOK
  <2>3. Create("yb-deployer-2", v)
    BY <1>1 DEF FirstMarkets, pools
  <2> QED
    BY <2>2, <2>3, VoteCreated
<1>2. ASSUME NEW creator, NEW a, NEW b,
             Create(creator, [kind |-> "direct", pools |-> <<MarketOf(a, b)>>])
      PROVE  MarketInv'
  <2> DEFINE v == [kind |-> "direct", pools |-> <<MarketOf(a, b)>>]
  <2>1. MarketVoteOK(v)
    BY OnePool, DirectOK
  <2> QED
    BY <1>2, <2>1, VoteCreated
<1>3. CASE FirstMarket1 \/ FirstMarket2 \/ FirstMarket3
  BY <1>2, <1>3 DEF FirstMarket1, FirstMarket2, FirstMarket3
<1>4. CASE Stage2_0 \/ Stage2_1 \/ Stage2_2
  BY <1>2, <1>4 DEF Stage2_0, Stage2_1, Stage2_2, Stage2
<1>5. CASE WithImplementations
  <2> DEFINE v == [kind |-> "implementations"]
  <2>1. MarketVoteOK(v)
    BY DEF MarketVoteOK
  <2> QED
    BY <1>5, <2>1, VoteCreated DEF WithImplementations
<1>6. CASE Stage1
  <2> DEFINE v == [kind |-> "stage1", lt |-> LTOf(FeePlace)]
  <2>1. MarketVoteOK(v)
    BY DEF MarketVoteOK, LTOf
  <2> QED
    BY <1>6, <2>1, VoteCreated DEF Stage1
<1>7. CASE CreateWethPool
  <2> DEFINE v == [kind |-> "owner", owner |-> admin, pool |-> MarketOf(WETHAsset, FALSE)]
  <2>1. MarketVoteOK(v)
    BY <1>7 DEF MarketVoteOK, CreateWethPool
  <2> QED
    BY <1>7, <2>1, VoteCreated DEF CreateWethPool
<1>8. CASE V3Markets
  <2> DEFINE new == [k \in Assets |-> [by |-> V3Accounts[k], vote |-> V3Vote(k), status |-> "open"]]
  <2> DEFINE V == {V3Accounts[k] : k \in Assets} \cup {V3Vote(k) : k \in Assets}
  <2>1. /\ proposals' = proposals \o new
        /\ UNCHANGED <<factoryVars, feeVars, gaugeVars>>
    BY <1>8 DEF V3Markets
  <2>2. Assets = 1 .. 4
    BY DEF Assets, N
  <2>3. new \in [1 .. 4 -> NewProposals(V)]
    BY <2>2 DEF NewProposals
  <2>4. new \in Seq(NewProposals(V)) /\ Len(new) = 4
    <3> PICK R : R = NewProposals(V)
      OBVIOUS
    <3> HIDE DEF new
    <3>1. PICK n \in Nat : n = 4
      OBVIOUS
    <3>2. new \in Seq(R) /\ Len(new) = n
      BY <2>3, <3>1, TableSeq
    <3> QED
      BY <3>1, <3>2
  <2>5. ASSUME NEW k \in 1 .. Len(new) PROVE MarketVoteOK(new[k].vote)
    <3>1. k \in Assets
      BY <2>2, <2>4
    <3>2. new[k].vote = V3Vote(k)
      BY <3>1
    <3>3. MarketVoteOK(V3Vote(k))
      BY <1>8 DEF MarketVoteOK, V3Vote, V3Markets
    <3> QED
      BY <3>2, <3>3
  <2> HIDE DEF new, V
  <2> QED
    BY <2>1, <2>4, <2>5, VotesAdded
<1> QED
  BY <1>1, <1>3, <1>4, <1>5, <1>6, <1>7, <1>8 DEF MarketScripts

(* A gauge vote is a list of gauges that the script found. *)
LEMMA GaugesOK ==
    ASSUME NEW v, v.kind = "gauges", Listed(v.gauges), \A g \in ToSet(v.gauges) : Known(g)
    PROVE  MarketVoteOK(v)
  BY DEF MarketVoteOK

(* The votes about gauges: only predict_gauges names what is not there, and
   its vote checks that it is. *)
LEMMA GaugeScriptsSafe ==
    ASSUME MarketInv, GaugeScripts
    PROVE  MarketInv'
<1>1. \A p : Known(GaugeOf(p))
  BY DEF Known, GaugeOf
<1>2. CASE Gauges
  <2> DEFINE gs == [p \in FirstPlaces |-> GaugeOf(p)]
  <2>1. DOMAIN gs = 1 .. 3 /\ gs = [i \in 1 .. 3 |-> gs[i]] /\ \A g \in ToSet(gs) : Known(g)
    BY <1>1 DEF FirstPlaces, N, ToSet
  <2> HIDE DEF gs
  <2>2. Listed(gs)
    BY <2>1, ListedTable
  <2> DEFINE v == [kind |-> "gauges", gauges |-> gs]
  <2>3. MarketVoteOK(v)
    BY <2>1, <2>2, GaugesOK
  <2>4. Create("yb-deployer", v)
    BY <1>2 DEF Gauges, gs
  <2> QED
    BY <2>3, <2>4, VoteCreated
<1>3. CASE WethGauge
  <2> DEFINE g == GaugeOf(WETHPlace)
  <2>1. Known(g)
    BY <1>1
  <2> HIDE DEF g
  <2>2. <<g>> \in Seq({g}) /\ ToSet(<<g>>) = {g}
    BY DEF ToSet
  <2> DEFINE v == [kind |-> "gauges", gauges |-> <<g>>]
  <2>3. MarketVoteOK(v)
    BY <2>1, <2>2, GaugesOK DEF Listed
  <2>4. Create("yb-deployer-2", v)
    BY <1>3 DEF WethGauge, g
  <2> QED
    BY <2>3, <2>4, VoteCreated
<1>4. CASE AddGaugesV3
  <2> DEFINE v == [kind |-> "gauges_v3"]
  <2>1. MarketVoteOK(v)
    BY DEF MarketVoteOK
  <2> QED
    BY <1>4, <2>1, VoteCreated DEF AddGaugesV3
<1>5. CASE KillOldGauges
  <2> PICK gs : gs = {IF i \in DOMAIN gauges THEN gauges[i] ELSE Zero : i \in FirstPlaces}
    OBVIOUS
  <2> DEFINE v == [kind |-> "kill", gauges |-> gs]
  <2>1. MarketVoteOK(v)
    BY DEF MarketVoteOK
  <2> QED
    BY <1>5, <2>1, VoteCreated DEF KillOldGauges
<1> QED
  BY <1>2, <1>3, <1>4, <1>5 DEF GaugeScripts

(* The votes about the fees name the LTs of markets that the scripts found. *)
LEMMA FeeScriptsSafe ==
    ASSUME MarketInv, FeeScripts
    PROVE  MarketInv'
<1>1. CASE DeployFeeDistributor
  <2>1. /\ tokenSet' = InitialSet
        /\ \A p \in SecondPlaces : Exists(p)
        /\ UNCHANGED <<votingVars, factoryVars, treasury, feesOn, gaugeVars, runs>>
    BY <1>1 DEF DeployFeeDistributor
  <2>2. NothingRegisteredAhead'
    <3>1. \A t \in InitialSet : t \in Zero .. 3 * N + 2 => Exists(t)
      BY <2>1 DEF InitialSet, AssetToken, N, Zero
    <3> QED
      BY <2>1, <3>1 DEF MarketInv, NothingRegisteredAhead, Exists, ToSet, factoryVars, gaugeVars
  <2>3. MarketVotesOK'
    <3>1. DOMAIN markets = DOMAIN markets' /\ proposals' = proposals
      BY <2>1 DEF factoryVars, votingVars
    <3> QED
      BY <3>1, MarketVotesKept DEF MarketInv
  <2> QED
    BY <2>1, <2>2, <2>3 DEF MarketInv, ListedProposals, Listed, FeesThroughOwner, NoFeesLeftBehind,
       votingVars, factoryVars, gaugeVars
<1>2. CASE FeesOn
  <2> DEFINE v == [kind |-> "fees_on", owner |-> admin]
  <2>1. MarketVoteOK(v)
    BY <1>2 DEF MarketVoteOK, FeesOn
  <2> QED
    BY <1>2, <2>1, VoteCreated DEF FeesOn
<1>3. CASE AddWethToFees
  <2> PICK ts : ts = {LTOf(p) : p \in SecondPlaces \cup {WETHPlace}}
    OBVIOUS
  <2> DEFINE v == [kind |-> "tokens", tokens |-> ts]
  <2>1. \A t \in ts : Known(t)
    BY DEF Known, LTOf
  <2>2. MarketVoteOK(v)
    BY <2>1 DEF MarketVoteOK
  <2> QED
    BY <1>3, <2>2, VoteCreated DEF AddWethToFees
<1>4. CASE FeesOnV3
  <2> PICK ts : ts = tokenSet \cup V3Places
    OBVIOUS
  <2> DEFINE v == [kind |-> "tokens", tokens |-> ts]
  <2>1. \A t \in ts : t \in Zero .. 3 * N + 2 => Known(t)
    BY <1>4 DEF Known, FeesOnV3, MarketInv, NothingRegisteredAhead
  <2>2. MarketVoteOK(v)
    BY <2>1 DEF MarketVoteOK
  <2> QED
    BY <1>4, <2>2, VoteCreated DEF FeesOnV3
<1> QED
  BY <1>1, <1>2, <1>3, <1>4 DEF FeeScripts

(***************************************************************************)
(* The votes, executed                                                     *)
(***************************************************************************)
(* Markets are only added, at the end. *)
LEMMA PoolsAdded ==
    ASSUME Listed(markets), NEW pools, Listed(pools), AddMarkets(pools)
    PROVE  Listed(markets') /\ DOMAIN markets \subseteq DOMAIN markets'
<1> DEFINE new == [i \in DOMAIN pools |-> WithCode(pools[i])]
<1>1. PICK n \in Nat : DOMAIN pools = 1 .. n
  BY ListedLen
<1>2. DOMAIN new = 1 .. n /\ new = [i \in 1 .. n |-> new[i]]
  BY <1>1
<1>3. markets' = markets \o new
  BY DEF AddMarkets
<1> HIDE DEF new
<1>4. Listed(new)
  BY <1>2, ListedTable
<1> QED
  BY <1>3, <1>4, ListedConcat

(* A list of one. *)
LEMMA OneListed ==
    ASSUME NEW e
    PROVE  Listed(<<e>>)
<1>1. <<e>> \in Seq({e})
  OBVIOUS
<1> QED
  BY <1>1 DEF Listed

(* Markets and gauges are added, and the fees go where the rules let them. *)
LEMMA ExecutionSafe ==
    ASSUME MarketInv, ListedProposals', MarketVotesOK',
           Listed(markets'), DOMAIN markets \subseteq DOMAIN markets',
           Listed(gauges'), \A g \in ToSet(gauges') : g \in ToSet(gauges) \/ Known(g)',
           \A t \in tokenSet' : t \in tokenSet \/ (t \in Zero .. 3 * N + 2 => Known(t)'),
           FeesThroughOwner', NoFeesLeftBehind'
    PROVE  MarketInv'
<1>1. NothingRegisteredAhead'
  <2>1. ASSUME NEW g \in ToSet(gauges') PROVE g = Zero \/ g \in DOMAIN markets'
    BY DEF MarketInv, NothingRegisteredAhead, Known, Exists
  <2>2. ASSUME NEW t \in tokenSet', t \in Zero .. 3 * N + 2 PROVE t = Zero \/ t \in DOMAIN markets'
    BY <2>2 DEF MarketInv, NothingRegisteredAhead, Known, Exists
  <2>3. (ToSet(gauges))' = ToSet(gauges')
    BY DEF ToSet
  <2> QED
    BY <2>1, <2>2, <2>3 DEF NothingRegisteredAhead, Exists
<1>2. Listed(markets)' /\ Listed(gauges)'
  BY DEF Listed
<1> QED
  BY <1>1, <1>2 DEF MarketInv

(* Every kind of vote, executed in whatever state the others left. *)
LEMMA MarketVoteExecuted ==
    ASSUME MarketInv, NEW i \in DOMAIN proposals, Execute(i)
    PROVE  MarketInv' /\ (receiver = "FeeDistributor" => receiver' = "FeeDistributor")
<1>1. ListedProposals /\ PassAndMarkExecuted(i)
  BY DEF MarketInv, Execute
<1>2. /\ ListedProposals' /\ Len(proposals') = Len(proposals)
      /\ \A j \in 1 .. Len(proposals) : proposals'[j].vote = proposals[j].vote
  BY <1>1, MarketMarked
<1>3. PICK v : v = proposals[i].vote
  OBVIOUS
<1>4. MarketVoteOK(v)
  <2>1. DOMAIN proposals = 1 .. Len(proposals)
    <3>1. Listed(proposals)
      BY <1>1, Zenon DEF ListedProposals, Listed
    <3> QED
      BY <3>1, ListedLen
  <2> QED
    BY <1>3, <2>1, Zenon DEF MarketInv, MarketVotesOK
<1>5. Listed(markets) /\ Listed(gauges) /\ MarketVotesOK
  BY DEF MarketInv
<1>6. ASSUME DOMAIN markets \subseteq DOMAIN markets' PROVE MarketVotesOK'
  BY <1>1, <1>2, <1>5, <1>6, MarketVotesKept
<1>7. ASSUME NEW pools, Listed(pools), AddMarkets(pools),
             UNCHANGED <<code, admin, receiver, feeVars, gaugeVars>>
      PROVE  MarketInv' /\ receiver' = receiver
  <2>1. Listed(markets') /\ DOMAIN markets \subseteq DOMAIN markets'
    BY <1>5, <1>7, PoolsAdded
  <2>2. MarketVotesOK'
    BY <1>6, <2>1
  <2>3. gauges' = gauges /\ tokenSet' = tokenSet
    BY <1>7 DEF gaugeVars, feeVars
  <2>4. FeesThroughOwner' /\ NoFeesLeftBehind'
    BY <1>7 DEF MarketInv, FeesThroughOwner, NoFeesLeftBehind, feeVars
  <2> QED
    BY <1>2, <1>5, <1>7, <2>1, <2>2, <2>3, <2>4, ExecutionSafe
<1>8. CASE v.kind = "direct" /\ ExecuteDirect(v)
  BY <1>4, <1>7, <1>8 DEF ExecuteDirect, MarketVoteOK
<1>9. CASE (v.kind = "owner" /\ ExecuteOwner(v)) \/ (v.kind = "v3" /\ ExecuteV3(v))
  BY <1>7, <1>9, OneListed DEF ExecuteOwner, ExecuteV3
<1>10. ASSUME UNCHANGED <<markets, gauges>>, FeesThroughOwner', NoFeesLeftBehind',
              \A t \in tokenSet' : t \in tokenSet \/ (t \in Zero .. 3 * N + 2 => Known(t))
       PROVE  MarketInv'
  <2>1. MarketVotesOK'
    BY <1>6, <1>10
  <2>2. \A t : Known(t)' <=> Known(t)
    BY <1>10 DEF Known, Exists
  <2>3. \A t \in tokenSet' : t \in tokenSet \/ (t \in Zero .. 3 * N + 2 => Known(t)')
    BY <1>10, <2>2
  <2> QED
    BY <1>2, <1>5, <1>10, <2>1, <2>3, ExecutionSafe
<1>11. CASE v.kind = "implementations" /\ ExecuteImplementations
  <2>1. UNCHANGED <<markets, gauges, admin, receiver, treasury, feesOn, tokenSet>>
    BY <1>11 DEF ExecuteImplementations, feeVars, gaugeVars
  <2> QED
    BY <1>10, <2>1 DEF MarketInv, FeesThroughOwner, NoFeesLeftBehind
<1>12. CASE v.kind = "stage1" /\ ExecuteStage1(v)
  <2>1. UNCHANGED <<markets, gauges, admin, feesOn, tokenSet>> /\ admin = DAO
    BY <1>12 DEF ExecuteStage1, gaugeVars
  <2>2. receiver # "FeeDistributor" /\ ~feesOn
    BY <2>1 DEF MarketInv, FeesThroughOwner
  <2>3. receiver' = "DAO"
    BY <1>12 DEF ExecuteStage1
  <2>4. FeesThroughOwner' /\ NoFeesLeftBehind'
    BY <2>1, <2>2, <2>3 DEF MarketInv, FeesThroughOwner, NoFeesLeftBehind
  <2> QED
    BY <1>10, <2>1, <2>2, <2>4
<1>13. ASSUME NEW gs, Listed(gs), \A g \in ToSet(gs) : Known(g), ExecuteGauges(gs)
       PROVE  MarketInv' /\ receiver' = receiver
  <2>1. gauges' = gauges \o gs /\ UNCHANGED <<markets, admin, receiver, treasury, feesOn, tokenSet>>
    BY <1>13 DEF ExecuteGauges, factoryVars, feeVars
  <2>2. Listed(gauges') /\ ToSet(gauges') = ToSet(gauges) \cup ToSet(gs)
    BY <1>5, <1>13, <2>1, ListedConcat
  <2>3. \A g : Known(g)' <=> Known(g)
    BY <2>1 DEF Known, Exists
  <2>4. FeesThroughOwner' /\ NoFeesLeftBehind'
    BY <2>1 DEF MarketInv, FeesThroughOwner, NoFeesLeftBehind
  <2>5. MarketVotesOK'
    BY <1>6, <2>1
  <2> QED
    BY <1>2, <1>5, <1>13, <2>1, <2>2, <2>3, <2>4, <2>5, ExecutionSafe
<1>14. CASE v.kind = "gauges" /\ ExecuteGauges(v.gauges)
  BY <1>4, <1>13, <1>14 DEF MarketVoteOK
<1>15. CASE v.kind = "gauges_v3" /\ ExecuteGaugesV3
  <2> DEFINE gs == [k \in 1 .. N + 1 |-> 2 * N + 1 + k]
  <2>1. \A p \in V3Places : Exists(p)
    BY <1>15 DEF ExecuteGaugesV3, PredictedGuard
  <2>2. \A g \in ToSet(gs) : g \in V3Places
    BY DEF ToSet, V3Places, N
  <2>3. DOMAIN gs = 1 .. 4 /\ gs = [k \in 1 .. 4 |-> gs[k]]
    BY DEF N
  <2>4. ExecuteGauges(gs)
    BY <1>15 DEF ExecuteGaugesV3
  <2> HIDE DEF gs
  <2>5. Listed(gs)
    BY <2>3, ListedTable
  <2>6. \A g \in ToSet(gs) : Known(g)
    BY <2>1, <2>2 DEF Known
  <2> QED
    BY <1>13, <2>4, <2>5, <2>6
<1>16. CASE v.kind = "kill" /\ ExecuteKill(v)
  <2>1. UNCHANGED <<markets, gauges, admin, receiver, treasury, feesOn, tokenSet>>
    BY <1>16 DEF ExecuteKill, feeVars, factoryVars
  <2> QED
    BY <1>10, <2>1 DEF MarketInv, FeesThroughOwner, NoFeesLeftBehind
<1>17. CASE v.kind = "fees_on" /\ ExecuteFeesOn(v)
  <2>1. /\ UNCHANGED <<markets, gauges, admin, tokenSet>> /\ admin = v.owner
        /\ receiver' = "FeeDistributor" /\ treasury' = treasury \ SecondPlaces
    BY <1>17 DEF ExecuteFeesOn, ThroughOwner, gaugeVars
  <2>2. admin # DAO
    BY <1>4, <1>17, <2>1 DEF MarketVoteOK
  <2>3. FeesThroughOwner' /\ NoFeesLeftBehind'
    BY <2>1, <2>2 DEF MarketInv, FeesThroughOwner, NoFeesLeftBehind
  <2> QED
    BY <1>10, <2>1, <2>3
<1>18. CASE v.kind = "tokens" /\ ExecuteTokens(v)
  <2>1. UNCHANGED <<markets, gauges, admin, receiver, treasury, feesOn>> /\ tokenSet' = v.tokens
    BY <1>18 DEF ExecuteTokens, factoryVars, gaugeVars
  <2>2. \A t \in v.tokens : t \in Zero .. 3 * N + 2 => Known(t)
    BY <1>4, <1>18 DEF MarketVoteOK
  <2> QED
    BY <1>10, <2>1, <2>2 DEF MarketInv, FeesThroughOwner, NoFeesLeftBehind
<1> QED
  BY <1>3, <1>8, <1>9, <1>11, <1>12, <1>13, <1>14, <1>15, <1>16, <1>17, <1>18 DEF Execute

(***************************************************************************)
(* The world                                                               *)
(***************************************************************************)
(* The owner only moves on from the DAO, and the treasury gains nothing of the
   second markets once the distribution is on. *)
LEMMA NoVoteSafe ==
    ASSUME MarketInv, UNCHANGED <<proposals, markets, gauges, tokenSet, receiver, feesOn>>,
           admin' \in Nat, admin' # DAO \/ admin' = admin,
           feesOn => treasury' \subseteq treasury
    PROVE  MarketInv'
<1>1. MarketVotesOK'
  <2>1. DOMAIN markets = DOMAIN markets'
    OBVIOUS
  <2> QED
    BY <2>1, MarketVotesKept DEF MarketInv
<1>2. (ListedProposals /\ Listed(markets) /\ Listed(gauges))'
  BY DEF MarketInv, ListedProposals, Listed
<1>3. NothingRegisteredAhead'
  BY DEF MarketInv, NothingRegisteredAhead, Exists, ToSet
<1>4. FeesThroughOwner' /\ NoFeesLeftBehind'
  BY DEF MarketInv, FeesThroughOwner, NoFeesLeftBehind
<1> QED
  BY <1>1, <1>2, <1>3, <1>4 DEF MarketInv

(* Withdrawals, days and hand-overs. *)
LEMMA WorldSafe ==
    ASSUME MarketInv,
           \/ \E p \in {FeePlace} \cup SecondPlaces : WithdrawAdminFees(p)
           \/ DayPasses \/ HandOver \/ UNCHANGED marketVars
    PROVE  MarketInv' /\ receiver' = receiver
<1>1. UNCHANGED <<proposals, markets, gauges, tokenSet, receiver, feesOn>>
  BY DEF WithdrawAdminFees, DayPasses, HandOver, CooldownEnds, marketVars, votingVars,
         factoryVars, gaugeVars, feeVars
<1>2. admin \in Nat /\ (feesOn => receiver = "FeeDistributor")
  BY DEF MarketInv, FeesThroughOwner
<1>3. admin' \in Nat /\ (admin' # DAO \/ admin' = admin)
  BY <1>2 DEF WithdrawAdminFees, DayPasses, HandOver, marketVars, factoryVars, DAO
<1>4. feesOn => treasury' \subseteq treasury
  BY <1>2 DEF WithdrawAdminFees, DayPasses, HandOver, marketVars, feeVars
<1> QED
  BY <1>1, <1>3, <1>4, NoVoteSafe

(* Every step of the markets, their gauges and their fees. *)
LEMMA MarketStep ==
    ASSUME MarketInv, [MarketNext]_marketVars
    PROVE  MarketInv' /\ (receiver = "FeeDistributor" => receiver' = "FeeDistributor")
<1>1. CASE MarketScripts \/ GaugeScripts \/ FeeScripts
  <2>1. MarketInv'
    BY <1>1, MarketScriptsSafe, GaugeScriptsSafe, FeeScriptsSafe
  <2>2. receiver' = receiver
    BY <1>1 DEF MarketScripts, FirstMarkets, FirstMarket1, FirstMarket2, FirstMarket3,
       WithImplementations, Stage1, Stage2_0, Stage2_1, Stage2_2, Stage2, CreateWethPool, V3Markets,
       GaugeScripts, Gauges, WethGauge, AddGaugesV3, KillOldGauges,
       FeeScripts, DeployFeeDistributor, FeesOn, AddWethToFees, FeesOnV3, Create, factoryVars
  <2> QED
    BY <2>1, <2>2
<1>2. CASE \E i \in DOMAIN proposals : Execute(i)
  BY <1>2, MarketVoteExecuted
<1>3. CASE \/ \E p \in {FeePlace} \cup SecondPlaces : WithdrawAdminFees(p)
           \/ DayPasses \/ HandOver \/ UNCHANGED marketVars
  BY <1>3, WorldSafe
<1> QED
  BY <1>1, <1>2, <1>3 DEF MarketNext

(***************************************************************************)
(* Refunds                                                                 *)
(***************************************************************************)
Transactions == [to : Nat, batch : DOMAIN Batches]

RefundTypes ==
    /\ asset \in Nat /\ wallet \in Nat
    /\ multisends \in Seq(SUBSET Holders)
    /\ file \in EmptyFile .. Len(multisends)
    /\ script \in [at : {"stopped", "deployed", "opened", "sending", "waiting"}, batch : Nat \ {0}]
    /\ mempool \in Seq(Transactions)
    /\ paid \in [Holders -> Nat]

\* The Multisend in the file is the only one that ever sent anything.
SentTo == IF file > 0 THEN multisends[file] ELSE {}

PaidIsSent == \A h \in Holders : paid[h] = IF h \in SentTo THEN 1 ELSE 0

\* Where the script is, what the file says.
ScriptKnowsFile ==
    /\ script.at \in {"stopped", "deployed", "opened"} => script.batch = 1
    /\ script.at = "deployed" => file = NoFile
    /\ script.at = "opened" => file = EmptyFile
    /\ script.at \in {"deployed", "opened"} =>
           multisends # <<>> /\ multisends[Len(multisends)] = {}
    /\ script.at \in {"sending", "waiting"} => file > 0

\* Transactions are to the Multisend in the file, whichever start sent them.
SentToFile ==
    /\ \A i \in 1 .. Len(mempool) : mempool[i].to = file
    /\ mempool # <<>> => file > 0
    /\ script.at = "waiting" =>
           mempool # <<>> /\ mempool[Len(mempool)].batch = script.batch

BatchesSent ==
    script.at \in {"sending", "waiting"} =>
        \A b \in DOMAIN Batches : b < script.batch => Batches[b] \subseteq SentTo

Underway == script.at # "stopped" \/ mempool # <<>> \/ \E h \in Holders : paid[h] > 0

Funded == Underway => wallet >= Cardinality(Holders \ SentTo)

RefundInv ==
    /\ RefundTypes /\ PaidIsSent /\ ScriptKnowsFile /\ SentToFile
    /\ BatchesSent /\ Funded

(* There are finitely many holders, and a batch is some of them. *)
LEMMA HoldersFinite ==
    /\ IsFiniteSet(Holders)
    /\ \A S \in SUBSET Holders : IsFiniteSet(S) /\ Cardinality(S) \in Nat
    /\ \A b \in DOMAIN Batches : Batches[b] \subseteq Holders
<1>1. IsFiniteSet({Batches[b] : b \in DOMAIN Batches})
  <2>1. Len(Batches) \in Nat /\ DOMAIN Batches = 1 .. Len(Batches)
    BY RefundAssumption
  <2>2. IsFiniteSet(1 .. Len(Batches))
    BY <2>1, FS_Interval
  <2> DEFINE f == [b \in DOMAIN Batches |-> Batches[b]]
  <2>3. {f[b] : b \in DOMAIN f} = {Batches[b] : b \in DOMAIN Batches}
    OBVIOUS
  <2>4. f \in Surjection(DOMAIN Batches, {Batches[b] : b \in DOMAIN Batches})
    BY DEF Surjection
  <2> HIDE DEF f
  <2> QED
    BY <2>1, <2>2, <2>4, FS_Surjection
<1>2. IsFiniteSet(Holders)
  BY <1>1, FS_UNION, RefundAssumption DEF Holders
<1>3. ASSUME NEW S \in SUBSET Holders PROVE IsFiniteSet(S) /\ Cardinality(S) \in Nat
  BY <1>2, FS_Subset, FS_CardinalityType
<1> QED
  BY <1>2, <1>3 DEF Holders

(* What was sent to is among the holders. *)
LEMMA SentType ==
    ASSUME RefundTypes
    PROVE  /\ SentTo \in SUBSET Holders
           /\ Cardinality(Holders \ SentTo) \in Nat
           /\ Cardinality(Holders \ SentTo) <= Refund
           /\ Refund \in Nat
<1>1. SentTo \in SUBSET Holders
  BY DEF SentTo, RefundTypes, EmptyFile
<1>2. Holders \ SentTo \in SUBSET Holders /\ Holders \in SUBSET Holders
  BY <1>1
<1>3. Cardinality(Holders \ SentTo) <= Cardinality(Holders)
  BY <1>2, HoldersFinite, FS_Subset
<1> QED
  BY <1>1, <1>2, <1>3, HoldersFinite DEF Refund

(* Nothing of what the script keeps changes: neither its own nor the money. *)
LEMMA RefundsUntouched ==
    ASSUME RefundInv, asset' \in Nat, wallet' \in Nat, wallet' >= wallet,
           UNCHANGED <<multisends, file, script, mempool, paid>>
    PROVE  RefundInv'
<1>1. RefundTypes'
  BY DEF RefundInv, RefundTypes
<1>2. SentTo' = SentTo
  BY DEF SentTo
<1>3. Funded'
  <2>1. Cardinality(Holders \ SentTo) \in Nat /\ wallet \in Nat
    BY SentType DEF RefundInv, RefundTypes
  <2>2. Underway' => Underway
    BY DEF Underway
  <2> QED
    BY <1>2, <2>1, <2>2 DEF RefundInv, Funded
<1>4. PaidIsSent' /\ BatchesSent'
  BY <1>2 DEF RefundInv, PaidIsSent, BatchesSent
<1>5. ScriptKnowsFile' /\ SentToFile'
  BY DEF RefundInv, ScriptKnowsFile, SentToFile
<1> QED
  BY <1>1, <1>3, <1>4, <1>5 DEF RefundInv

(* Nothing is sent at first. *)
LEMMA RefundsStart == RefundInit => RefundInv
<1> SUFFICES ASSUME RefundInit PROVE RefundInv
  OBVIOUS
<1>1. /\ asset = 0 /\ script = Stopped /\ mempool = <<>> /\ paid = [h \in Holders |-> 0]
  BY DEF RefundInit, NothingSent
<1>2. /\ wallet \in Nat /\ multisends \in Seq(SUBSET Holders)
      /\ file \in EmptyFile .. Len(multisends) /\ SentTo = {}
  <2>1. CASE wallet = 0 /\ multisends = <<>> /\ file = NoFile
    BY <2>1 DEF NoFile, EmptyFile, SentTo
  <2>2. CASE wallet = Refund /\ multisends = <<{}>> /\ file = 1
    <3>1. Refund \in Nat
      BY HoldersFinite DEF Refund
    <3> QED
      BY <2>2, <3>1 DEF EmptyFile, SentTo
  <2> QED
    BY <2>1, <2>2 DEF RefundInit
<1>3. RefundTypes
  BY <1>1, <1>2 DEF RefundTypes, Stopped
<1> QED
  BY <1>1, <1>2, <1>3 DEF RefundInv, PaidIsSent, ScriptKnowsFile, SentToFile, BatchesSent, Funded,
     Underway, Stopped

(* The script moves, and sends nothing. *)
LEMMA ScriptMoves ==
    ASSUME RefundInv, UNCHANGED <<moneyVars, mempool>>, RefundTypes', SentTo' = SentTo,
           ScriptKnowsFile', SentToFile', BatchesSent',
           script.at # "stopped" \/ script'.at = "stopped" \/ wallet >= Refund
             \/ (\E h \in Holders : paid[h] > 0)
    PROVE  RefundInv'
<1>1. Funded'
  <2>1. /\ Cardinality(Holders \ SentTo) \in Nat /\ Cardinality(Holders \ SentTo) <= Refund
        /\ Refund \in Nat /\ wallet \in Nat /\ wallet' = wallet
    BY SentType DEF RefundInv, RefundTypes, moneyVars
  <2>2. Underway' => Underway \/ wallet >= Refund
    BY DEF Underway, moneyVars
  <2> QED
    BY <2>1, <2>2 DEF RefundInv, Funded
<1>2. PaidIsSent'
  BY DEF RefundInv, PaidIsSent, moneyVars
<1> QED
  BY <1>1, <1>2 DEF RefundInv

(* Without a Multisend in the file nothing was sent. *)
LEMMA SentEmpty ==
    ASSUME RefundInv, ~(file > 0)
    PROVE  mempool = <<>> /\ SentTo = {}
  BY DEF RefundInv, SentToFile, SentTo

(* With the Multisend of the file, or with a new one if there is no file. *)
LEMMA ScriptStarts ==
    ASSUME RefundInv, StartScript
    PROVE  RefundInv'
<1>1. /\ script = Stopped /\ (wallet >= Refund \/ \E h \in Holders : paid[h] > 0)
      /\ UNCHANGED <<moneyVars, mempool, file>>
  BY DEF StartScript
<1>2. CASE file \notin {NoFile, EmptyFile} /\ script' = Sending(1) /\ UNCHANGED multisends
  <2>1. file > 0
    BY <1>2 DEF RefundInv, RefundTypes, NoFile, EmptyFile
  <2>2. RefundTypes' /\ SentTo' = SentTo
    BY <1>1, <1>2 DEF RefundInv, RefundTypes, SentTo, Sending, moneyVars
  <2>3. ScriptKnowsFile' /\ SentToFile' /\ BatchesSent'
    BY <1>1, <1>2, <2>1, RefundAssumption
       DEF RefundInv, ScriptKnowsFile, SentToFile, BatchesSent, Sending
  <2> QED
    BY <1>1, <2>2, <2>3, ScriptMoves
<1>3. CASE /\ file = NoFile /\ multisends' = Append(multisends, {})
           /\ script' = [Stopped EXCEPT !.at = "deployed"]
  <2>1. /\ multisends' \in Seq(SUBSET Holders) /\ Len(multisends') = Len(multisends) + 1
        /\ multisends'[Len(multisends')] = {} /\ Len(multisends) \in Nat
    <3>1. multisends \in Seq(SUBSET Holders) /\ {} \in SUBSET Holders
      BY DEF RefundInv, RefundTypes
    <3> QED
      BY <1>3, <3>1
  <2>2. script' = [at |-> "deployed", batch |-> 1]
    BY <1>3 DEF Stopped
  <2>3. RefundTypes'
    BY <1>1, <1>3, <2>1, <2>2 DEF RefundInv, RefundTypes, moneyVars, NoFile, EmptyFile
  <2>4. mempool = <<>> /\ SentTo = {} /\ SentTo' = {}
    BY <1>1, <1>3, SentEmpty DEF NoFile, SentTo
  <2>5. ScriptKnowsFile' /\ SentToFile' /\ BatchesSent'
    BY <1>1, <1>3, <2>1, <2>2, <2>4 DEF ScriptKnowsFile, SentToFile, BatchesSent, NoFile
  <2> QED
    BY <1>1, <2>3, <2>4, <2>5, ScriptMoves
<1> QED
  BY <1>2, <1>3 DEF StartScript

(* The file names a Multisend that has sent nothing, or is empty. *)
LEMMA FileWritten ==
    ASSUME RefundInv, OpenFile \/ WriteFile \/ RemoveFile
    PROVE  RefundInv'
<1>1. /\ RefundTypes /\ ScriptKnowsFile /\ Len(multisends) \in Nat
      /\ UNCHANGED <<moneyVars, mempool, multisends>>
  BY DEF RefundInv, RefundTypes, OpenFile, WriteFile, RemoveFile
<1>2. ~(file > 0)
  BY <1>1 DEF ScriptKnowsFile, OpenFile, WriteFile, RemoveFile, NoFile, EmptyFile
<1>3. mempool = <<>> /\ SentTo = {}
  BY <1>2, SentEmpty
<1>4. CASE OpenFile
  <2>1. script' = [at |-> "opened", batch |-> 1] /\ file' = EmptyFile /\ script.at = "deployed"
    BY <1>1, <1>4 DEF OpenFile, ScriptKnowsFile, RefundTypes
  <2>2. RefundTypes' /\ SentTo' = {}
    BY <1>1, <2>1 DEF RefundTypes, SentTo, EmptyFile, moneyVars
  <2>3. ScriptKnowsFile' /\ SentToFile' /\ BatchesSent'
    BY <1>1, <1>3, <2>1 DEF ScriptKnowsFile, SentToFile, BatchesSent
  <2> QED
    BY <1>1, <1>3, <2>1, <2>2, <2>3, ScriptMoves
<1>5. CASE WriteFile
  <2>1. script' = [at |-> "sending", batch |-> 1] /\ file' = Len(multisends) /\ script.at = "opened"
    BY <1>5 DEF WriteFile, Sending
  <2>2. file' > 0 /\ multisends'[file'] = {}
    BY <1>1, <2>1 DEF ScriptKnowsFile
  <2>3. RefundTypes' /\ SentTo' = {}
    BY <1>1, <2>1, <2>2 DEF RefundTypes, SentTo, EmptyFile, moneyVars
  <2>4. ScriptKnowsFile' /\ SentToFile' /\ BatchesSent'
    BY <1>1, <1>3, <2>1, <2>2, RefundAssumption DEF ScriptKnowsFile, SentToFile, BatchesSent
  <2> QED
    BY <1>1, <1>3, <2>1, <2>3, <2>4, ScriptMoves
<1>6. CASE RemoveFile
  <2>1. script = Stopped /\ script' = script /\ file' = NoFile
    BY <1>6 DEF RemoveFile
  <2>2. RefundTypes' /\ SentTo' = {}
    BY <1>1, <2>1 DEF RefundTypes, SentTo, NoFile, EmptyFile, moneyVars
  <2>3. ScriptKnowsFile' /\ SentToFile' /\ BatchesSent'
    BY <1>1, <1>3, <2>1 DEF ScriptKnowsFile, SentToFile, BatchesSent, Stopped
  <2> QED
    BY <1>1, <1>3, <2>1, <2>2, <2>3, ScriptMoves DEF Stopped
<1> QED
  BY <1>4, <1>5, <1>6

(* The batches are numbered. *)
LEMMA BatchesTyped ==
    /\ Len(Batches) \in Nat /\ DOMAIN Batches = 1 .. Len(Batches)
    /\ \A b \in DOMAIN Batches : Batches[b] \subseteq Holders
  BY RefundAssumption, HoldersFinite

(* A batch is skipped, or sent. *)
LEMMA BatchTaken ==
    ASSUME RefundInv, NextBatch
    PROVE  RefundInv'
<1>1. /\ RefundTypes /\ ScriptKnowsFile /\ SentToFile /\ BatchesSent
      /\ script.at = "sending" /\ script.batch \in DOMAIN Batches /\ file > 0
      /\ UNCHANGED <<moneyVars, multisends, file>>
  BY DEF NextBatch, RefundInv, ScriptKnowsFile
<1>2. SentTo = multisends[file] /\ SentTo' = SentTo
  BY <1>1 DEF SentTo
<1>3. script.batch \in Nat /\ script.batch >= 1 /\ script.batch <= Len(Batches) /\ file \in Nat
  BY <1>1, BatchesTyped DEF RefundTypes, EmptyFile
<1>4. CASE /\ Batches[script.batch] \subseteq multisends[file]
           /\ script' = Sending(script.batch + 1) /\ UNCHANGED mempool
  <2>1. script' = [at |-> "sending", batch |-> script.batch + 1]
    BY <1>4 DEF Sending
  <2>2. RefundTypes'
    BY <1>1, <1>3, <1>4, <2>1 DEF RefundTypes, moneyVars
  <2>3. ScriptKnowsFile' /\ SentToFile'
    BY <1>1, <1>4, <2>1 DEF ScriptKnowsFile, SentToFile
  <2>4. BatchesSent'
    <3>1. ASSUME NEW b \in DOMAIN Batches, b < script.batch + 1 PROVE Batches[b] \subseteq SentTo
      <4>1. b < script.batch \/ b = script.batch
        BY <1>3, <3>1, BatchesTyped
      <4> QED
        BY <1>1, <1>2, <1>4, <4>1 DEF BatchesSent
    <3> QED
      BY <1>2, <2>1, <3>1 DEF BatchesSent
  <2> QED
    BY <1>1, <1>2, <1>4, <2>2, <2>3, <2>4, ScriptMoves
<1>5. CASE /\ script' = [script EXCEPT !.at = "waiting"]
           /\ mempool' = Append(mempool, [to |-> file, batch |-> script.batch])
  <2> DEFINE tx == [to |-> file, batch |-> script.batch]
  <2>1. tx \in Transactions /\ tx.to = file /\ tx.batch = script.batch
    BY <1>1, <1>3 DEF Transactions
  <2>2. script' = [at |-> "waiting", batch |-> script.batch]
    BY <1>1, <1>5 DEF RefundTypes
  <2>3. mempool \in Seq(Transactions) /\ mempool' = Append(mempool, tx)
    BY <1>1, <1>5 DEF RefundTypes
  <2> HIDE DEF tx
  <2>4. /\ mempool' \in Seq(Transactions) /\ Len(mempool') = Len(mempool) + 1 /\ Len(mempool) \in Nat
        /\ \A i \in 1 .. Len(mempool) : mempool'[i] = mempool[i]
        /\ mempool'[Len(mempool) + 1] = tx
    BY <2>1, <2>3
  <2>5. RefundTypes'
    BY <1>1, <1>3, <2>2, <2>4 DEF RefundTypes, moneyVars
  <2>6. SentToFile'
    <3>1. ASSUME NEW i \in 1 .. Len(mempool') PROVE mempool'[i].to = file
      BY <1>1, <2>1, <2>4 DEF SentToFile
    <3>2. mempool' # <<>> /\ mempool'[Len(mempool')].batch = script'.batch
      BY <2>1, <2>2, <2>4
    <3> QED
      BY <1>1, <3>1, <3>2 DEF SentToFile
  <2>7. ScriptKnowsFile' /\ BatchesSent'
    BY <1>1, <1>2, <2>2 DEF ScriptKnowsFile, BatchesSent
  <2>8. Funded'
    <3>1. Underway
      BY <1>1 DEF Underway
    <3> QED
      BY <1>1, <1>2, <3>1 DEF RefundInv, Funded, moneyVars
  <2>9. PaidIsSent'
    BY <1>1, <1>2 DEF RefundInv, PaidIsSent, moneyVars
  <2> QED
    BY <2>5, <2>6, <2>7, <2>8, <2>9 DEF RefundInv
<1> QED
  BY <1>4, <1>5 DEF NextBatch

(* The script ends or stops, and what it sent is still under way. *)
LEMMA ScriptEndsOrStops ==
    ASSUME RefundInv, Finish \/ StopScript
    PROVE  RefundInv'
<1>1. script' = [at |-> "stopped", batch |-> 1] /\ UNCHANGED <<moneyVars, multisends, file, mempool>>
  BY DEF Finish, StopScript, Stopped
<1>2. RefundTypes' /\ SentTo' = SentTo
  BY <1>1 DEF RefundInv, RefundTypes, SentTo, moneyVars
<1>3. ScriptKnowsFile' /\ SentToFile' /\ BatchesSent'
  BY <1>1 DEF RefundInv, ScriptKnowsFile, SentToFile, BatchesSent
<1> QED
  BY <1>1, <1>2, <1>3, ScriptMoves

(* A sequence without its last element. *)
LEMMA LastDropped ==
    ASSUME NEW S, NEW s \in Seq(S), s # <<>>
    PROVE  /\ Front(s) \in Seq(S) /\ Len(Front(s)) = Len(s) - 1
           /\ \A i \in 1 .. Len(Front(s)) : Front(s)[i] = s[i]
<1>1. Len(s) \in Nat /\ Len(s) >= 1
  BY EmptySeq
<1>2. \A i \in 1 .. Len(s) - 1 : s[i] \in S
  BY <1>1
<1>3. /\ SubSeq(s, 1, Len(s) - 1) \in Seq(S)
      /\ Len(SubSeq(s, 1, Len(s) - 1)) = Len(s) - 1
      /\ \A i \in 1 .. Len(s) - 1 : SubSeq(s, 1, Len(s) - 1)[i] = s[i]
  <2>1. PICK n \in Nat : n = Len(s) - 1
    BY <1>1
  <2>2. \A i \in 1 .. n : s[i] \in S
    BY <1>2, <2>1
  <2>3. /\ SubSeq(s, 1, n) \in Seq(S)
        /\ Len(SubSeq(s, 1, n)) = IF 1 <= n THEN n - 1 + 1 ELSE 0
        /\ \A i \in 1 .. n - 1 + 1 : SubSeq(s, 1, n)[i] = s[1 + i - 1]
    BY <2>2, SubSeqProperties
  <2>4. Len(SubSeq(s, 1, n)) = n /\ \A i \in 1 .. n : SubSeq(s, 1, n)[i] = s[i]
    BY <2>3
  <2> QED
    BY <2>1, <2>3, <2>4
<1> QED
  BY <1>1, <1>3 DEF Front

(* A transaction that is lost leaves the others, of any start of the script. *)
LEMMA TransactionLost ==
    ASSUME RefundInv, LoseTransaction
    PROVE  RefundInv'
<1>1. /\ RefundTypes /\ SentToFile /\ mempool # <<>> /\ mempool' = Front(mempool)
      /\ script' = (IF script.at = "waiting" THEN Stopped ELSE script)
      /\ UNCHANGED <<moneyVars, multisends, file>>
  BY DEF LoseTransaction, RefundInv
<1>2. /\ mempool' \in Seq(Transactions) /\ Len(mempool') = Len(mempool) - 1 /\ Len(mempool) \in Nat
      /\ \A i \in 1 .. Len(mempool') : mempool'[i] = mempool[i] /\ i \in 1 .. Len(mempool)
  <2>1. mempool \in Seq(Transactions) /\ Len(mempool) \in Nat
    BY <1>1 DEF RefundTypes
  <2>2. /\ Front(mempool) \in Seq(Transactions) /\ Len(Front(mempool)) = Len(mempool) - 1
        /\ \A i \in 1 .. Len(Front(mempool)) : Front(mempool)[i] = mempool[i]
    BY <1>1, <2>1, LastDropped
  <2> QED
    BY <1>1, <2>1, <2>2
<1>3. script'.at # "waiting" /\ SentTo' = SentTo
  BY <1>1 DEF SentTo, Stopped
<1>4. RefundTypes'
  BY <1>1, <1>2 DEF RefundTypes, moneyVars, Stopped
<1>5. ScriptKnowsFile' /\ BatchesSent'
  BY <1>1, <1>3 DEF RefundInv, ScriptKnowsFile, BatchesSent, Stopped
<1>6. SentToFile'
  BY <1>1, <1>2, <1>3 DEF SentToFile
<1>7. Funded' /\ PaidIsSent'
  <2>1. Underway
    BY <1>1 DEF Underway
  <2> QED
    BY <1>1, <1>3, <2>1 DEF RefundInv, Funded, PaidIsSent, moneyVars
<1> QED
  BY <1>4, <1>5, <1>6, <1>7 DEF RefundInv

(* What is left of the holders after a batch. *)
LEMMA FewerLeft ==
    ASSUME NEW sent \in SUBSET Holders, NEW to \in SUBSET (Holders \ sent)
    PROVE  /\ Cardinality(to) \in Nat /\ Cardinality(to) <= Cardinality(Holders \ sent)
           /\ Cardinality(Holders \ sent) \in Nat
           /\ Cardinality(Holders \ (sent \cup to)) = Cardinality(Holders \ sent) - Cardinality(to)
<1>1. Holders \ sent \in SUBSET Holders /\ to \in SUBSET Holders
  OBVIOUS
<1>2. /\ IsFiniteSet(Holders \ sent) /\ Cardinality(Holders \ sent) \in Nat
      /\ IsFiniteSet(to) /\ Cardinality(to) \in Nat
  BY <1>1, HoldersFinite
<1>3. Cardinality(to) <= Cardinality(Holders \ sent)
  BY <1>2, FS_Subset
<1>4. Holders \ (sent \cup to) = (Holders \ sent) \ to /\ (Holders \ sent) \cap to = to
  OBVIOUS
<1>5. Cardinality((Holders \ sent) \ to) = Cardinality(Holders \ sent) - Cardinality((Holders \ sent) \cap to)
  BY <1>2, FS_Difference
<1> QED
  BY <1>2, <1>3, <1>4, <1>5

(* Multisend.send pays whoever it did not pay, and can. *)
LEMMA BatchSent ==
    ASSUME RefundInv, Send
    PROVE  RefundInv'
<1>1. /\ RefundTypes /\ PaidIsSent /\ ScriptKnowsFile /\ SentToFile /\ BatchesSent /\ Funded
      /\ mempool # <<>> /\ file > 0 /\ UNCHANGED <<asset, file>>
  BY DEF Send, RefundInv, SentToFile
<1>2. /\ mempool \in Seq(Transactions) /\ Len(mempool) \in Nat /\ Len(mempool) >= 1
      /\ Head(mempool) = mempool[1] /\ Head(mempool) \in Transactions
      /\ mempool' \in Seq(Transactions) /\ Len(mempool') = Len(mempool) - 1
      /\ \A i \in 1 .. Len(mempool') : mempool'[i] = mempool[i + 1] /\ i + 1 \in 1 .. Len(mempool)
  BY <1>1, EmptySeq, HeadTailProperties DEF RefundTypes, Send
<1>3. PICK tx \in Transactions : tx = Head(mempool) /\ tx = mempool[1]
  BY <1>2
<1>4. tx.to = file /\ tx.batch \in DOMAIN Batches /\ file \in 1 .. Len(multisends)
  BY <1>1, <1>2, <1>3 DEF SentToFile, Transactions, RefundTypes
<1>5. PICK to : to = Unsent(tx)
  OBVIOUS
<1>6. /\ SentTo = multisends[file] /\ SentTo \in SUBSET Holders
      /\ to \in SUBSET (Holders \ SentTo) /\ Batches[tx.batch] \subseteq SentTo \cup to
  BY <1>1, <1>4, <1>5, SentType, BatchesTyped DEF SentTo, Unsent
<1>7. /\ Cardinality(to) \in Nat /\ wallet \in Nat /\ wallet >= Cardinality(to)
      /\ Cardinality(Holders \ (SentTo \cup to)) \in Nat
      /\ wallet - Cardinality(to) >= Cardinality(Holders \ (SentTo \cup to))
  <2>1. Underway
    BY <1>1 DEF Underway
  <2>2. wallet >= Cardinality(Holders \ SentTo) /\ wallet \in Nat
    BY <1>1, <2>1 DEF Funded, RefundTypes
  <2>3. SentTo \cup to \in SUBSET Holders
    BY <1>6
  <2>4. Cardinality(Holders \ (SentTo \cup to)) \in Nat
    BY <2>3, HoldersFinite
  <2>5. PICK sent \in SUBSET Holders : sent = SentTo
    BY <1>6
  <2>6. /\ Cardinality(to) \in Nat /\ Cardinality(to) <= Cardinality(Holders \ sent)
        /\ Cardinality(Holders \ sent) \in Nat
        /\ Cardinality(Holders \ (sent \cup to)) = Cardinality(Holders \ sent) - Cardinality(to)
    <3>1. to \in SUBSET (Holders \ sent)
      BY <1>6, <2>5
    <3> QED
      BY <3>1, FewerLeft
  <2> QED
    BY <2>2, <2>4, <2>5, <2>6
<1>8. /\ wallet' = wallet - Cardinality(to)
      /\ paid' = [h \in Holders |-> IF h \in to THEN paid[h] + 1 ELSE paid[h]]
      /\ multisends' = [multisends EXCEPT ![file] = @ \cup to]
      /\ script' = IF script.at = "waiting" /\ Len(mempool) = 1 THEN Sending(script.batch + 1) ELSE script
  BY <1>3, <1>4, <1>5, <1>7 DEF Send
<1>9. /\ multisends' \in Seq(SUBSET Holders) /\ Len(multisends') = Len(multisends)
      /\ multisends'[file] = SentTo \cup to
  <2>1. multisends \in Seq(SUBSET Holders) /\ SentTo \cup to \in SUBSET Holders
    BY <1>1, <1>6 DEF RefundTypes
  <2>2. multisends' = [multisends EXCEPT ![file] = SentTo \cup to]
    BY <1>6, <1>8
  <2> QED
    BY <1>4, <2>1, <2>2
<1>10. SentTo' = SentTo \cup to
  BY <1>1, <1>9 DEF SentTo
<1>11. script.batch \in Nat /\ script.batch >= 1
  BY <1>1 DEF RefundTypes
<1>12. RefundTypes'
  <2>1. paid' \in [Holders -> Nat]
    BY <1>1, <1>8 DEF RefundTypes
  <2>2. script' = script \/ script' = [at |-> "sending", batch |-> script.batch + 1]
    BY <1>8 DEF Sending
  <2>3. wallet' \in Nat
    BY <1>7, <1>8
  <2> QED
    BY <1>1, <1>2, <1>9, <1>11, <2>1, <2>2, <2>3 DEF RefundTypes
<1>13. PaidIsSent'
  <2>1. ASSUME NEW h \in Holders PROVE paid'[h] = IF h \in SentTo \cup to THEN 1 ELSE 0
    BY <1>1, <1>6, <1>8 DEF PaidIsSent
  <2> QED
    BY <1>10, <2>1 DEF PaidIsSent
<1>14. Funded'
  BY <1>7, <1>8, <1>10 DEF Funded
<1>15. CASE script.at = "waiting" /\ Len(mempool) = 1
  <2>1. script' = [at |-> "sending", batch |-> script.batch + 1]
    BY <1>8, <1>15 DEF Sending
  <2>2. tx.batch = script.batch
    BY <1>1, <1>3, <1>15 DEF SentToFile
  <2>3. ScriptKnowsFile'
    BY <1>1, <2>1 DEF ScriptKnowsFile
  <2>4. SentToFile'
    BY <1>1, <1>2, <1>15, <2>1 DEF SentToFile
  <2>5. BatchesSent'
    <3>1. ASSUME NEW b \in DOMAIN Batches, b < script.batch + 1 PROVE Batches[b] \subseteq SentTo \cup to
      <4>1. b < script.batch \/ b = script.batch
        BY <1>11, <3>1, BatchesTyped
      <4> QED
        BY <1>1, <1>6, <1>15, <2>2, <4>1 DEF BatchesSent
    <3> QED
      BY <1>10, <2>1, <3>1 DEF BatchesSent
  <2> QED
    BY <1>12, <1>13, <1>14, <2>3, <2>4, <2>5 DEF RefundInv
<1>16. CASE ~(script.at = "waiting" /\ Len(mempool) = 1)
  <2>1. script' = script
    BY <1>8, <1>16
  <2>2. ScriptKnowsFile'
    <3>1. script.at \notin {"deployed", "opened"}
      BY <1>1 DEF ScriptKnowsFile, NoFile, EmptyFile
    <3> QED
      BY <1>1, <2>1, <3>1 DEF ScriptKnowsFile
  <2>3. SentToFile'
    <3>1. \A i \in 1 .. Len(mempool') : mempool'[i].to = file
      BY <1>1, <1>2 DEF SentToFile
    <3>2. script.at = "waiting" => mempool' # <<>> /\ mempool'[Len(mempool')].batch = script.batch
      <4> SUFFICES ASSUME script.at = "waiting"
                   PROVE  mempool' # <<>> /\ mempool'[Len(mempool')].batch = script.batch
        OBVIOUS
      <4>1. Len(mempool') \in 1 .. Len(mempool') /\ Len(mempool') + 1 = Len(mempool)
        BY <1>2, <1>16
      <4>2. mempool'[Len(mempool')] = mempool[Len(mempool)]
        BY <1>2, <4>1
      <4>3. mempool' # <<>>
        BY <1>2, <4>1
      <4> QED
        BY <1>1, <4>2, <4>3 DEF SentToFile
    <3> QED
      BY <1>1, <2>1, <3>1, <3>2 DEF SentToFile
  <2>4. BatchesSent'
    BY <1>1, <1>10, <2>1 DEF BatchesSent
  <2> QED
    BY <1>12, <1>13, <1>14, <2>2, <2>3, <2>4 DEF RefundInv
<1> QED
  BY <1>15, <1>16

(***************************************************************************)
(* The DAO                                                                 *)
(***************************************************************************)
(* Both votes about the refund take the fees of the first market only. *)
LEMMA DaoRefunds ==
    ASSUME MarketInv, RefundInv,
           Stage3Withdraws \/ AdminFeeReturn \/ \E i \in DOMAIN proposals : ExecuteRefund(i)
    PROVE  MarketInv' /\ RefundInv' /\ receiver' = receiver
<1>1. asset \in Nat /\ wallet \in Nat /\ Refund \in Nat
  BY SentType DEF RefundInv, RefundTypes
<1>2. CASE Stage3Withdraws
  <2>1. /\ UNCHANGED <<proposals, markets, gauges, tokenSet, receiver, feesOn>>
        /\ admin' = admin + 1 /\ treasury' \subseteq treasury /\ asset' = asset + 1
        /\ UNCHANGED <<wallet, multisends, file, script, mempool, paid>>
    BY <1>2 DEF Stage3Withdraws, votingVars, gaugeVars
  <2>2. admin' \in Nat /\ admin' # DAO
    BY <2>1 DEF MarketInv, FeesThroughOwner, DAO
  <2>3. MarketInv'
    BY <2>1, <2>2, NoVoteSafe
  <2>4. RefundInv'
    BY <1>1, <2>1, RefundsUntouched
  <2> QED
    BY <2>1, <2>3, <2>4
<1>3. CASE AdminFeeReturn
  <2> DEFINE v == [kind |-> "refund", withdraw |-> FeePlace \in treasury]
  <2>1. MarketVoteOK(v)
    BY DEF MarketVoteOK
  <2>2. Create("yb-deployer", v) /\ UNCHANGED refundVars
    BY <1>3 DEF AdminFeeReturn
  <2> HIDE DEF v
  <2>3. MarketInv'
    BY <2>1, <2>2, VoteCreated
  <2>4. receiver' = receiver
    BY <2>2 DEF Create, factoryVars
  <2>5. RefundInv'
    BY <1>1, <2>2, RefundsUntouched DEF refundVars
  <2> QED
    BY <2>3, <2>4, <2>5
<1>4. CASE \E i \in DOMAIN proposals : ExecuteRefund(i)
  <2>1. PICK i \in DOMAIN proposals : ExecuteRefund(i)
    BY <1>4
  <2>2. ListedProposals /\ PassAndMarkExecuted(i)
    BY <2>1 DEF MarketInv, ExecuteRefund
  <2>3. /\ ListedProposals' /\ Len(proposals') = Len(proposals)
        /\ \A j \in 1 .. Len(proposals) : proposals'[j].vote = proposals[j].vote
    BY <2>2, MarketMarked
  <2>4. UNCHANGED <<markets, gauges, tokenSet, receiver, feesOn, admin>> /\ treasury' \subseteq treasury
    BY <2>1 DEF ExecuteRefund, factoryVars, gaugeVars
  <2>5. MarketVotesOK'
    <3>1. DOMAIN markets \subseteq DOMAIN markets'
      BY <2>4
    <3> QED
      BY <2>3, <3>1, MarketVotesKept DEF MarketInv
  <2>6. (Listed(markets) /\ Listed(gauges))' /\ NothingRegisteredAhead'
    BY <2>4 DEF MarketInv, Listed, NothingRegisteredAhead, Exists, ToSet
  <2>7. FeesThroughOwner' /\ NoFeesLeftBehind'
    BY <2>4 DEF MarketInv, FeesThroughOwner, NoFeesLeftBehind
  <2>8. asset' \in Nat /\ wallet' = wallet + Refund
        /\ UNCHANGED <<multisends, file, script, mempool, paid>>
    <3>1. PICK enough \in {0, 1} : asset + enough >= 1 /\ asset' = asset + enough - 1
      BY <2>1 DEF ExecuteRefund
    <3> QED
      BY <1>1, <2>1, <3>1 DEF ExecuteRefund
  <2>9. RefundInv'
    BY <1>1, <2>8, RefundsUntouched
  <2> QED
    BY <2>3, <2>4, <2>5, <2>6, <2>7, <2>9 DEF MarketInv
<1> QED
  BY <1>2, <1>3, <1>4

(* Every step of MarketVotes and Refunds together. *)
LEMMA RefundStep ==
    ASSUME MarketInv, RefundInv, [RefundNext]_allVars
    PROVE  /\ MarketInv' /\ RefundInv'
           /\ receiver = "FeeDistributor" => receiver' = "FeeDistributor"
<1>1. CASE [MarketNext]_marketVars /\ UNCHANGED refundVars
  <2>1. RefundInv'
    BY <1>1, RefundsUntouched DEF refundVars, RefundInv, RefundTypes
  <2> QED
    BY <1>1, <2>1, MarketStep
<1>2. CASE Stage3Withdraws \/ AdminFeeReturn \/ \E i \in DOMAIN proposals : ExecuteRefund(i)
  BY <1>2, DaoRefunds
<1>3. CASE ScriptStep \/ Send \/ StopScript \/ LoseTransaction
  <2>1. UNCHANGED marketVars
    BY <1>3 DEF ScriptStep, StartScript, OpenFile, WriteFile, RemoveFile, NextBatch, Finish,
       Send, StopScript, LoseTransaction
  <2>2. MarketInv' /\ receiver' = receiver
    BY <2>1, WorldSafe
  <2>3. RefundInv'
    BY <1>3, ScriptStarts, FileWritten, BatchTaken, ScriptEndsOrStops, BatchSent, TransactionLost
       DEF ScriptStep
  <2> QED
    BY <2>2, <2>3
<1> QED
  BY <1>1, <1>2, <1>3 DEF RefundNext, allVars

(* The refunds begin where the votes begin. *)
LEMMA RefundsStartSafe == RefundInit => MarketInv
<1> SUFFICES ASSUME RefundInit PROVE MarketInv
  OBVIOUS
<1>1. VotingInit /\ treasury = {} /\ feesOn = FALSE /\ (Launch \/ BeforeFees \/ BeforeV3)
  BY DEF RefundInit, MarketInit
<1> QED
  BY <1>1, MarketsStart

(* What the pending votes say stays true, and the script, its file and its
   transactions agree on one Multisend, however often it stops. *)
THEOREM RefundInvariant == RefundSpec => [](MarketInv /\ RefundInv)
<1>1. RefundInit => MarketInv /\ RefundInv
  BY RefundsStartSafe, RefundsStart
<1>2. MarketInv /\ RefundInv /\ [RefundNext]_allVars => (MarketInv /\ RefundInv)'
  BY RefundStep
<1> QED
  BY <1>1, <1>2, PTL DEF RefundSpec

(* Gauges and LTs that votes register belong to markets, for any number of
   votes in any order. *)
THEOREM NothingIsAhead == RefundSpec => []NothingRegisteredAhead
<1>1. MarketInv => NothingRegisteredAhead
  BY DEF MarketInv
<1> QED
  BY RefundInvariant, <1>1, PTL

(* set_fee_receiver: stage 1 never takes the fees back from the
   FeeDistributor. *)
THEOREM FeesStayWhereTheyGo == RefundSpec => FeesStayOn
<1>1. MarketInv /\ RefundInv /\ [RefundNext]_allVars =>
         [receiver = "FeeDistributor" => receiver' = "FeeDistributor"]_marketVars
  BY RefundStep
<1> QED
  BY RefundInvariant, <1>1, PTL DEF RefundSpec, FeesStayOn

(* Once the distribution is on, the DAO has no fees of the second markets. *)
THEOREM FeesArePassedOn == RefundSpec => []NoFeesLeftBehind
<1>1. MarketInv => NoFeesLeftBehind
  BY DEF MarketInv
<1> QED
  BY RefundInvariant, <1>1, PTL

(* The refund script, stopped and started again with transactions under way
   or lost: nobody is paid twice, and everybody when it ends. *)
THEOREM EverybodyIsPaidOnce == RefundSpec => []PaidExactlyOnce
<1>1. RefundInv => PaidExactlyOnce
  <2> SUFFICES ASSUME RefundInv PROVE PaidExactlyOnce
    OBVIOUS
  <2>1. \A h \in Holders : paid[h] <= 1
    BY DEF RefundInv, PaidIsSent
  <2>2. ASSUME script.batch \notin DOMAIN Batches, NEW h \in Holders PROVE paid[h] = 1
    <3>1. PICK b \in DOMAIN Batches : h \in Batches[b]
      BY DEF Holders
    <3>2. script.batch \in Nat /\ script.batch >= 1
      BY DEF RefundInv, RefundTypes
    <3>3. b < script.batch /\ script.batch # 1
      BY <2>2, <3>2, BatchesTyped
    <3>4. script.at \in {"sending", "waiting"}
      BY <3>3 DEF RefundInv, RefundTypes, ScriptKnowsFile
    <3> QED
      BY <3>1, <3>3, <3>4 DEF RefundInv, BatchesSent, PaidIsSent
  <2> QED
    BY <2>1, <2>2 DEF PaidExactlyOnce
<1> QED
  BY RefundInvariant, <1>1, PTL
=============================================================================
