---------------------------- MODULE AMM_proofs -----------------------------
(***************************************************************************)
(* Proofs about the ledger of module AMM, for every price, fee, rate,      *)
(* limit and amount.  The curve plays no role in them: nothing is needed   *)
(* of get_x0 but that it returns an integer.                               *)
(***************************************************************************)
EXTENDS AMM, WellFoundedInduction, TLAPS

(* The induction hypothesis: `debt' as last written, rather than the debt
   with the interest of the current block, covers what is minted and not
   redeemed. *)
BookedDebtCovers == debt + redeemed >= minted

IInv ==
    /\ TypeOK
    /\ AllocationConserved
    /\ BookedDebtCovers

-----------------------------------------------------------------------------
(***************************************************************************)
(* Arithmetic                                                              *)
(***************************************************************************)

(* Division rounds down. *)
LEMMA DivBounds ==
    ASSUME NEW a \in Int, NEW w \in Nat \ {0}
    PROVE  /\ a \div w \in Int
           /\ (a \div w) * w <= a
           /\ a < (a \div w) * w + w
  BY SMT

(* A quotient is at least what the dividend holds as many times. *)
LEMMA DivLower ==
    ASSUME NEW a \in Int, NEW w \in Nat \ {0}, NEW q \in Int, q * w <= a
    PROVE  q <= a \div w
<1> DEFINE k == a \div w
<1>1. k \in Int /\ a < k * w + w
  BY DivBounds
<1>2. q * w < (k + 1) * w
  BY <1>1, SMT
<1>3. q < k + 1
  <2> SUFFICES ASSUME q >= k + 1 PROVE FALSE
    BY <1>1, SMT
  <2>1. q * w >= (k + 1) * w
    BY <1>1, SMT
  <2> QED
    BY <1>2, <2>1, <1>1, SMT
<1> QED
  BY <1>1, <1>3, SMT

(* A quotient is at most what bounds the dividend. *)
LEMMA DivUpper ==
    ASSUME NEW a \in Int, NEW w \in Nat \ {0}, NEW q \in Int, a <= q * w
    PROVE  a \div w <= q
<1> DEFINE k == a \div w
<1>1. k \in Int /\ k * w <= a
  BY DivBounds
<1> SUFFICES ASSUME k >= q + 1 PROVE FALSE
  BY <1>1, SMT
<1>2. k * w >= (q + 1) * w
  BY <1>1, SMT
<1>3. (q + 1) * w = q * w + w
  BY SMT
<1> QED
  BY <1>1, <1>2, <1>3, SMT

(* Every natural number has an integer square root: the least r with
   n < (r + 1)^2. *)
LEMMA isqrtType ==
    ASSUME NEW n \in Nat
    PROVE  isqrt(n) \in 0..n
<1> DEFINE T == {r \in Nat : n < (r + 1) * (r + 1)}
<1>1. n \in T
  BY SMT
<1>2. PICK r \in T : \A y \in T : ~(<<y, r>> \in OpToRel(<, Nat))
  <2>1. T \subseteq Nat /\ T # {}
    BY <1>1
  <2> HIDE DEF T
  <2> QED
    BY <2>1, NatLessThanWellFounded, WFMin
<1>3. r \in Nat /\ n < (r + 1) * (r + 1)
  OBVIOUS
<1>4. r * r <= n
  <2>1. CASE r = 0
    BY <2>1, SMT
  <2>2. CASE r # 0
    <3>1. r - 1 \in Nat /\ <<r - 1, r>> \in OpToRel(<, Nat)
      BY <1>3, <2>2 DEF OpToRel
    <3>2. r - 1 \notin T
      BY <1>2, <3>1
    <3>3. ~(n < (r - 1 + 1) * (r - 1 + 1))
      BY <3>1, <3>2
    <3> QED
      BY <3>3, <1>3, SMT
  <2> QED
    BY <2>1, <2>2
<1>5. r <= n
  <2>1. CASE r = 0
    BY <2>1
  <2>2. CASE r # 0
    <3>1. r <= r * r
      BY <1>3, <2>2, SMT
    <3> QED
      BY <3>1, <1>3, <1>4, SMT
  <2> QED
    BY <2>1, <2>2
<1>6. \E s \in 0..n : s * s <= n /\ n < (s + 1) * (s + 1)
  BY <1>3, <1>4, <1>5
<1> QED
  BY <1>6 DEF isqrt

-----------------------------------------------------------------------------
(***************************************************************************)
(* Token transfers and interest                                            *)
(***************************************************************************)

(* A transfer of no more than the sender has keeps balances natural numbers
   and changes the two it is about. *)
LEMMA MovedType ==
    ASSUME NEW b \in [Holders -> Nat],
           NEW from \in Holders, NEW to \in Holders, from # to,
           NEW x \in Nat, x <= b[from]
    PROVE  /\ Moved(b, from, to, x) \in [Holders -> Nat]
           /\ Moved(b, from, to, x)[from] = b[from] - x
           /\ Moved(b, from, to, x)[to] = b[to] + x
           /\ \A h \in Holders \ {from, to} : Moved(b, from, to, x)[h] = b[h]
  BY SMT DEF Moved

(* Interest only grows: the multiplier of this block is a positive integer
   not below the stored one. *)
LEMMA RateMulGrows ==
    ASSUME TypeOK
    PROVE  RateMul \in Nat \ {0} /\ RateMul >= rate_mul
<1> DEFINE growth == rate * (now - rate_time)
<1>1. growth \in Nat /\ rate_mul \in Nat \ {0} /\ WAD \in Nat \ {0}
  BY AMMAssumption, SMT DEF TypeOK
<1> HIDE DEF growth
<1>2. rate_mul * (WAD + growth) \in Nat /\ rate_mul * WAD <= rate_mul * (WAD + growth)
  <2>1. rate_mul * growth \in Nat
    BY <1>1, SMT
  <2>2. rate_mul * (WAD + growth) = rate_mul * WAD + rate_mul * growth
    BY <1>1, SMT
  <2> QED
    BY <1>1, <2>1, <2>2, SMT
<1>3. /\ (rate_mul * (WAD + growth)) \div WAD \in Int
      /\ rate_mul <= (rate_mul * (WAD + growth)) \div WAD
  BY <1>1, <1>2, DivBounds, DivLower
<1> QED
  BY <1>1, <1>3 DEF RateMul, growth

(* So does the debt. *)
LEMMA DebtGrows ==
    ASSUME TypeOK
    PROVE  Debt \in Nat /\ Debt >= debt
<1>1. RateMul \in Nat \ {0} /\ RateMul >= rate_mul
  BY RateMulGrows
<1>2. debt \in Nat /\ rate_mul \in Nat \ {0}
  BY DEF TypeOK
<1> DEFINE r == RateMul
<1> HIDE DEF r
<1>3. debt * rate_mul <= debt * r /\ debt * r \in Nat
  BY <1>1, <1>2, SMT DEF r
<1>4. (debt * r) \div rate_mul \in Int /\ debt <= (debt * r) \div rate_mul
  BY <1>2, <1>3, DivBounds, DivLower
<1> QED
  BY <1>2, <1>4, SMT DEF Debt, r

(* _collect_fees takes no more than the balance and, while minted does not
   exceed debt and redemptions, no more than the difference. *)
LEMMA CollectableFeesBounded ==
    ASSUME NEW d \in Nat, NEW m \in Nat, NEW r \in Nat, NEW balance \in Nat
    PROVE  /\ CollectableFees(d, m, r, balance) \in Nat
           /\ CollectableFees(d, m, r, balance) <= balance
           /\ d + r >= m => m + CollectableFees(d, m, r, balance) <= d + r
  BY SMT DEF CollectableFees, Smaller

(* LEV_RATIO is 4/9: a positive integer once WAD has room for the fraction. *)
LEMMA LevRatioType == LEV_RATIO \in Nat \ {0}
<1> DEFINE w2 == WAD * WAD
           a == LEVERAGE * LEVERAGE * WAD
           b == (2 * LEVERAGE - WAD) * (2 * LEVERAGE - WAD)
<1>1. WAD \in Nat /\ WAD > 2
  BY AMMAssumption
<1>2. LEVERAGE = 2 * WAD /\ 2 * LEVERAGE - WAD = 3 * WAD
  BY <1>1, SMT DEF LEVERAGE
<1>3. w2 \in Nat \ {0} /\ a = (4 * WAD) * w2 /\ b = 9 * w2
  BY <1>1, <1>2, SMT
<1>4. b \in Nat \ {0} /\ a \in Nat /\ 1 * b <= a
  <2> HIDE DEF w2, a, b
  <2>1. 12 * w2 <= (4 * WAD) * w2
    BY <1>1, <1>3, SMT
  <2> QED
    BY <1>1, <1>3, <2>1, SMT
<1>5. a \div b \in Int /\ 1 <= a \div b
  <2> HIDE DEF a, b
  <2> QED
    BY <1>4, DivBounds, DivLower
<1> QED
  BY <1>5, SMT DEF LEV_RATIO

(* get_x0 is an integer wherever the curve has a solution. *)
LEMMA X0Type ==
    ASSUME NEW p \in Nat, NEW c \in Nat, NEW d \in Nat, Discriminant(p, c, d) >= 0
    PROVE  get_x0(p, c, d) \in Int
<1> DEFINE v == CollValue(p, c)
           s == isqrt(Discriminant(p, c, d))
           k == (4 * v * LEV_RATIO) \div WAD
<1>1. WAD \in Nat \ {0} /\ LEV_RATIO \in Nat \ {0}
  BY AMMAssumption, LevRatioType, SMT
<1>2. v \in Int
  BY <1>1, SMT DEF CollValue
<1>3. k \in Int
  BY <1>1, <1>2, SMT
<1>4. Discriminant(p, c, d) = v * v - k * d
  BY DEF Discriminant
<1>5. Discriminant(p, c, d) \in Nat
  <2> HIDE DEF v, k
  <2> QED
    BY <1>2, <1>3, <1>4, SMT
<1>6. s \in Int
  <2>1. isqrt(Discriminant(p, c, d)) \in 0..Discriminant(p, c, d)
    BY <1>5, isqrtType
  <2> QED
    BY <2>1, <1>5, SMT
<1>7. get_x0(p, c, d) = ((v + s) * WAD) \div (2 * LEV_RATIO)
  BY DEF get_x0
<1> QED
  <2> HIDE DEF v, s
  <2> QED
    BY <1>1, <1>2, <1>6, <1>7, SMT

-----------------------------------------------------------------------------
(***************************************************************************)
(* What the handlers have in common                                        *)
(***************************************************************************)

(* Collecting and distributing the interest at the end of a handler keeps
   the books, provided the handler left them balanced. *)
LEMMA SettleKeepsBooks ==
    ASSUME TypeOK,
           NEW balances \in [Holders -> Nat],
           NEW c \in Nat, NEW d \in Nat, NEW m \in Nat, NEW r \in Nat,
           balances["amm"] + m - r = stablecoin_allocated + donated,
           d + r >= m,
           Settle(balances, c, d, m, r)
    PROVE  IInv'
<1> DEFINE fees == CollectableFees(d, m, r, balances["amm"])
           collected == Moved(balances, "amm", "lt", fees)
<1>1. fees \in Nat /\ fees <= balances["amm"] /\ m + fees <= d + r
  <2>1. balances["amm"] \in Nat
    BY DEF Holders
  <2> QED
    BY <2>1, CollectableFeesBounded
<1>2. /\ stable' = Moved(collected, "lt", "rest", collected["lt"])
      /\ collateral_amount' = c /\ debt' = d /\ minted' = m + fees /\ redeemed' = r
      /\ rate_mul' = RateMul /\ rate_time' = now
      /\ UNCHANGED <<now, p_o, rate, fee, is_killed, stablecoin_allocation,
                     stablecoin_allocated, donated>>
  BY DEF Settle, AccrueRate, admin, allocation, env
<1>3. /\ collected \in [Holders -> Nat]
      /\ collected["amm"] = balances["amm"] - fees
  <2>1. "amm" \in Holders /\ "lt" \in Holders /\ "amm" # "lt"
    BY DEF Holders
  <2> HIDE DEF fees
  <2> QED
    BY <1>1, <2>1, MovedType
<1>4. stable' \in [Holders -> Nat] /\ stable'["amm"] = collected["amm"]
  <2>1. /\ "rest" \in Holders /\ "lt" \in Holders /\ "rest" # "lt"
        /\ "amm" \in Holders \ {"lt", "rest"}
    BY DEF Holders
  <2>2. collected["lt"] \in Nat /\ collected["lt"] <= collected["lt"]
    BY <1>3, <2>1
  <2> HIDE DEF collected
  <2> QED
    BY <1>2, <1>3, <2>1, <2>2, MovedType
<1>5. RateMul \in Nat \ {0}
  BY RateMulGrows
<1>6. TypeOK'
  <2>1. minted' \in Nat
    BY <1>1, <1>2
  <2>2. now \in Nat /\ now \in 0..MaxTime
    BY AMMAssumption DEF TypeOK
  <2>3. rate_time' \in 0..now'
    BY <1>2, <2>2
  <2> QED
    BY <1>2, <1>4, <1>5, <2>1, <2>2, <2>3 DEF TypeOK
<1>7. AllocationConserved'
  BY <1>1, <1>2, <1>3, <1>4, SMT DEF AllocationConserved, TypeOK, Holders
<1>8. BookedDebtCovers'
  BY <1>1, <1>2 DEF BookedDebtCovers
<1> QED
  BY <1>6, <1>7, <1>8 DEF IInv

(* A part of a natural number, rounded either way, is no more than it. *)
LEMMA PartBounds ==
    ASSUME NEW n \in Nat, NEW f \in 0..WAD
    PROVE  /\ (n * f) \div WAD \in 0..n
           /\ ceil_div(n * f, WAD) \in 0..n
<1>1. WAD \in Nat \ {0} /\ f \in Nat /\ f <= WAD
  BY AMMAssumption, SMT
<1>2. n * f \in Nat /\ n * f <= n * WAD
  BY <1>1, SMT
<1> DEFINE a == n * f
<1>3. (a \div WAD) \in Int /\ 0 <= a \div WAD /\ a \div WAD <= n
  <2>1. 0 * WAD <= a
    BY <1>1, <1>2, SMT
  <2> HIDE DEF a
  <2>2. a \in Nat /\ a <= n * WAD
    BY <1>2 DEF a
  <2> QED
    BY <1>1, <2>1, <2>2, DivBounds, DivLower, DivUpper
<1>4. /\ (a + WAD - 1) \div WAD \in Int
      /\ 0 <= (a + WAD - 1) \div WAD
      /\ (a + WAD - 1) \div WAD <= n
  <2> DEFINE e == a + WAD - 1
  <2>1. a \in Nat /\ a <= n * WAD
    BY <1>2
  <2> HIDE DEF a
  <2>2. e \in Nat /\ 0 * WAD <= e
    BY <1>1, <2>1, SMT
  <2>3. e < (n + 1) * WAD
    BY <1>1, <2>1, SMT
  <2>4. e \div WAD \in Int /\ (e \div WAD) * WAD <= e /\ 0 <= e \div WAD
    <3> HIDE DEF e
    <3> QED
      BY <1>1, <2>2, DivBounds, DivLower
  <2>5. e \div WAD <= n
    <3> DEFINE k == e \div WAD
    <3>1. k \in Int /\ k * WAD < (n + 1) * WAD
      <4>1. e \in Int /\ WAD \in Int /\ n \in Int
        BY <1>1, <2>2
      <4> HIDE DEF e
      <4>2. k * WAD \in Int /\ (n + 1) * WAD \in Int
        BY <2>4, <4>1, SMT
      <4> HIDE DEF k
      <4> QED
        BY <2>3, <2>4, <4>1, <4>2, SMT DEF k
    <3> HIDE DEF k
    <3> SUFFICES ASSUME k >= n + 1 PROVE FALSE
      BY <3>1 DEF k
    <3>2. k * WAD >= (n + 1) * WAD
      BY <1>1, <3>1, SMT
    <3> QED
      BY <1>1, <3>1, <3>2, SMT
  <2> QED
    BY <2>4, <2>5
<1> QED
  BY <1>3, <1>4 DEF ceil_div

-----------------------------------------------------------------------------
(***************************************************************************)
(* Handlers                                                                *)
(***************************************************************************)

(* The ledger as every handler finds it: Debt is at least what the books
   require, and a payment into the AMM balances with a redemption. *)
LEMMA Books ==
    ASSUME IInv
    PROVE  /\ Debt \in Nat
           /\ Debt + redeemed >= minted
           /\ \A h \in {"factory", "amm", "lt", "rest"} : stable[h] \in Nat
           /\ stable["amm"] + minted - redeemed = stablecoin_allocated + donated
           /\ minted \in Nat /\ redeemed \in Nat /\ collateral_amount \in Nat
           /\ stablecoin_allocated \in Nat /\ donated \in Nat
           /\ fee \in 0..WAD /\ WAD \in Nat \ {0} /\ p_o \in Nat
           /\ RateMul \in Nat \ {0}
<1>1. TypeOK /\ AllocationConserved /\ BookedDebtCovers
  BY DEF IInv
<1>2. Debt \in Nat /\ Debt >= debt /\ RateMul \in Nat \ {0}
  BY <1>1, DebtGrows, RateMulGrows
<1>3. debt \in Nat /\ redeemed \in Nat /\ minted \in Nat /\ collateral_amount \in Nat
  BY <1>1 DEF TypeOK
<1>4. Debt + redeemed >= minted
  BY <1>1, <1>2, <1>3, SMT DEF BookedDebtCovers
<1>5. \A h \in {"factory", "amm", "lt", "rest"} : stable[h] \in Nat
  BY <1>1 DEF TypeOK, Holders
<1>6. fee \in 0..WAD /\ WAD \in Nat \ {0} /\ p_o \in Nat
  BY <1>1, AMMAssumption, SMT DEF TypeOK
<1>7. stablecoin_allocated \in Nat /\ donated \in Nat
  BY <1>1 DEF TypeOK
<1> QED
  BY <1>1, <1>2, <1>3, <1>4, <1>5, <1>6, <1>7 DEF AllocationConserved

(* What is paid into or out of the AMM, as far as its balance is concerned. *)
LEMMA AMMPayment ==
    ASSUME IInv, NEW x \in Nat
    PROVE  /\ x <= stable["rest"] =>
                 /\ Moved(stable, "rest", "amm", x) \in [Holders -> Nat]
                 /\ Moved(stable, "rest", "amm", x)["amm"] = stable["amm"] + x
           /\ x <= stable["amm"] =>
                 /\ Moved(stable, "amm", "rest", x) \in [Holders -> Nat]
                 /\ Moved(stable, "amm", "rest", x)["amm"] = stable["amm"] - x
<1>1. "amm" \in Holders /\ "rest" \in Holders /\ "amm" # "rest"
  BY DEF Holders
<1>2. stable \in [Holders -> Nat]
  BY DEF IInv, TypeOK
<1> QED
  BY <1>1, <1>2, MovedType

(* A trader never gets more collateral than there is. *)
LEMMA BuyOutBounded ==
    ASSUME IInv, NEW x \in Int, x >= 0, NEW in \in Nat, x + in > 0
    PROVE  BuyOut(x, in) \in Int /\ BuyOut(x, in) <= collateral_amount
<1> DEFINE c == collateral_amount
           w == x + in
           a == x * c + w - 1
           y == a \div w
           f == WAD - fee
           k == (c - y) * f
<1>1. c \in Nat /\ w \in Nat \ {0} /\ WAD \in Nat \ {0} /\ f \in Nat /\ f <= WAD
  BY Books, SMT
<1>2. a \in Nat
  <2>1. x * c \in Nat
    BY <1>1, SMT
  <2> QED
    BY <1>1, <2>1, SMT
<1>3. y \in Nat
  <2>1. 0 * w <= a
    BY <1>1, <1>2, SMT
  <2> HIDE DEF a, w
  <2> QED
    BY <1>1, <1>2, <2>1, DivBounds, DivLower, SMT
<1>4. k \in Int /\ k <= c * WAD
  <2> HIDE DEF y, f
  <2>1. k \in Int
    BY <1>1, <1>3, SMT
  <2>2. CASE c - y >= 0
    <3>1. k <= (c - y) * WAD
      BY <1>1, <1>3, <2>2, SMT
    <3>2. (c - y) * WAD <= c * WAD
      BY <1>1, <1>3, SMT
    <3> QED
      BY <1>1, <1>3, <2>1, <3>1, <3>2, SMT
  <2>3. CASE c - y < 0
    <3>1. k <= 0 /\ 0 <= c * WAD
      BY <1>1, <1>3, <2>3, SMT
    <3> QED
      BY <1>1, <2>1, <3>1, SMT
  <2> QED
    BY <1>1, <1>3, <2>2, <2>3, SMT
<1>5. k \div WAD \in Int /\ k \div WAD <= c
  <2> HIDE DEF k, c
  <2> QED
    BY <1>1, <1>4, DivBounds, DivUpper
<1> QED
  BY <1>5 DEF BuyOut, ceil_div

(* exchange(0, 1) moves its tokens and its counters by the same amounts. *)
LEMMA ExchangeBuyKeepsBooks ==
    ASSUME IInv, NEW in \in Amounts, ExchangeBuy(in)
    PROVE  IInv'
<1> DEFINE x0 == get_x0(p_o, collateral_amount, Debt)
           out == BuyOut(x0 - Debt, in)
           paid == Moved(stable, "rest", "amm", in)
<1>1. /\ Discriminant(p_o, collateral_amount, Debt) >= 0
      /\ x0 - Debt >= 0 /\ x0 - Debt + in > 0 /\ out >= 0
      /\ in <= Debt /\ in <= stable["rest"]
      /\ Settle(paid, collateral_amount - out, Debt - in, minted, redeemed + in)
  BY DEF ExchangeBuy
<1>2. in \in Nat
  BY AMMAssumption
<1>3. x0 \in Int
  BY <1>1, Books, X0Type
<1>4. out \in Int /\ out <= collateral_amount
  <2>1. x0 - Debt \in Int
    BY <1>3, Books, SMT
  <2> HIDE DEF x0
  <2> QED
    BY <1>1, <1>2, <2>1, BuyOutBounded
<1>5. /\ collateral_amount - out \in Nat /\ Debt - in \in Nat /\ redeemed + in \in Nat
      /\ (Debt - in) + (redeemed + in) >= minted
  <2> HIDE DEF out
  <2> QED
    BY <1>1, <1>2, <1>4, Books, SMT
<1>6. /\ paid \in [Holders -> Nat]
      /\ paid["amm"] + minted - (redeemed + in) = stablecoin_allocated + donated
  BY <1>1, <1>2, Books, AMMPayment, SMT
<1> HIDE DEF out, paid
<1> QED
  BY <1>1, <1>5, <1>6, Books, SettleKeepsBooks DEF IInv

(* exchange(1, 0) books the debt it hands out as minted. *)
LEMMA ExchangeSellKeepsBooks ==
    ASSUME IInv, NEW in \in Amounts, ExchangeSell(in)
    PROVE  IInv'
<1> DEFINE x0 == get_x0(p_o, collateral_amount, Debt)
           out == SellOut(x0 - Debt, in)
           paid == Moved(stable, "amm", "rest", out)
<1>1. /\ collateral_amount > 0
      /\ Discriminant(p_o, collateral_amount, Debt) >= 0
      /\ out >= 0 /\ out <= stable["amm"]
      /\ Settle(paid, collateral_amount + in, Debt + out, minted + out, redeemed)
  BY DEF ExchangeSell
<1>2. in \in Nat
  BY AMMAssumption
<1>3. x0 \in Int
  BY <1>1, Books, X0Type
<1>4. out \in Nat
  <2> DEFINE x == x0 - Debt
             w == collateral_amount + in
             y == (x * collateral_amount + w - 1) \div w
             k == (x - y) * (WAD - fee)
  <2>1. x \in Int /\ w \in Nat \ {0}
    BY <1>1, <1>2, <1>3, Books, SMT
  <2>2. y \in Int
    <3> HIDE DEF x, w
    <3>1. x * collateral_amount + w - 1 \in Int
      BY <2>1, Books, SMT
    <3> QED
      BY <2>1, <3>1, DivBounds
  <2>3. k \in Int
    <3> HIDE DEF x, y
    <3> QED
      BY <2>1, <2>2, Books, SMT
  <2>4. k \div WAD \in Int
    <3> HIDE DEF k
    <3> QED
      BY <2>3, Books, DivBounds
  <2>5. out = k \div WAD
    BY DEF SellOut, ceil_div
  <2> HIDE DEF k
  <2> QED
    BY <1>1, <2>4, <2>5, SMT
<1>5. /\ collateral_amount + in \in Nat /\ Debt + out \in Nat /\ minted + out \in Nat
      /\ (Debt + out) + redeemed >= minted + out
  <2> HIDE DEF out
  <2> QED
    BY <1>2, <1>4, Books, SMT
<1>6. /\ paid \in [Holders -> Nat]
      /\ paid["amm"] + (minted + out) - redeemed = stablecoin_allocated + donated
  <2> HIDE DEF out
  <2> QED
    BY <1>1, <1>4, Books, AMMPayment, SMT DEF out
<1> HIDE DEF out, paid
<1> QED
  BY <1>1, <1>5, <1>6, Books, SettleKeepsBooks DEF IInv

(* LT.deposit books the debt it takes from the AMM as minted. *)
LEMMA DepositKeepsBooks ==
    ASSUME IInv, NEW d_debt \in Amounts, NEW d_collateral \in Amounts,
           Deposit(d_debt, d_collateral)
    PROVE  IInv'
<1> DEFINE paid == Moved(stable, "amm", "rest", d_debt)
<1>1. /\ d_debt <= stable["amm"]
      /\ Settle(paid, collateral_amount + d_collateral, Debt + d_debt,
                minted + d_debt, redeemed)
  BY DEF Deposit
<1>2. d_debt \in Nat /\ d_collateral \in Nat
  BY AMMAssumption
<1>3. /\ collateral_amount + d_collateral \in Nat
      /\ Debt + d_debt \in Nat /\ minted + d_debt \in Nat
      /\ (Debt + d_debt) + redeemed >= minted + d_debt
  BY <1>2, Books, SMT
<1>4. /\ paid \in [Holders -> Nat]
      /\ paid["amm"] + (minted + d_debt) - redeemed = stablecoin_allocated + donated
  BY <1>1, <1>2, Books, AMMPayment, SMT
<1> HIDE DEF paid
<1> QED
  BY <1>1, <1>3, <1>4, Books, SettleKeepsBooks DEF IInv

(* AMM._withdraw takes no more collateral and debt than there is. *)
LEMMA WithdrawnBounds ==
    ASSUME IInv, NEW frac \in Fracs
    PROVE  /\ WithdrawnCollateral(frac) \in 0..collateral_amount
           /\ WithdrawnDebt(frac) \in 0..Debt
<1>1. frac \in 0..WAD
  BY AMMAssumption
<1> QED
  BY <1>1, Books, PartBounds DEF WithdrawnCollateral, WithdrawnDebt

(* Both ways to withdraw leave the same books before fees are collected. *)
LEMMA WithdrawalBalances ==
    ASSUME IInv, NEW frac \in Fracs, WithdrawnDebt(frac) <= stable["rest"]
    PROVE  LET d_debt == WithdrawnDebt(frac)
               paid == Moved(stable, "rest", "amm", d_debt)
           IN  /\ collateral_amount - WithdrawnCollateral(frac) \in Nat
               /\ Debt - d_debt \in Nat /\ redeemed + d_debt \in Nat
               /\ (Debt - d_debt) + (redeemed + d_debt) >= minted
               /\ paid \in [Holders -> Nat]
               /\ paid["amm"] + minted - (redeemed + d_debt)
                     = stablecoin_allocated + donated
<1> DEFINE d_debt == WithdrawnDebt(frac)
<1>1. /\ WithdrawnCollateral(frac) \in 0..collateral_amount
      /\ d_debt \in 0..Debt
  BY WithdrawnBounds
<1>2. /\ collateral_amount - WithdrawnCollateral(frac) \in Nat
      /\ d_debt \in Nat
      /\ Debt - d_debt \in Nat /\ redeemed + d_debt \in Nat
      /\ (Debt - d_debt) + (redeemed + d_debt) >= minted
  BY <1>1, Books, SMT
<1>3. /\ Moved(stable, "rest", "amm", d_debt) \in [Holders -> Nat]
      /\ Moved(stable, "rest", "amm", d_debt)["amm"] + minted - (redeemed + d_debt)
            = stablecoin_allocated + donated
  <2> HIDE DEF d_debt
  <2>1. d_debt <= stable["rest"]
    BY DEF d_debt
  <2> QED
    BY <1>2, <2>1, Books, AMMPayment, SMT
<1> QED
  BY <1>2, <1>3

(* LT.withdraw books the debt it repays as redeemed. *)
LEMMA WithdrawKeepsBooks ==
    ASSUME IInv, NEW frac \in Fracs, Withdraw(frac)
    PROVE  IInv'
<1> DEFINE d_debt == WithdrawnDebt(frac)
           paid == Moved(stable, "rest", "amm", d_debt)
           c == collateral_amount - WithdrawnCollateral(frac)
<1>1. /\ d_debt <= stable["rest"]
      /\ Settle(paid, c, Debt - d_debt, minted, redeemed + d_debt)
  BY DEF Withdraw
<1>2. /\ c \in Nat /\ Debt - d_debt \in Nat /\ redeemed + d_debt \in Nat
      /\ (Debt - d_debt) + (redeemed + d_debt) >= minted
      /\ paid \in [Holders -> Nat]
      /\ paid["amm"] + minted - (redeemed + d_debt) = stablecoin_allocated + donated
  BY <1>1, WithdrawalBalances
<1>3. minted \in Nat /\ TypeOK
  BY Books DEF IInv
<1> HIDE DEF paid, c, d_debt
<1> QED
  BY <1>1, <1>2, <1>3, SettleKeepsBooks

(* LT.emergency_withdraw does the same without collecting fees. *)
LEMMA EmergencyWithdrawKeepsBooks ==
    ASSUME IInv, NEW frac \in Fracs, EmergencyWithdraw(frac)
    PROVE  IInv'
<1> DEFINE d_debt == WithdrawnDebt(frac)
           paid == Moved(stable, "rest", "amm", d_debt)
           c == collateral_amount - WithdrawnCollateral(frac)
<1>1. /\ d_debt <= stable["rest"]
      /\ stable' = paid /\ collateral_amount' = c
      /\ debt' = Debt - d_debt /\ redeemed' = redeemed + d_debt
      /\ rate_mul' = RateMul /\ rate_time' = now
      /\ UNCHANGED <<now, p_o, rate, minted, fee, is_killed, stablecoin_allocation,
                     stablecoin_allocated, donated>>
  BY DEF EmergencyWithdraw, AccrueRate, admin, allocation, env
<1>2. /\ c \in Nat /\ Debt - d_debt \in Nat /\ redeemed + d_debt \in Nat
      /\ (Debt - d_debt) + (redeemed + d_debt) >= minted
      /\ paid \in [Holders -> Nat]
      /\ paid["amm"] + minted - (redeemed + d_debt) = stablecoin_allocated + donated
  BY <1>1, WithdrawalBalances
<1>3. RateMul \in Nat \ {0} /\ now \in 0..now
  BY Books, AMMAssumption, SMT DEF IInv, TypeOK
<1> HIDE DEF paid, c, d_debt
<1>4. TypeOK'
  BY <1>1, <1>2, <1>3 DEF IInv, TypeOK
<1>5. AllocationConserved' /\ BookedDebtCovers'
  BY <1>1, <1>2 DEF AllocationConserved, BookedDebtCovers
<1> QED
  BY <1>4, <1>5 DEF IInv

(* AMM._collect_fees books what it can pay, and no more, as minted. *)
LEMMA CollectFeesKeepsBooks ==
    ASSUME IInv, CollectFees
    PROVE  IInv'
<1> DEFINE fees == CollectableFees(Debt, minted, redeemed, stable["amm"])
<1>1. /\ stable' = Moved(stable, "amm", "lt", fees)
      /\ debt' = Debt /\ minted' = minted + fees
      /\ rate_mul' = RateMul /\ rate_time' = now
      /\ UNCHANGED <<now, p_o, collateral_amount, redeemed, rate, fee, is_killed,
                     stablecoin_allocation, stablecoin_allocated, donated>>
  BY DEF CollectFees, AccrueRate, admin, allocation, env
<1>2. fees \in Nat /\ fees <= stable["amm"] /\ minted + fees <= Debt + redeemed
  BY Books, CollectableFeesBounded
<1>3. stable' \in [Holders -> Nat] /\ stable'["amm"] = stable["amm"] - fees
  <2>1. "amm" \in Holders /\ "lt" \in Holders /\ "amm" # "lt"
    BY DEF Holders
  <2>2. stable \in [Holders -> Nat]
    BY DEF IInv, TypeOK
  <2> HIDE DEF fees
  <2> QED
    BY <1>1, <1>2, <2>1, <2>2, MovedType
<1> HIDE DEF fees
<1>4. now \in 0..now /\ minted' \in Nat /\ Debt \in Nat /\ RateMul \in Nat \ {0}
  BY <1>1, <1>2, Books, AMMAssumption, SMT DEF IInv, TypeOK
<1>5. TypeOK'
  BY <1>1, <1>3, <1>4 DEF IInv, TypeOK
<1>6. AllocationConserved'
  BY <1>1, <1>2, <1>3, Books, SMT DEF AllocationConserved
<1>7. BookedDebtCovers'
  BY <1>1, <1>2 DEF BookedDebtCovers
<1> QED
  BY <1>5, <1>6, <1>7 DEF IInv

(* LT.distribute_borrower_fees collects and passes on. *)
LEMMA DistributeKeepsBooks ==
    ASSUME IInv, DistributeBorrowerFees
    PROVE  IInv'
<1>1. Settle(stable, collateral_amount, Debt, minted, redeemed)
  BY DEF DistributeBorrowerFees
<1>2. TypeOK /\ stable \in [Holders -> Nat]
  BY DEF IInv, TypeOK
<1> QED
  BY <1>1, <1>2, Books, SettleKeepsBooks

(* set_rate writes the debt up; the other switches leave the books alone. *)
LEMMA GovernanceKeepsBooks ==
    /\ \A r \in Rates : IInv /\ SetRate(r) => IInv'
    /\ \A f \in Fees : IInv /\ SetFee(f) => IInv'
    /\ \A k \in BOOLEAN : IInv /\ SetKilled(k) => IInv'
<1>1. ASSUME NEW r \in Rates, IInv, SetRate(r) PROVE IInv'
  <2>1. /\ debt' = Debt /\ rate_mul' = RateMul /\ rate_time' = now /\ rate' = r
        /\ UNCHANGED <<now, p_o, stable, collateral_amount, minted, redeemed, fee,
                       is_killed, stablecoin_allocation, stablecoin_allocated, donated>>
    BY <1>1 DEF SetRate, AccrueRate, allocation, env
  <2>2. r \in Nat /\ now \in 0..now /\ Debt \in Nat /\ RateMul \in Nat \ {0}
    BY <1>1, Books, AMMAssumption, SMT DEF IInv, TypeOK
  <2>3. TypeOK'
    BY <1>1, <2>1, <2>2 DEF IInv, TypeOK
  <2>4. AllocationConserved' /\ BookedDebtCovers'
    BY <1>1, <2>1, Books DEF AllocationConserved, BookedDebtCovers
  <2> QED
    BY <2>3, <2>4 DEF IInv
<1>2. ASSUME NEW f \in Fees, IInv, SetFee(f) PROVE IInv'
  BY <1>2 DEF SetFee, market, allocation, env, IInv, TypeOK, AllocationConserved,
              BookedDebtCovers
<1>3. ASSUME NEW k \in BOOLEAN, IInv, SetKilled(k) PROVE IInv'
  BY <1>3 DEF SetKilled, market, allocation, env, IInv, TypeOK, AllocationConserved,
              BookedDebtCovers
<1> QED
  BY <1>1, <1>2, <1>3

(* The safe lower limit of LT.allocate_stablecoins is a natural number. *)
LEMMA SafeLowerLimitType ==
    ASSUME IInv
    PROVE  SafeLowerLimit \in Int
<1> DEFINE v == (p_o * collateral_amount * 3) \div 4
<1>1. p_o * collateral_amount * 3 \in Int
  BY Books, SMT
<1>2. v \in Int
  BY <1>1, DivBounds
<1> HIDE DEF v
<1>3. v \div WAD \in Int
  BY <1>2, Books, DivBounds
<1> QED
  BY <1>3 DEF v, SafeLowerLimit

(* A change of the allocation moves as many stablecoins as it books, and the
   limit that remains stays above the safe lower limit. *)
LEMMA AllocateTowardsKeepsBooks ==
    ASSUME IInv, NEW limit \in Nat, AllocateTowards(limit),
           stablecoin_allocation' \in Nat
    PROVE  /\ IInv'
           /\ stablecoin_allocated' < stablecoin_allocated
                => SafeLowerLimit' <= stablecoin_allocated'
<1>1. UNCHANGED <<now, p_o, collateral_amount, debt, rate, rate_mul, rate_time,
                 minted, redeemed, fee, is_killed, donated>>
  BY DEF AllocateTowards, market, env
<1>2. stable \in [Holders -> Nat] /\ TypeOK /\ AllocationConserved /\ BookedDebtCovers
  BY DEF IInv, TypeOK
<1>3. "amm" \in Holders /\ "factory" \in Holders /\ "amm" # "factory"
  BY DEF Holders
<1>4. BookedDebtCovers'
  BY <1>1, <1>2 DEF BookedDebtCovers
<1>5. ASSUME stable' \in [Holders -> Nat], stablecoin_allocated' \in Nat
      PROVE  TypeOK'
  BY <1>1, <1>2, <1>5 DEF TypeOK
<1>6. CASE Allocate(limit)
  <2> DEFINE x == Smaller(limit - stablecoin_allocated, stable["factory"])
  <2>1. /\ limit > stablecoin_allocated
        /\ stable' = Moved(stable, "factory", "amm", x)
        /\ stablecoin_allocated' = stablecoin_allocated + x
    BY <1>6 DEF Allocate
  <2>2. x \in Nat /\ x <= stable["factory"]
    BY <2>1, Books, SMT DEF Smaller
  <2> HIDE DEF x
  <2>3. stable' \in [Holders -> Nat] /\ stable'["amm"] = stable["amm"] + x
    BY <1>2, <1>3, <2>1, <2>2, MovedType
  <2>4. TypeOK'
    BY <1>5, <2>1, <2>2, <2>3, Books, SMT
  <2>5. AllocationConserved' /\ ~(stablecoin_allocated' < stablecoin_allocated)
    BY <1>1, <2>1, <2>2, <2>3, Books, SMT DEF AllocationConserved
  <2> QED
    BY <1>4, <2>4, <2>5 DEF IInv
<1>7. CASE Deallocate(limit)
  <2> DEFINE x == Smaller(Smaller(stablecoin_allocated - limit,
                                  stablecoin_allocated - SafeLowerLimit),
                          stable["amm"])
  <2>1. /\ limit < stablecoin_allocated
        /\ SafeLowerLimit <= stablecoin_allocated
        /\ stable' = Moved(stable, "amm", "factory", x)
        /\ stablecoin_allocated' = stablecoin_allocated - x
    BY <1>7 DEF Deallocate
  <2>2. SafeLowerLimit \in Int
    BY SafeLowerLimitType
  <2>3. /\ x \in Nat /\ x <= stable["amm"]
        /\ x <= stablecoin_allocated - limit
        /\ x <= stablecoin_allocated - SafeLowerLimit
    BY <2>1, <2>2, Books, SMT DEF Smaller
  <2> HIDE DEF x
  <2>4. stable' \in [Holders -> Nat] /\ stable'["amm"] = stable["amm"] - x
    BY <1>2, <1>3, <2>1, <2>3, MovedType
  <2>5. stablecoin_allocated' \in Nat /\ SafeLowerLimit <= stablecoin_allocated'
    BY <2>1, <2>2, <2>3, Books, SMT
  <2>6. SafeLowerLimit' = SafeLowerLimit
    BY <1>1 DEF SafeLowerLimit
  <2>7. AllocationConserved'
    BY <1>1, <2>1, <2>3, <2>4, Books, SMT DEF AllocationConserved
  <2> QED
    BY <1>4, <1>5, <2>4, <2>5, <2>6, <2>7 DEF IInv
<1>8. CASE KeepAllocated(limit)
  <2>1. UNCHANGED <<stable, stablecoin_allocated>>
    BY <1>8 DEF KeepAllocated
  <2>2. stablecoin_allocated \in Nat
    BY Books
  <2>3. TypeOK' /\ ~(stablecoin_allocated' < stablecoin_allocated)
    BY <1>2, <1>5, <2>1, <2>2, SMT
  <2>4. AllocationConserved'
    BY <1>1, <1>2, <2>1 DEF AllocationConserved
  <2> QED
    BY <1>4, <2>3, <2>4 DEF IInv
<1> QED
  BY <1>6, <1>7, <1>8 DEF AllocateTowards

(* LT.allocate_stablecoins moves the allocation and the balance together. *)
LEMMA AllocationKeepsBooks ==
    ASSUME IInv,
           \/ \E l \in Limits : AllocateStablecoinsAdmin(l)
           \/ AllocateStablecoins
    PROVE  /\ IInv'
           /\ stablecoin_allocated' < stablecoin_allocated
                => SafeLowerLimit' <= stablecoin_allocated'
<1>1. CASE \E l \in Limits : AllocateStablecoinsAdmin(l)
  <2>1. PICK l \in Limits : AllocateStablecoinsAdmin(l)
    BY <1>1
  <2>2. l \in Nat /\ stablecoin_allocation' \in Nat /\ AllocateTowards(l)
    BY <2>1, AMMAssumption DEF AllocateStablecoinsAdmin
  <2> QED
    BY <2>2, AllocateTowardsKeepsBooks
<1>2. CASE AllocateStablecoins
  <2>1. stablecoin_allocation \in Nat
    BY DEF IInv, TypeOK
  <2>2. stablecoin_allocation' \in Nat /\ AllocateTowards(stablecoin_allocation)
    BY <1>2, <2>1 DEF AllocateStablecoins
  <2> QED
    BY <2>1, <2>2, AllocateTowardsKeepsBooks
<1> QED
  BY <1>1, <1>2

(* Time, prices and transfers that bypass the contracts keep the books:
   a donation to the AMM is accounted for by `donated'. *)
LEMMA EnvironmentKeepsBooks ==
    ASSUME IInv, Environment
    PROVE  IInv'
<1>1. stable \in [Holders -> Nat] /\ TypeOK /\ AllocationConserved /\ BookedDebtCovers
  BY DEF IInv, TypeOK
<1>2. /\ {"factory", "amm", "rest"} \subseteq Holders
      /\ "amm" # "rest" /\ "factory" # "rest" /\ "amm" # "factory"
  BY DEF Holders
<1>3. CASE Tick
  <2>1. now' = now + 1 /\ now < MaxTime
    BY <1>3 DEF Tick
  <2>2. now' \in 0..MaxTime /\ rate_time \in 0..now'
    BY <1>1, <2>1, AMMAssumption, SMT DEF TypeOK
  <2> QED
    BY <1>1, <1>3, <2>2 DEF Tick, market, allocation, IInv, TypeOK,
                            AllocationConserved, BookedDebtCovers
<1>4. ASSUME NEW p \in Prices, PriceMoves(p) PROVE IInv'
  BY <1>1, <1>4 DEF PriceMoves, market, allocation, IInv, TypeOK,
                    AllocationConserved, BookedDebtCovers
<1>5. ASSUME NEW x \in Amounts, Donate(x) PROVE IInv'
  <2>1. x \in Nat
    BY AMMAssumption
  <2>2. /\ x <= stable["rest"] /\ stable' = Moved(stable, "rest", "amm", x)
        /\ donated' = donated + x
        /\ UNCHANGED <<market, fee, is_killed, allocation, env>>
    BY <1>5 DEF Donate
  <2>3. stable' \in [Holders -> Nat] /\ stable'["amm"] = stable["amm"] + x
    BY <1>1, <1>2, <2>1, <2>2, MovedType
  <2>4. donated' \in Nat
    BY <2>1, <2>2, Books, SMT
  <2>5. TypeOK'
    BY <1>1, <2>2, <2>3, <2>4 DEF market, allocation, env, TypeOK
  <2>6. AllocationConserved'
    BY <2>1, <2>2, <2>3, Books, SMT DEF market, allocation, AllocationConserved
  <2>7. BookedDebtCovers'
    BY <1>1, <2>2 DEF market, BookedDebtCovers
  <2> QED
    BY <2>5, <2>6, <2>7 DEF IInv
<1>6. ASSUME NEW x \in Pulls, TakeBackFunds(x) PROVE IInv'
  <2>1. x \in Nat
    BY AMMAssumption
  <2>2. /\ x <= stable["factory"] /\ stable' = Moved(stable, "factory", "rest", x)
        /\ UNCHANGED <<market, fee, is_killed, allocation, env, donated>>
    BY <1>6 DEF TakeBackFunds
  <2>3. stable' \in [Holders -> Nat] /\ stable'["amm"] = stable["amm"]
    BY <1>1, <1>2, <2>1, <2>2, MovedType
  <2> QED
    BY <1>1, <2>2, <2>3 DEF market, allocation, env, IInv, TypeOK,
                            AllocationConserved, BookedDebtCovers
<1> QED
  BY <1>3, <1>4, <1>5, <1>6 DEF Environment

-----------------------------------------------------------------------------
(***************************************************************************)
(* The theorems                                                            *)
(***************************************************************************)

(* The books of the constructor of AMM.vy balance. *)
LEMMA InitKeepsBooks == Init => IInv
<1> SUFFICES ASSUME Init PROVE IInv
  OBVIOUS
<1>1. stable \in [Holders -> Nat] /\ stable["amm"] = 0
  BY AMMAssumption DEF Init, Holders
<1>2. WAD \in Nat \ {0} /\ 0 \in 0..MaxTime /\ 0 \in 0..0
  BY AMMAssumption, SMT
<1>3. TypeOK
  BY <1>1, <1>2 DEF Init, TypeOK
<1>4. AllocationConserved /\ BookedDebtCovers
  BY <1>1 DEF Init, AllocationConserved, BookedDebtCovers
<1> QED
  BY <1>3, <1>4 DEF IInv

(* Every handler of AMM.vy and LT.vy in the model keeps the books. *)
LEMMA NextKeepsBooks == IInv /\ [Next]_vars => IInv'
<1> SUFFICES ASSUME IInv, [Next]_vars PROVE IInv'
  OBVIOUS
<1>1. CASE Trade
  BY <1>1, ExchangeBuyKeepsBooks, ExchangeSellKeepsBooks DEF Trade
<1>2. CASE \E d, c \in Amounts : Deposit(d, c)
  BY <1>2, DepositKeepsBooks
<1>3. CASE \E f \in Fracs : Withdraw(f) \/ EmergencyWithdraw(f)
  BY <1>3, WithdrawKeepsBooks, EmergencyWithdrawKeepsBooks
<1>4. CASE CollectFees
  BY <1>4, CollectFeesKeepsBooks
<1>5. CASE DistributeBorrowerFees
  BY <1>5, DistributeKeepsBooks
<1>6. CASE AllocateStablecoins
  BY <1>6, AllocationKeepsBooks
<1>7. CASE Governance
  BY <1>7, GovernanceKeepsBooks, AllocationKeepsBooks DEF Governance
<1>8. CASE Environment
  BY <1>8, EnvironmentKeepsBooks
<1>9. CASE UNCHANGED vars
  BY <1>9 DEF vars, IInv, TypeOK, AllocationConserved, BookedDebtCovers
<1> QED
  BY <1>1, <1>2, <1>3, <1>4, <1>5, <1>6, <1>7, <1>8, <1>9 DEF Next

(* The inductive invariant of the ledger of AMM.vy and LT.vy. *)
LEMMA BooksKept == Spec => []IInv
  BY InitKeepsBooks, NextKeepsBooks, PTL DEF Spec

(* Every variable keeps its type: in particular no balance, debt or amount of
   collateral becomes negative, that is, no transaction of the model takes out
   more than there is. *)
THEOREM TypeCorrect == Spec => []TypeOK
<1>1. IInv => TypeOK
  BY DEF IInv
<1> QED
  BY <1>1, BooksKept, PTL

(* The stablecoins the factory allocated are accounted for: cash in the AMM
   plus what is minted and not redeemed, whatever the order of the calls. *)
THEOREM AllocationIsConserved == Spec => []AllocationConserved
<1>1. IInv => AllocationConserved
  BY DEF IInv
<1> QED
  BY <1>1, BooksKept, PTL

(* The debt never falls below what was minted and not redeemed, so the
   interest that _collect_fees computes by subtraction is never lost to an
   underflow or taken for a loss. *)
THEOREM InterestIsNonNegative == Spec => []InterestNonNegative
<1>1. IInv => InterestNonNegative
  BY Books DEF InterestNonNegative
<1> QED
  BY <1>1, BooksKept, PTL

(* Balanced books cover the allocation that LT.vy has on record. *)
LEMMA BooksCoverAllocation == IInv => AllocationRecoverable
<1> SUFFICES ASSUME IInv PROVE AllocationRecoverable
  OBVIOUS
<1>1. /\ stable["amm"] \in Nat /\ Debt \in Nat /\ minted \in Nat /\ redeemed \in Nat
      /\ stablecoin_allocated \in Nat /\ donated \in Nat
      /\ Debt + redeemed >= minted
      /\ stable["amm"] + minted - redeemed = stablecoin_allocated + donated
  BY Books
<1> QED
  BY <1>1, SMT DEF AllocationRecoverable

(* Cash and debt always cover the allocation: interest is paid from interest. *)
THEOREM AllocationIsRecoverable == Spec => []AllocationRecoverable
  BY BooksCoverAllocation, BooksKept, PTL

(* A call that moves no allocation leaves stablecoin_allocated alone; one that
   reduces it stops at the safe lower limit. *)
LEMMA ReductionStopsAtLimit ==
    ASSUME IInv, [Next]_vars, stablecoin_allocated' < stablecoin_allocated
    PROVE  SafeLowerLimit' <= stablecoin_allocated'
<1> stablecoin_allocated \in Nat
  BY Books
<1>1. ASSUME stablecoin_allocated' = stablecoin_allocated PROVE FALSE
  BY <1>1, SMT
<1>2. ~Trade
  BY <1>1 DEF Trade, ExchangeBuy, ExchangeSell, Settle, allocation
<1>3. ~(\E d, c \in Amounts : Deposit(d, c))
  BY <1>1 DEF Deposit, Settle, allocation
<1>4. ~(\E f \in Fracs : Withdraw(f) \/ EmergencyWithdraw(f))
  BY <1>1 DEF Withdraw, EmergencyWithdraw, Settle, allocation
<1>5. ~CollectFees /\ ~DistributeBorrowerFees
  BY <1>1 DEF CollectFees, DistributeBorrowerFees, Settle, allocation
<1>6. ~Environment
  BY <1>1 DEF Environment, Tick, PriceMoves, Donate, TakeBackFunds, allocation
<1>7. /\ ~(\E r \in Rates : SetRate(r))
      /\ ~(\E f \in Fees : SetFee(f))
      /\ ~(\E k \in BOOLEAN : SetKilled(k))
  BY <1>1 DEF SetRate, SetFee, SetKilled, allocation
<1>8. ~(UNCHANGED vars)
  BY <1>1 DEF vars
<1>9. (\E l \in Limits : AllocateStablecoinsAdmin(l)) \/ AllocateStablecoins
  BY <1>2, <1>3, <1>4, <1>5, <1>6, <1>7, <1>8 DEF Next, Governance
<1> QED
  BY <1>9, AllocationKeepsBooks

LimitCovered ==
    SafeLowerLimit <= stablecoin_allocated => stable["amm"] + Debt >= SafeLowerLimit

(* An allocation of at least the safe lower limit of LT.allocate_stablecoins is
   covered by that limit in cash and debt. *)
LEMMA LimitIsCovered == IInv => LimitCovered
<1> USE DEF LimitCovered
<1> SUFFICES ASSUME IInv, SafeLowerLimit <= stablecoin_allocated
             PROVE  stable["amm"] + Debt >= SafeLowerLimit
  OBVIOUS
<1>1. SafeLowerLimit \in Int
  BY SafeLowerLimitType
<1> QED
  BY <1>1, BooksCoverAllocation, Books, SMT DEF AllocationRecoverable

(* After any reduction of the allocation the AMM's cash and debt are worth at
   least 3/4 of its collateral. *)
THEOREM DeallocationIsSafe == Spec => DeallocationKeepsReserve
<1>1. IInv /\ [Next]_vars
      => (stablecoin_allocated' < stablecoin_allocated
            => SafeLowerLimit' <= stablecoin_allocated')
  BY ReductionStopsAtLimit
<1>2. IInv' => LimitCovered'
  BY LimitIsCovered, PTL
<1>3. IInv /\ IInv' /\ [Next]_vars
      => [stablecoin_allocated' < stablecoin_allocated
            => (stable["amm"] + Debt)' >= SafeLowerLimit']_vars
  BY <1>1, <1>2 DEF LimitCovered
<1> QED
  BY <1>3, BooksKept, PTL DEF Spec, DeallocationKeepsReserve

-----------------------------------------------------------------------------
(***************************************************************************)
(* Rounding                                                                *)
(***************************************************************************)

(* ceil_div is not below the quotient it rounds. *)
LEMMA CeilDivLower ==
    ASSUME NEW a \in Nat, NEW w \in Nat \ {0}
    PROVE  ceil_div(a, w) \in Int /\ ceil_div(a, w) * w >= a
<1> DEFINE k == (a + w - 1) \div w
<1>1. k \in Int /\ a + w - 1 < k * w + w
  <2> DEFINE e == a + w - 1
  <2>1. e \in Int
    BY SMT
  <2> HIDE DEF e
  <2>2. e \div w \in Int /\ e < (e \div w) * w + w
    BY <2>1, DivBounds
  <2> QED
    BY <2>2 DEF e
<1>2. k * w \in Int
  BY <1>1, SMT
<1> HIDE DEF k
<1>3. k * w >= a
  BY <1>1, <1>2, SMT
<1> QED
  BY <1>1, <1>3 DEF k, ceil_div

(* With the debt rounded up and the collateral rounded down, what remains has
   no more debt per unit of collateral. *)
LEMMA RoundingIsFair ==
    ASSUME IInv, NEW frac \in Fracs
    PROVE  (Debt - WithdrawnDebt(frac)) * collateral_amount
             <= Debt * (collateral_amount - WithdrawnCollateral(frac))
<1> DEFINE D == Debt
           c == collateral_amount
           q == WithdrawnDebt(frac)
           k == WithdrawnCollateral(frac)
<1>1. D \in Nat /\ c \in Nat /\ frac \in Nat /\ WAD \in Nat \ {0}
  BY Books, AMMAssumption, SMT
<1>2. q \in Nat /\ k \in Nat
  BY <1>1, WithdrawnBounds
<1>3. D * frac <= q * WAD
  <2>1. D * frac \in Nat
    BY <1>1, SMT
  <2> QED
    BY <1>1, <2>1, CeilDivLower DEF WithdrawnDebt
<1>4. k * WAD <= c * frac
  <2>1. c * frac \in Int
    BY <1>1, SMT
  <2> QED
    BY <1>1, <2>1, DivBounds DEF WithdrawnCollateral
<1> HIDE DEF D, c, q, k
<1>5. (D * frac) * c <= (q * WAD) * c
  BY <1>1, <1>2, <1>3, SMT
<1>6. D * (k * WAD) <= D * (c * frac)
  BY <1>1, <1>2, <1>4, SMT
<1>7. (D * k) * WAD <= (q * c) * WAD
  <2>1. /\ (D * frac) * c = D * (c * frac)
        /\ D * (k * WAD) = (D * k) * WAD
        /\ (q * WAD) * c = (q * c) * WAD
    BY <1>1, <1>2, SMT
  <2>2. /\ (D * frac) * c \in Int /\ D * (k * WAD) \in Int /\ (q * WAD) * c \in Int
    BY <1>1, <1>2, SMT
  <2> QED
    BY <1>5, <1>6, <2>1, <2>2, SMT
<1>8. D * k <= q * c
  <2> DEFINE u == D * k
             v == q * c
  <2>1. u \in Int /\ v \in Int /\ u * WAD <= v * WAD
    BY <1>1, <1>2, <1>7, SMT
  <2> HIDE DEF u, v
  <2>2. ASSUME u > v PROVE FALSE
    <3>1. u * WAD >= (v + 1) * WAD
      BY <1>1, <2>1, <2>2, SMT
    <3>2. (v + 1) * WAD > v * WAD
      BY <1>1, <2>1, SMT
    <3> QED
      BY <1>1, <2>1, <3>1, <3>2, SMT
  <2> QED
    BY <2>1, <2>2, SMT DEF u, v
<1>9. (D - q) * c <= D * (c - k)
  <2>1. (D - q) * c = D * c - q * c /\ D * (c - k) = D * c - D * k
    BY <1>1, <1>2, SMT
  <2>2. D * c \in Int /\ q * c \in Int /\ D * k \in Int
    BY <1>1, <1>2, SMT
  <2> QED
    BY <1>8, <2>1, <2>2, SMT
<1> QED
  BY <1>9 DEF D, c, q, k

(* No withdrawal worsens the ratio of debt to collateral for those who stay. *)
THEOREM WithdrawalsAreFair == Spec => WithdrawalIsFair
<1>1. IInv /\ [Next]_vars
      => [(\E f \in Fracs : Withdraw(f) \/ EmergencyWithdraw(f))
            => debt' * collateral_amount <= Debt * collateral_amount']_vars
  <2> SUFFICES ASSUME IInv, NEW f \in Fracs, Withdraw(f) \/ EmergencyWithdraw(f)
               PROVE  debt' * collateral_amount <= Debt * collateral_amount'
    OBVIOUS
  <2>1. /\ debt' = Debt - WithdrawnDebt(f)
        /\ collateral_amount' = collateral_amount - WithdrawnCollateral(f)
    BY DEF Withdraw, EmergencyWithdraw, Settle
  <2> QED
    BY <2>1, RoundingIsFair
<1> QED
  BY <1>1, BooksKept, PTL DEF Spec, WithdrawalIsFair

-----------------------------------------------------------------------------
(***************************************************************************)
(* Debt needs collateral                                                   *)
(***************************************************************************)

(* AMM._debt of no debt is nothing, at any rate. *)
LEMMA NoDebtNoInterest ==
    ASSUME IInv, debt = 0
    PROVE  Debt = 0
<1>1. RateMul \in Nat \ {0} /\ rate_mul \in Nat \ {0}
  BY Books DEF IInv, TypeOK
<1>2. 0 * RateMul = 0 /\ 0 \div rate_mul = 0
  BY <1>1, SMT
<1> QED
  BY <1>2 DEF Debt

(* Without collateral the curve is worth nothing. *)
LEMMA NoCollateralNoX0 ==
    ASSUME NEW p \in Nat, NEW d \in Nat
    PROVE  CollValue(p, 0) = 0 /\ get_x0(p, 0, d) = 0
<1>1. WAD \in Nat \ {0} /\ LEV_RATIO \in Nat \ {0}
  BY AMMAssumption, LevRatioType, SMT
<1>2. CollValue(p, 0) = 0
  BY <1>1, SMT DEF CollValue
<1>3. Discriminant(p, 0, d) = 0
  <2>1. (4 * 0 * LEV_RATIO) \div WAD = 0
    BY <1>1, SMT
  <2> QED
    BY <1>2, <2>1, SMT DEF Discriminant
<1>4. isqrt(0) = 0
  BY isqrtType, SMT
<1>5. ((0 + 0) * WAD) \div (2 * LEV_RATIO) = 0
  BY <1>1, SMT
<1> QED
  BY <1>2, <1>3, <1>4, <1>5 DEF get_x0

(* Withdrawing all collateral repays all debt: AMM._withdraw rounds the debt
   up. *)
LEMMA WithdrawalNeedsCollateral ==
    ASSUME IInv, DebtHasCollateral, NEW f \in Fracs,
           collateral_amount - WithdrawnCollateral(f) = 0
    PROVE  Debt - WithdrawnDebt(f) = 0
<1> DEFINE q == WithdrawnDebt(f)
<1>1. Debt \in Nat /\ collateral_amount \in Nat /\ q \in 0..Debt
  BY Books, WithdrawnBounds
<1>2. CASE collateral_amount = 0
  <2>1. Debt = 0
    BY <1>2, NoDebtNoInterest DEF DebtHasCollateral
  <2> HIDE DEF q
  <2>2. q \in 0..0
    BY <1>1, <2>1
  <2>3. q = 0
    BY <2>2, SMT
  <2> QED
    BY <2>1, <2>3, 0 - 0 = 0 DEF q
<1>3. CASE collateral_amount # 0
  <2>1. (Debt - q) * collateral_amount <= Debt * 0
    BY RoundingIsFair
  <2> HIDE DEF q
  <2>2. Debt - q \in Nat
    BY <1>1, SMT
  <2>3. ASSUME Debt - q >= 1 PROVE FALSE
    <3>1. (Debt - q) * collateral_amount >= collateral_amount
      BY <1>1, <2>2, <2>3, SMT
    <3> QED
      BY <1>1, <1>3, <2>1, <3>1, SMT
  <2>4. Debt - q = 0
    BY <2>2, <2>3, SMT
  <2> QED
    BY <2>4 DEF q
<1> QED
  BY <1>2, <1>3

(* A step that leaves AMM.vy without collateral leaves it without debt. *)
LEMMA DebtKeepsCollateral ==
    ASSUME IInv, DebtHasCollateral, [Next]_vars, collateral_amount' = 0
    PROVE  debt' = 0
<1>1. /\ Debt \in Nat /\ collateral_amount \in Nat /\ p_o \in Nat
      /\ Amounts \subseteq Nat
  BY Books, AMMAssumption
<1>2. ASSUME collateral_amount' = collateral_amount, debt' \in {debt, Debt}
      PROVE  debt' = 0
  BY <1>2, NoDebtNoInterest DEF DebtHasCollateral
<1>3. ASSUME NEW in \in Amounts, ExchangeBuy(in) PROVE debt' = 0
  <2> DEFINE x0 == get_x0(p_o, collateral_amount, Debt)
             out == BuyOut(x0 - Debt, in)
  <2>1. /\ Discriminant(p_o, collateral_amount, Debt) >= 0
        /\ x0 - Debt >= 0 /\ in <= Debt
        /\ get_x0(p_o, collateral_amount - out, Debt - in) >= x0
        /\ collateral_amount' = collateral_amount - out /\ debt' = Debt - in
    BY <1>3 DEF ExchangeBuy, GoodFinalState, Settle
  <2>2. x0 \in Int /\ in \in Nat
    BY <1>1, <2>1, X0Type
  <2> HIDE DEF x0, out
  <2>3. Debt - in \in Nat
    BY <1>1, <2>1, <2>2, SMT
  <2>4. get_x0(p_o, 0, Debt - in) = 0
    BY <1>1, <2>3, NoCollateralNoX0
  <2>5. 0 >= x0
    BY <2>1, <2>4
  <2> QED
    BY <1>1, <2>1, <2>2, <2>5, SMT
<1>4. ASSUME NEW in \in Amounts, ExchangeSell(in) PROVE debt' = 0
  <2>1. collateral_amount > 0 /\ collateral_amount' = collateral_amount + in
    BY <1>4 DEF ExchangeSell, Settle
  <2> QED
    BY <1>1, <2>1, SMT
<1>5. ASSUME NEW d \in Amounts, NEW c \in Amounts, Deposit(d, c) PROVE debt' = 0
  <2>1. /\ SafeLimits(p_o, collateral_amount + c, Debt + d)
        /\ collateral_amount' = collateral_amount + c /\ debt' = Debt + d
    BY <1>5 DEF Deposit, Settle
  <2>2. debt' <= (CollValue(p_o, 0) * MAX_SAFE_DEBT) \div WAD
    BY <2>1 DEF SafeLimits
  <2>3. (0 * MAX_SAFE_DEBT) \div WAD = 0
    <3>1. WAD \in Nat \ {0}
      BY Books
    <3>2. LEVERAGE = 2 * WAD /\ 2 * LEVERAGE - WAD = 3 * WAD
      BY <3>1, SMT DEF LEVERAGE
    <3> DEFINE b == 4 * LEVERAGE * LEVERAGE
               e == 8 * LEVERAGE * LEVERAGE
               a == (2 * LEVERAGE - WAD) * (2 * LEVERAGE - WAD) * WAD
    <3>3. /\ a \in Int /\ WAD * WAD * WAD \in Int
          /\ b \in Nat \ {0} /\ e \in Nat \ {0}
      BY <3>1, <3>2, SMT
    <3>4. MAX_SAFE_DEBT \in Int
      <4> HIDE DEF a, b, e
      <4>1. a \div b \in Int /\ (WAD * WAD * WAD) \div e \in Int
        BY <3>3, DivBounds
      <4>2. (a \div b) - ((WAD * WAD * WAD) \div e) \in Int
        BY <4>1
      <4> QED
        BY <4>2 DEF MAX_SAFE_DEBT, a, b, e
    <3> QED
      BY <3>1, <3>4, SMT
  <2>4. debt' <= 0
    BY <1>1, <2>2, <2>3, NoCollateralNoX0
  <2> QED
    BY <1>1, <2>1, <2>4, SMT
<1>6. ASSUME NEW f \in Fracs, Withdraw(f) \/ EmergencyWithdraw(f) PROVE debt' = 0
  <2>1. /\ debt' = Debt - WithdrawnDebt(f)
        /\ collateral_amount' = collateral_amount - WithdrawnCollateral(f)
    BY <1>6 DEF Withdraw, EmergencyWithdraw, Settle
  <2> QED
    BY <2>1, WithdrawalNeedsCollateral
<1>7. CASE CollectFees \/ DistributeBorrowerFees
  BY <1>2, <1>7 DEF CollectFees, DistributeBorrowerFees, Settle
<1>8. CASE AllocateStablecoins
  BY <1>2, <1>8 DEF AllocateStablecoins, AllocateTowards, market
<1>9. CASE Governance
  BY <1>2, <1>9 DEF Governance, SetRate, SetFee, SetKilled, AllocateStablecoinsAdmin,
                    AllocateTowards, market
<1>10. CASE Environment
  BY <1>2, <1>10 DEF Environment, Tick, PriceMoves, Donate, TakeBackFunds, market
<1>11. CASE UNCHANGED vars
  BY <1>2, <1>11 DEF vars
<1> QED
  BY <1>3, <1>4, <1>5, <1>6, <1>7, <1>8, <1>9, <1>10, <1>11 DEF Next, Trade

(* Debt without collateral never arises: not from rounding, not from a trade
   that empties the pool, not from a deposit of nothing. *)
THEOREM DebtIsBacked == Spec => []DebtHasCollateral
<1>1. Init => DebtHasCollateral
  BY DEF Init, DebtHasCollateral
<1>2. IInv /\ DebtHasCollateral /\ [Next]_vars => DebtHasCollateral'
  BY DebtKeepsCollateral DEF DebtHasCollateral
<1> QED
  BY <1>1, <1>2, BooksKept, PTL DEF Spec

=============================================================================
