------------------------- MODULE HealthFactorProofs -------------------------
(* The pairs liquidation_simulation offers are ones the chain accepts, and    *)
(* the health factor follows prices and interest, for every scale, price,     *)
(* rate and balance and any set of ctokens.                                   *)
EXTENDS HealthFactor, TLAPS, FiniteSetTheorems, WellFoundedInduction

\* Python's // on integers.
LEMMA DivFloor ==
    ASSUME NEW a \in Int, NEW b \in Nat \ {0}
    PROVE  /\ a \div b \in Int
           /\ b * (a \div b) <= a
           /\ a < b * (a \div b) + b
  BY Z3

\* A quotient of naturals is one.
LEMMA DivNat ==
    ASSUME NEW a \in Nat, NEW b \in Nat \ {0}
    PROVE  a \div b \in Nat
  BY Z3

\* Products of naturals are naturals, and grow with their factors.
LEMMA MulNat ==
    ASSUME NEW a \in Nat, NEW b \in Nat
    PROVE  a * b \in Nat
  BY Z3

\* Products of naturals are monotone.
LEMMA MulMonotone ==
    ASSUME NEW a \in Nat, NEW b \in Int, NEW c \in Int, b <= c
    PROVE  a * b <= a * c
  BY Z3

\* A positive factor cancels from an inequality.
LEMMA MulCancel ==
    ASSUME NEW a \in Nat \ {0}, NEW b \in Int, NEW c \in Int, a * b < a * c
    PROVE  b < c
  BY Z3

\* What mul_scalar_truncate_reverse returns for a balance the seizure exceeds: the
\* ratio it divides by is positive, the repayment is smaller than before, and what
\* it seizes fits.
LEMMA Readjusted ==
    ASSUME NEW S \in Nat \ {0}, NEW ratio \in Nat, NEW repay \in Nat,
           NEW col \in Nat, col < (ratio * repay) \div S
    PROVE  /\ ratio > 0
           /\ (col * S) \div ratio \in Nat
           /\ (col * S) \div ratio < repay
           /\ (ratio * ((col * S) \div ratio)) \div S <= col
           /\ col * S < ratio * ((col * S) \div ratio + 1)
<1> DEFINE m == (ratio * repay) \div S
           q == (col * S) \div ratio
           k == (ratio * q) \div S
<1>1. ratio * repay \in Nat /\ col * S \in Nat
  BY MulNat
<1>2. m \in Int /\ S * m <= ratio * repay
  BY <1>1, DivFloor
<1>3. col + 1 <= m
  BY <1>2
<1>4. S * (col + 1) <= ratio * repay
  <2>1. S * (col + 1) <= S * m
    BY <1>2, <1>3, MulMonotone
  <2>2. S * (col + 1) \in Int /\ S * m \in Int
    BY <1>2
  <2> QED
    BY <2>1, <2>2, <1>1, <1>2
<1>5. S * (col + 1) = col * S + S
  OBVIOUS
<1>6. col * S < ratio * repay
  BY <1>1, <1>4, <1>5
<1>7. ratio > 0
  <2>1. CASE ratio = 0
    BY <1>1, <1>6, <2>1
  <2> QED
    BY <2>1
<1>8. q \in Nat /\ ratio * q <= col * S /\ col * S < ratio * q + ratio
  BY <1>1, <1>7, DivFloor, DivNat
<1>9. q < repay
  <2>1. ratio * q < ratio * repay
    BY <1>1, <1>6, <1>8
  <2> QED
    BY <2>1, <1>7, <1>8, MulCancel
<1>10. k \in Int /\ S * k <= ratio * q
  <2>1. ratio * q \in Nat
    BY <1>8, MulNat
  <2> QED
    BY <2>1, DivFloor
<1>11. k <= col
  <2>1. S * k < S * (col + 1)
    BY <1>1, <1>5, <1>8, <1>10
  <2>2. k < col + 1
    BY <2>1, <1>10, MulCancel
  <2> QED
    BY <2>2, <1>10
<1>12. ratio * (q + 1) = ratio * q + ratio
  BY <1>8
<1> QED
  BY <1>7, <1>8, <1>9, <1>11, <1>12

-----------------------------------------------------------------------------
\* The values a pair is computed from.
LEMMA PairTypes ==
    ASSUME TypeOK, NEW d \in target_debts, NEW c \in collaterals
    PROVE  /\ d \in Ctokens /\ c \in Ctokens
           /\ EXP_SCALE \in Nat \ {0}
           /\ price[d] \in Nat /\ price[c] \in Nat /\ exchange_rate[c] \in Nat
           /\ liq_incentive \in Nat \ {0}
           /\ (liq_incentive * price[d]) \div EXP_SCALE \in Nat
           /\ (price[c] * exchange_rate[c]) \div EXP_SCALE \in Nat \ {0}
           /\ debt_balance(d) \in Nat
           /\ debt_max(d) \in Nat
           /\ ratio_of(d, c) \in Nat
           /\ reserves[c].col_amount \in Nat \ {0}
<1>1. d \in Ctokens /\ reserves[d].debt_amount > 0
  BY DEF target_debts, debts
<1>2. c \in Ctokens /\ reserves[c].col_amount > 0
  BY DEF collaterals
<1>3. /\ price[d] \in Prices /\ price[c] \in Prices
      /\ exchange_rate[c] \in Rates
      /\ borrow_index[d] \in Indexes
      /\ liq_incentive \in Incentives
      /\ reserves[d] \in CompReserve /\ reserves[c] \in CompReserve
  BY <1>1, <1>2 DEF TypeOK
<1>4. /\ EXP_SCALE \in Nat \ {0}
      /\ price[d] \in Nat /\ price[c] \in Nat /\ exchange_rate[c] \in Nat
      /\ price[c] * exchange_rate[c] >= EXP_SCALE
      /\ borrow_index[d] \in Nat \ {0}
      /\ liq_incentive \in Nat \ {0}
      /\ closs_factor \in Nat
  BY <1>3, HealthAssumption
<1>5. /\ reserves[d].debt_amount \in Nat
      /\ reserves[d].debt_interest \in Nat \ {0}
  BY <1>3, HealthAssumption DEF CompReserve
<1>6. reserves[c].col_amount \in Nat \ {0}
  <2>1. reserves[c].col_amount \in Cols
    BY <1>3 DEF CompReserve
  <2>2. reserves[c].col_amount \in Int
    BY <2>1, HealthAssumption
  <2> QED
    BY <2>2, <1>2
<1>7. (liq_incentive * price[d]) \div EXP_SCALE \in Nat
  BY <1>4, MulNat, DivNat
<1>8. (price[c] * exchange_rate[c]) \div EXP_SCALE \in Nat \ {0}
  <2> DEFINE v == price[c] * exchange_rate[c]
             q == v \div EXP_SCALE
  <2>1. v \in Nat /\ v >= EXP_SCALE
    BY <1>4, MulNat
  <2> HIDE DEF v
  <2>2. q \in Nat /\ v < EXP_SCALE * q + EXP_SCALE
    <3>1. q \in Nat
      BY <2>1, <1>4, DivNat
    <3>2. v < EXP_SCALE * q + EXP_SCALE
      BY <2>1, <1>4, DivFloor
    <3> QED
      BY <3>1, <3>2
  <2>3. CASE q = 0
    <3>1. EXP_SCALE * q = 0
      BY <2>3, <1>4
    <3> QED
      BY <3>1, <2>1, <2>2, <1>4
  <2> QED
    BY <2>2, <2>3 DEF v
<1>9. debt_balance(d) \in Nat
  <2>1. reserves[d].debt_amount * borrow_index[d] \in Nat
    BY <1>4, <1>5, MulNat
  <2> QED
    BY <2>1, <1>1, <1>5, DivNat DEF debt_balance
<1>10. debt_max(d) \in Nat
  <2>1. closs_factor * debt_balance(d) \in Nat
    BY <1>4, <1>9, MulNat
  <2> QED
    BY <2>1, <1>4, DivNat DEF debt_max, mul_scalar_truncate
<1>11. ratio_of(d, c) \in Nat
  <2>1. ((liq_incentive * price[d]) \div EXP_SCALE) * EXP_SCALE \in Nat
    BY <1>4, <1>7, MulNat
  <2> QED
    BY <2>1, <1>8, DivNat DEF ratio_of
<1> QED
  BY <1>1, <1>2, <1>4, <1>6, <1>7, <1>8, <1>9, <1>10, <1>11

\* Both cases of the readjustment at once.
LEMMA Pair ==
    ASSUME TypeOK, NEW d \in target_debts, NEW c \in collaterals
    PROVE  /\ rejust_repay_amount(d, c) \in Nat
           /\ rejust_repay_amount(d, c) <= debt_max(d)
           /\ mul_scalar_truncate(ratio_of(d, c), rejust_repay_amount(d, c))
                 <= reserves[c].col_amount
           /\ seized(d, c) \in Nat
           /\ seized(d, c) <= reserves[c].col_amount
           /\ EXP_SCALE * seized(d, c)
                 <= ratio_of(d, c) * (rejust_repay_amount(d, c) + 1)
<1> DEFINE S == EXP_SCALE
           ratio == ratio_of(d, c)
           repay == debt_max(d)
           col == reserves[c].col_amount
<1>1. S \in Nat \ {0} /\ ratio \in Nat /\ repay \in Nat /\ col \in Nat
  BY PairTypes
<1>2. short(d, c) <=> col < (ratio * repay) \div S
  BY DEF short, mul_scalar_truncate
<1>3. rejust_repay_amount(d, c) = IF short(d, c) THEN (col * S) \div ratio ELSE repay
  BY DEF rejust_repay_amount, mul_scalar_truncate_reverse
<1>4. seized(d, c) = IF short(d, c) THEN col ELSE (ratio * repay) \div S
  BY DEF seized, mul_scalar_truncate
<1>5. mul_scalar_truncate(ratio, rejust_repay_amount(d, c))
        = (ratio * rejust_repay_amount(d, c)) \div S
  BY DEF mul_scalar_truncate
<1> HIDE DEF S, ratio, repay, col
<1>6. CASE short(d, c)
  <2> DEFINE q == (col * S) \div ratio
  <2>1. /\ q \in Nat /\ q < repay
        /\ (ratio * q) \div S <= col
        /\ col * S < ratio * (q + 1)
    BY <1>1, <1>2, <1>6, Readjusted
  <2>2. rejust_repay_amount(d, c) = q /\ seized(d, c) = col
    BY <1>3, <1>4, <1>6
  <2> HIDE DEF q
  <2>3. S * col <= ratio * (q + 1)
    BY <2>1, <1>1
  <2> QED
    BY <2>1, <2>2, <2>3, <1>1, <1>5 DEF S, ratio, repay, col
<1>7. CASE ~ short(d, c)
  <2> DEFINE g == (ratio * repay) \div S
  <2>1. ratio * repay \in Nat
    BY <1>1, MulNat
  <2>2. g \in Nat
    BY <2>1, <1>1, DivNat
  <2>3. S * g <= ratio * repay
    BY <2>1, <1>1, DivFloor
  <2>4. g <= col
    BY <1>1, <1>2, <1>7, <2>2
  <2>5. rejust_repay_amount(d, c) = repay /\ seized(d, c) = g
    BY <1>3, <1>4, <1>7
  <2>6. mul_scalar_truncate(ratio, rejust_repay_amount(d, c)) = g
    BY <1>5, <2>5
  <2> HIDE DEF g
  <2>7. S * g <= ratio * (repay + 1)
    <3>1. ratio * (repay + 1) = ratio * repay + ratio
      BY <1>1
    <3> QED
      BY <3>1, <2>1, <2>2, <2>3, <1>1
  <2> QED
    BY <2>2, <2>4, <2>5, <2>6, <2>7, <1>1 DEF S, ratio, repay, col
<1> QED
  BY <1>6, <1>7

\* The treasury's part is at most all of it.
LEMMA Treasury ==
    ASSUME TypeOK, NEW d \in target_debts, NEW c \in collaterals
    PROVE  /\ seize_tokens(d, c) \in Nat
           /\ seize_tokens(d, c) <= seized(d, c)
<1> DEFINE g == seized(d, c)
           part == (g * TREASURY_PERCENT) \div liq_incentive
<1>1. g \in Nat
  BY Pair
<1>2. liq_incentive \in Nat \ {0} /\ TREASURY_PERCENT \in Nat
  BY PairTypes, HealthAssumption
<1>3. TREASURY_PERCENT <= liq_incentive
  BY HealthAssumption DEF TypeOK
<1>4. seize_tokens(d, c) = g - part
  BY DEF seize_tokens
<1> HIDE DEF g
<1>5. g * TREASURY_PERCENT \in Nat
  BY <1>1, <1>2, MulNat
<1>6. part \in Nat
  BY <1>2, <1>5, DivNat
<1>7. liq_incentive * part <= g * TREASURY_PERCENT
  BY <1>2, <1>5, DivFloor
<1> HIDE DEF part
<1>8. g * TREASURY_PERCENT <= g * liq_incentive
  BY <1>1, <1>2, <1>3, MulMonotone
<1>9. liq_incentive * part < liq_incentive * (g + 1)
  BY <1>1, <1>2, <1>5, <1>6, <1>7, <1>8
<1>10. part < g + 1
  BY <1>1, <1>2, <1>6, <1>9, MulCancel
<1> QED
  BY <1>1, <1>4, <1>6, <1>10 DEF g

-----------------------------------------------------------------------------
\* The values stay what a subscription can leave.
LEMMA TypeStep == TypeOK /\ [Next]_vars => TypeOK'
<1> SUFFICES ASSUME TypeOK, [Next]_vars
             PROVE  TypeOK'
  OBVIOUS
<1> USE DEF TypeOK, market, comet, user, vars
<1>1. ASSUME NEW t \in Ctokens, set_price(t)
      PROVE  TypeOK'
  BY <1>1 DEF set_price
<1>2. ASSUME NEW t \in Ctokens, query_exchange_rate(t)
      PROVE  TypeOK'
  BY <1>2 DEF query_exchange_rate
<1>3. ASSUME NEW t \in Ctokens, AccrueInterest(t)
      PROVE  TypeOK'
  <2>1. PICK i \in Indexes : /\ i > borrow_index[t]
                             /\ borrow_index' = [borrow_index EXCEPT ![t] = i]
    BY <1>3 DEF AccrueInterest
  <2> Indexes \subseteq Int
    BY HealthAssumption
  <2>2. \A s \in Ctokens : reserves[s].debt_interest \in Int
    BY DEF CompReserve
  <2>3. \A s \in Ctokens : borrow_index[s] \in Int /\ borrow_index'[s] \in Int
    BY <2>1
  <2>4. \A s \in Ctokens : reserves[s].debt_interest <= borrow_index'[s]
    BY <2>1, <2>2, <2>3
  <2> QED
    BY <2>1, <2>4, <1>3 DEF AccrueInterest
<1>4. ASSUME NEW t \in Ctokens, Transfer(t)
      PROVE  TypeOK'
  BY <1>4 DEF Transfer, CompReserve
<1>5. ASSUME NEW t \in Ctokens, Borrow(t)
      PROVE  TypeOK'
  <2>1. PICK a \in Debts :
          reserves' = [reserves EXCEPT ![t].debt_amount = a,
                                       ![t].debt_interest = borrow_index[t]]
    BY <1>5 DEF Borrow
  <2>2. reserves' \in [Ctokens -> CompReserve]
    BY <2>1 DEF CompReserve
  <2>3. reserves'[t].debt_interest = borrow_index[t]
    BY <2>1 DEF CompReserve
  <2>4. \A s \in Ctokens : s # t => reserves'[s] = reserves[s]
    BY <2>1
  <2>5. borrow_index[t] <= borrow_index[t]
    <3>1. borrow_index[t] \in Indexes
      OBVIOUS
    <3> Indexes \subseteq Int
      BY HealthAssumption
    <3>2. borrow_index[t] \in Int
      BY <3>1
    <3> QED
      BY <3>2
  <2>6. \A s \in Ctokens : reserves'[s].debt_interest <= borrow_index[s]
    BY <2>3, <2>4, <2>5
  <2> QED
    BY <2>2, <2>6, <1>5 DEF Borrow
<1>6. ASSUME NEW t \in Ctokens, set_is_col_liq(t)
      PROVE  TypeOK'
  BY <1>6 DEF set_is_col_liq, CompReserve
<1>7. CASE NewLiquidationIncentive
  BY <1>7 DEF NewLiquidationIncentive
<1>8. CASE set_vai_repay
  BY <1>8 DEF set_vai_repay
<1>9. CASE UNCHANGED vars
  BY <1>9
<1> QED
  BY <1>1, <1>2, <1>3, <1>4, <1>5, <1>6, <1>7, <1>8, <1>9 DEF Next

\* No subscription leaves a value outside the assumptions, nor a debt with an index
\* of the future.
THEOREM TypeCorrect == Spec => []TypeOK
<1>1. Init => TypeOK
  BY DEF Init, TypeOK
<1> QED
  BY <1>1, TypeStep, PTL DEF Spec

\* The chain never seizes more than the balance for a repayment the bot asks for.
THEOREM FitCorrect == Spec => []RepayFits
<1>1. TypeOK => RepayFits
  BY Pair DEF RepayFits
<1> QED
  BY <1>1, TypeCorrect, PTL

\* Every repayment is one the close factor permits.
THEOREM CloseCorrect == Spec => []RepayWithinClose
<1>1. TypeOK => RepayWithinClose
  <2> SUFFICES ASSUME TypeOK, NEW d \in target_debts, NEW c \in collaterals
               PROVE  /\ rejust_repay_amount(d, c) >= 0
                      /\ rejust_repay_amount(d, c) * EXP_SCALE
                            <= closs_factor * debt_balance(d)
    BY DEF RepayWithinClose
  <2> DEFINE r == rejust_repay_amount(d, c)
             m == debt_max(d)
             w == closs_factor * debt_balance(d)
  <2>1. r \in Nat /\ r <= m
    BY Pair
  <2>2. EXP_SCALE \in Nat \ {0} /\ m \in Nat /\ debt_balance(d) \in Nat
    BY PairTypes
  <2>3. w \in Nat
    BY <2>2, HealthAssumption, MulNat
  <2>4. m = w \div EXP_SCALE
    BY DEF debt_max, mul_scalar_truncate
  <2> HIDE DEF r, m, w
  <2>5. EXP_SCALE * m <= w
    BY <2>2, <2>3, <2>4, DivFloor
  <2>6. EXP_SCALE * r <= EXP_SCALE * m
    BY <2>1, <2>2, MulMonotone
  <2>7. r * EXP_SCALE <= w
    BY <2>1, <2>2, <2>3, <2>5, <2>6
  <2> QED
    BY <2>1, <2>7 DEF r, w
<1> QED
  BY <1>1, TypeCorrect, PTL

\* What a liquidation gains is between nothing and the balance.
THEOREM SeizeCorrect == Spec => []SeizeWithinBalance
<1>1. TypeOK => SeizeWithinBalance
  <2> SUFFICES ASSUME TypeOK, NEW d \in target_debts, NEW c \in collaterals
               PROVE  /\ seize_tokens(d, c) >= 0
                      /\ seize_tokens(d, c) <= reserves[c].col_amount
    BY DEF SeizeWithinBalance
  <2>1. seize_tokens(d, c) \in Nat /\ seize_tokens(d, c) <= seized(d, c)
    BY Treasury
  <2>2. seized(d, c) \in Nat /\ seized(d, c) <= reserves[c].col_amount
    BY Pair
  <2>3. reserves[c].col_amount \in Nat
    BY PairTypes
  <2> QED
    BY <2>1, <2>2, <2>3
<1> QED
  BY <1>1, TypeCorrect, PTL

\* The promised profit is what the incentive yields, but for the truncations.
THEOREM ProfitCorrect == Spec => []ProfitBounded
<1>1. TypeOK => ProfitBounded
  <2> SUFFICES ASSUME TypeOK, NEW d \in target_debts, NEW c \in collaterals
               PROVE  profit_apprx(d, c) * EXP_SCALE
                        + rejust_repay_amount(d, c) * price[d]
                      <= ((liq_incentive * price[d]) \div EXP_SCALE)
                           * (rejust_repay_amount(d, c) + 1) + seized(d, c)
    BY DEF ProfitBounded
  <2> DEFINE S == EXP_SCALE
             r == rejust_repay_amount(d, c)
             g == seized(d, c)
             s == seize_tokens(d, c)
             x == exchange_rate[c]
             p == price[c]
             pd == price[d]
             num == (liq_incentive * price[d]) \div EXP_SCALE
             den == (price[c] * exchange_rate[c]) \div EXP_SCALE
             ratio == ratio_of(d, c)
             a == (s * x) \div S
             gain == profit_apprx(d, c)
  <2>1. /\ S \in Nat \ {0} /\ x \in Nat /\ p \in Nat /\ pd \in Nat
        /\ num \in Nat /\ den \in Nat \ {0} /\ ratio \in Nat
    BY PairTypes
  <2>2. r \in Nat /\ g \in Nat /\ S * g <= ratio * (r + 1)
    BY Pair
  <2>3. s \in Nat /\ s <= g
    BY Treasury
  <2>4. ratio = (num * S) \div den
    BY DEF ratio_of
  <2>5. gain = (a * p - r * pd) \div S
    BY DEF profit_apprx
  <2>6. den = (p * x) \div S
    OBVIOUS
  <2> HIDE DEF S, r, g, s, x, p, pd, num, den, ratio, a, gain
  <2>7. g * den <= num * (r + 1)
    <3>1. num * S \in Nat
      BY <2>1, MulNat
    <3>2. den * ratio <= num * S
      BY <3>1, <2>1, <2>4, DivFloor
    <3>3. den * (S * g) <= den * (ratio * (r + 1))
      BY <2>1, <2>2, MulMonotone
    <3>4. (r + 1) * (den * ratio) <= (r + 1) * (num * S)
      BY <2>1, <2>2, <3>2, MulMonotone
    <3>5. S * (g * den) <= S * (num * (r + 1))
      BY <2>1, <2>2, <3>3, <3>4
    <3>6. S * (g * den) < S * (num * (r + 1) + 1)
      BY <2>1, <2>2, <3>5
    <3>7. g * den < num * (r + 1) + 1
      BY <2>1, <2>2, <3>6, MulCancel
    <3> QED
      BY <2>1, <2>2, <3>7
  <2>8. a \in Int /\ S * a <= s * x
    <3>1. s * x \in Nat
      BY <2>1, <2>3, MulNat
    <3> QED
      BY <3>1, <2>1, DivFloor DEF a
  <2>9. a * p <= g * den + g
    <3>1. p * x \in Nat
      BY <2>1, MulNat
    <3>2. p * x < S * den + S
      BY <3>1, <2>1, <2>6, DivFloor
    <3>3. p * (S * a) <= p * (s * x)
      BY <2>1, <2>3, <2>8, MulMonotone
    <3>4. s * (p * x) <= s * (S * den + S)
      BY <2>1, <2>3, <3>2, MulMonotone
    <3>5. S * (a * p) <= S * (s * (den + 1))
      BY <2>1, <2>3, <2>8, <3>3, <3>4
    <3>6. S * (a * p) < S * (s * (den + 1) + 1)
      BY <2>1, <2>3, <2>8, <3>5
    <3>7. a * p < s * (den + 1) + 1
      BY <2>1, <2>3, <2>8, <3>6, MulCancel
    <3>8. (den + 1) * s <= (den + 1) * g
      BY <2>1, <2>2, <2>3, MulMonotone
    <3> QED
      BY <2>1, <2>2, <2>3, <2>8, <3>7, <3>8
  <2>10. gain * S <= a * p - r * pd
    <3>1. a * p - r * pd \in Int
      BY <2>1, <2>2, <2>8
    <3>2. gain \in Int /\ S * gain <= a * p - r * pd
      BY <3>1, <2>1, <2>5, DivFloor
    <3> QED
      BY <3>2, <2>1
  <2>11. gain \in Int
    BY <2>1, <2>2, <2>5, <2>8, DivFloor
  <2>12. gain * S + r * pd <= num * (r + 1) + g
    BY <2>1, <2>2, <2>7, <2>8, <2>9, <2>10, <2>11
  <2> QED
    BY <2>12 DEF S, r, g, pd, num, gain
<1> QED
  BY <1>1, TypeCorrect, PTL

-----------------------------------------------------------------------------
(* Sums over the ctokens *)

\* A set of naturals has a least element.
LEMMA NatMin ==
    ASSUME NEW T \in SUBSET Nat, T # {}
    PROVE  \E x \in T : \A y \in T : x <= y
<1>1. PICK x \in T : \A y \in T : ~ (<<y, x>> \in OpToRel(<, Nat))
  BY NatLessThanWellFounded, WFMin, Zenon
<1>2. ASSUME NEW y \in T PROVE x <= y
  <2>1. x \in Nat /\ y \in Nat
    OBVIOUS
  <2>2. <<y, x>> \in OpToRel(<, Nat) <=> y < x
    BY <2>1, Zenon DEF OpToRel
  <2>3. ~ (y < x)
    BY <1>1, <2>2, Zenon
  <2> QED
    BY <2>1, <2>3
<1> QED
  BY <1>2

OneOf(s) == CHOOSE x \in s : TRUE

\* One turn of the fold of MapThenSumSet.
Turn(it, F, s) == IF s = {} THEN 0 ELSE F[OneOf(s)] + it[s \ {OneOf(s)}]

IsSum(it, F) == it = [s \in SUBSET Ctokens |-> Turn(it, F, s)]

\* n is the sum of the values of F.
Total(F, n) == \E it : IsSum(it, F) /\ n = it[Ctokens]

\* it is right for the sets of at most n ctokens.
SumUpTo(it, F, n) ==
    \A s \in SUBSET Ctokens : Cardinality(s) <= n => it[s] = Turn(it, F, s)

NoSum(F) == {n \in Nat : ~ \E it : SumUpTo(it, F, n)}

\* Without one of its elements a set has one element less.
LEMMA OneLess ==
    ASSUME NEW s \in SUBSET Ctokens
    PROVE  /\ Cardinality(s) \in Nat
           /\ s # {} => /\ OneOf(s) \in s
                        /\ s \ {OneOf(s)} \in SUBSET Ctokens
                        /\ Cardinality(s) # 0
                        /\ Cardinality(s \ {OneOf(s)}) = Cardinality(s) - 1
<1>1. IsFiniteSet(s) /\ Cardinality(s) \in Nat
  BY HealthAssumption, FS_Subset, FS_CardinalityType
<1>2. ASSUME s # {}
      PROVE  /\ OneOf(s) \in s
             /\ Cardinality(s) # 0
             /\ Cardinality(s \ {OneOf(s)}) = Cardinality(s) - 1
  <2>1. OneOf(s) \in s
    BY <1>2, Zenon DEF OneOf
  <2>2. Cardinality(s) # 0
    BY <1>1, <1>2, FS_EmptySet
  <2>3. Cardinality(s \ {OneOf(s)}) = Cardinality(s) - 1
    BY <1>1, <2>1, FS_RemoveElement
  <2> QED
    BY <2>1, <2>2, <2>3
<1> QED
  BY <1>1, <1>2

\* The fold over the ctokens has a solution.
LEMMA SumExists ==
    ASSUME NEW F
    PROVE  \E it : IsSum(it, F)
<1>1. NoSum(F) = {}
  <2> SUFFICES ASSUME NoSum(F) # {} PROVE FALSE
    OBVIOUS
  <2>1. PICK x \in NoSum(F) : \A y \in NoSum(F) : x <= y
    <3>1. NoSum(F) \in SUBSET Nat
      BY Zenon DEF NoSum
    <3> QED
      BY <3>1, NatMin
  <2>2. x \in Nat /\ \A it : ~SumUpTo(it, F, x)
    BY <2>1, Zenon DEF NoSum
  <2>3. x # 0
    <3> DEFINE it == [s \in SUBSET Ctokens |-> 0]
    <3>1. ASSUME NEW s \in SUBSET Ctokens, Cardinality(s) <= 0
          PROVE  it[s] = Turn(it, F, s)
      <4>1. s = {}
        <5> HIDE DEF it
        <5>1. Cardinality(s) \in Nat /\ (s # {} => Cardinality(s) # 0)
          BY OneLess
        <5> QED
          BY <3>1, <5>1
      <4>2. it[s] = 0
        OBVIOUS
      <4> HIDE DEF it
      <4> QED
        BY <4>1, <4>2 DEF Turn
    <3> HIDE DEF it
    <3>2. SumUpTo(it, F, 0)
      BY <3>1 DEF SumUpTo
    <3> QED
      BY <2>2, <3>2
  <2>4. x - 1 \in Nat /\ x - 1 \notin NoSum(F)
    BY <2>1, <2>2, <2>3
  <2>5. PICK it : SumUpTo(it, F, x - 1)
    BY <2>4, Zenon DEF NoSum
  <2> DEFINE jt == [s \in SUBSET Ctokens |-> Turn(it, F, s)]
  <2>6. \A s \in SUBSET Ctokens : jt[s] = Turn(it, F, s)
    OBVIOUS
  <2> HIDE DEF jt
  <2>7. ASSUME NEW s \in SUBSET Ctokens, Cardinality(s) <= x
        PROVE  jt[s] = Turn(jt, F, s)
    <3>1. CASE s = {}
      BY <2>6, <3>1 DEF Turn
    <3>2. CASE s # {}
      <4> DEFINE r == s \ {OneOf(s)}
      <4>1. r \in SUBSET Ctokens /\ Cardinality(r) <= x - 1
        BY <2>2, <2>7, <3>2, OneLess
      <4> HIDE DEF r
      <4>2. jt[r] = it[r]
        BY <2>5, <2>6, <4>1 DEF SumUpTo
      <4> QED
        BY <2>6, <3>2, <4>2 DEF Turn, r
    <3> QED
      BY <3>1, <3>2
  <2>8. SumUpTo(jt, F, x)
    BY <2>7 DEF SumUpTo
  <2> QED
    BY <2>2, <2>8
<1> DEFINE n == Cardinality(Ctokens)
<1>2. n \in Nat
  BY OneLess
<1> HIDE DEF n
<1>3. PICK it : SumUpTo(it, F, n)
  BY <1>1, <1>2, Zenon DEF NoSum
<1> DEFINE jt == [s \in SUBSET Ctokens |-> it[s]]
<1>4. \A s \in SUBSET Ctokens : jt[s] = it[s]
  OBVIOUS
<1>5. jt = [s \in SUBSET Ctokens |-> jt[s]]
  OBVIOUS
<1> HIDE DEF jt
<1>6. ASSUME NEW s \in SUBSET Ctokens
      PROVE  jt[s] = Turn(jt, F, s)
  <2>1. Cardinality(s) <= n
    BY HealthAssumption, FS_Subset DEF n
  <2>2. it[s] = Turn(it, F, s)
    BY <1>3, <2>1 DEF SumUpTo
  <2>3. s # {} => s \ {OneOf(s)} \in SUBSET Ctokens
    BY OneLess
  <2>4. Turn(jt, F, s) = Turn(it, F, s)
    BY <1>4, <2>3 DEF Turn
  <2> QED
    BY <1>4, <2>2, <2>4
<1>7. [s \in SUBSET Ctokens |-> jt[s]] = [s \in SUBSET Ctokens |-> Turn(jt, F, s)]
  BY <1>6
<1> QED
  BY <1>5, <1>7, Zenon DEF IsSum

\* Sums of naturals are naturals, and in the order of what is summed.
LEMMA TotalOrder ==
    ASSUME NEW F, NEW G, NEW m, NEW n, Total(F, m), Total(G, n),
           \A t \in Ctokens : F[t] \in Nat /\ G[t] \in Nat /\ F[t] <= G[t]
    PROVE  m \in Nat /\ n \in Nat /\ m <= n
<1>1. PICK it : IsSum(it, F) /\ m = it[Ctokens]
  BY DEF Total
<1>2. PICK jt : IsSum(jt, G) /\ n = jt[Ctokens]
  BY DEF Total
<1> DEFINE Ordered(s) == it[s] \in Nat /\ jt[s] \in Nat /\ it[s] <= jt[s]
           Bad == {k \in Nat : \E s \in SUBSET Ctokens : Cardinality(s) = k /\ ~Ordered(s)}
<1>3. \A s \in SUBSET Ctokens : it[s] = Turn(it, F, s) /\ jt[s] = Turn(jt, G, s)
  BY <1>1, <1>2 DEF IsSum
<1>4. Bad = {}
  <2> SUFFICES ASSUME Bad # {} PROVE FALSE
    OBVIOUS
  <2>1. PICK k \in Bad : \A l \in Bad : k <= l
    <3>1. Bad \in SUBSET Nat
      OBVIOUS
    <3> HIDE DEF Bad
    <3> QED
      BY <3>1, NatMin
  <2>2. PICK s \in SUBSET Ctokens : Cardinality(s) = k /\ ~Ordered(s)
    BY <2>1
  <2>3. CASE s = {}
    <3>1. it[s] = 0 /\ jt[s] = 0
      BY <1>3, <2>3 DEF Turn
    <3> QED
      BY <2>2, <3>1
  <2>4. CASE s # {}
    <3> DEFINE t == OneOf(s)
               r == s \ {t}
    <3>1. /\ t \in Ctokens /\ r \in SUBSET Ctokens
          /\ Cardinality(r) \in Nat /\ ~(k <= Cardinality(r))
      BY <2>1, <2>2, <2>4, OneLess
    <3>2. it[s] = F[t] + it[r] /\ jt[s] = G[t] + jt[r]
      BY <1>3, <2>4 DEF Turn
    <3> HIDE DEF t, r
    <3>3. Ordered(r)
      BY <2>1, <3>1, Zenon
    <3>4. F[t] \in Nat /\ G[t] \in Nat /\ F[t] <= G[t]
      BY <3>1
    <3>5. Ordered(s)
      BY <3>2, <3>3, <3>4
    <3> QED
      BY <2>2, <3>5
  <2> QED
    BY <2>3, <2>4
<1>5. Cardinality(Ctokens) \in Nat /\ Ctokens \in SUBSET Ctokens
  BY OneLess
<1>6. Ordered(Ctokens)
  BY <1>4, <1>5, Zenon
<1> QED
  BY <1>1, <1>2, <1>6

-----------------------------------------------------------------------------
(* The health factor *)

\* What a collateral counts for, and what a debt is worth.
Worth(f, x, p, r) ==
    IF r.is_col_liq /\ f > 0 /\ r.col_amount > 0
    THEN LET rated == (f * x) \div EXP_SCALE
             priced == (rated * p) \div EXP_SCALE
         IN  (priced * r.col_amount) \div EXP_SCALE
    ELSE 0

Owes(i, p, r) ==
    ((IF r.debt_amount > 0 THEN (r.debt_amount * i) \div r.debt_interest ELSE 0) * p)
        \div EXP_SCALE

ValueIn ==
    [t \in Ctokens |->
        Worth(ctokens_collateral_factor[t], exchange_rate[t], price[t], reserves[t])]

OwedIn == [t \in Ctokens |-> Owes(borrow_index[t], price[t], reserves[t])]

\* Quotients by the same divisor are in the order of what is divided.
LEMMA DivMonotone ==
    ASSUME NEW a \in Nat, NEW b \in Nat, a <= b, NEW c \in Nat \ {0}
    PROVE  a \div c \in Nat /\ b \div c \in Nat /\ a \div c <= b \div c
<1> DEFINE q == a \div c
           r == b \div c
<1>1. q \in Nat /\ c * q <= a
  BY DivFloor, DivNat
<1>2. r \in Nat /\ b < c * r + c
  BY DivFloor, DivNat
<1> HIDE DEF q, r
<1>3. c * q < c * (r + 1)
  BY <1>1, <1>2
<1>4. q < r + 1
  BY <1>1, <1>2, <1>3, MulCancel
<1> QED
  BY <1>1, <1>2, <1>4 DEF q, r

\* A dearer collateral counts for no less, whatever is truncated.
LEMMA WorthGrows ==
    ASSUME NEW f \in Nat, NEW x \in Nat, NEW p \in Nat, NEW q \in Nat, p <= q,
           NEW r \in CompReserve
    PROVE  /\ Worth(f, x, p, r) \in Nat /\ Worth(f, x, q, r) \in Nat
           /\ Worth(f, x, p, r) <= Worth(f, x, q, r)
<1>0. EXP_SCALE \in Nat \ {0}
  BY HealthAssumption
<1>1. CASE r.is_col_liq /\ f > 0 /\ r.col_amount > 0
  <2> DEFINE c == r.col_amount
             rated == (f * x) \div EXP_SCALE
             low == (rated * p) \div EXP_SCALE
             high == (rated * q) \div EXP_SCALE
  <2>1. c \in Nat
    <3>1. r.col_amount \in Cols
      BY DEF CompReserve
    <3>2. r.col_amount \in Int
      BY <3>1, HealthAssumption
    <3> QED
      BY <1>1, <3>2
  <2>2. rated \in Nat
    <3>1. f * x \in Nat
      BY MulNat
    <3> QED
      BY <1>0, <3>1, DivNat
  <2> HIDE DEF rated
  <2>3. low \in Nat /\ high \in Nat /\ low <= high
    <3>1. rated * p \in Nat /\ rated * q \in Nat /\ rated * p <= rated * q
      BY <2>2, MulNat, MulMonotone
    <3> QED
      BY <1>0, <3>1, DivMonotone
  <2> HIDE DEF low, high, c
  <2>4. low * c \in Nat /\ high * c \in Nat /\ low * c <= high * c
    <3>1. c * low <= c * high
      BY <2>1, <2>3, MulMonotone
    <3> QED
      BY <2>1, <2>3, <3>1, MulNat
  <2>5. /\ (low * c) \div EXP_SCALE \in Nat /\ (high * c) \div EXP_SCALE \in Nat
        /\ (low * c) \div EXP_SCALE <= (high * c) \div EXP_SCALE
    BY <1>0, <2>4, DivMonotone
  <2>6. /\ Worth(f, x, p, r) = (low * c) \div EXP_SCALE
        /\ Worth(f, x, q, r) = (high * c) \div EXP_SCALE
    BY <1>1, Zenon DEF Worth, low, high, c, rated
  <2> QED
    BY <2>5, <2>6
<1>2. CASE ~(r.is_col_liq /\ f > 0 /\ r.col_amount > 0)
  <2>1. Worth(f, x, p, r) = 0 /\ Worth(f, x, q, r) = 0
    BY <1>2, Zenon DEF Worth
  <2> QED
    BY <2>1
<1> QED
  BY <1>1, <1>2

\* A debt grows with its price and its index.
LEMMA OwesGrows ==
    ASSUME NEW i \in Nat, NEW j \in Nat, i <= j, NEW p \in Nat, NEW q \in Nat, p <= q,
           NEW r \in CompReserve
    PROVE  /\ Owes(i, p, r) \in Nat /\ Owes(j, q, r) \in Nat
           /\ Owes(i, p, r) <= Owes(j, q, r)
<1> DEFINE a == r.debt_amount
           b == r.debt_interest
           low == IF a > 0 THEN (a * i) \div b ELSE 0
           high == IF a > 0 THEN (a * j) \div b ELSE 0
<1>0. EXP_SCALE \in Nat \ {0} /\ a \in Nat /\ b \in Nat \ {0}
  <2>1. r.debt_amount \in Debts /\ r.debt_interest \in Indexes
    BY DEF CompReserve
  <2> QED
    BY <2>1, HealthAssumption
<1> HIDE DEF a, b
<1>1. low \in Nat /\ high \in Nat /\ low <= high
  <2>1. a * i \in Nat /\ a * j \in Nat /\ a * i <= a * j
    BY <1>0, MulNat, MulMonotone
  <2>2. /\ (a * i) \div b \in Nat /\ (a * j) \div b \in Nat
        /\ (a * i) \div b <= (a * j) \div b
    BY <1>0, <2>1, DivMonotone
  <2>3. CASE a > 0
    <3>1. low = (a * i) \div b /\ high = (a * j) \div b
      BY <2>3
    <3> QED
      BY <2>2, <3>1
  <2>4. CASE ~(a > 0)
    <3>1. low = 0 /\ high = 0
      BY <2>4
    <3> QED
      BY <3>1
  <2> QED
    BY <2>3, <2>4
<1> HIDE DEF low, high
<1>2. low * p \in Nat /\ high * q \in Nat /\ low * p <= high * q
  <2>1. low * p <= low * q
    BY <1>1, MulMonotone
  <2>2. q * low <= q * high
    BY <1>1, MulMonotone
  <2>3. low * p \in Nat /\ low * q \in Nat /\ high * q \in Nat
    BY <1>1, MulNat
  <2>4. q * low = low * q /\ q * high = high * q
    BY <1>1
  <2> QED
    BY <2>1, <2>2, <2>3, <2>4
<1>3. /\ (low * p) \div EXP_SCALE \in Nat /\ (high * q) \div EXP_SCALE \in Nat
      /\ (low * p) \div EXP_SCALE <= (high * q) \div EXP_SCALE
  BY <1>0, <1>2, DivMonotone
<1>4. Owes(i, p, r) = (low * p) \div EXP_SCALE /\ Owes(j, q, r) = (high * q) \div EXP_SCALE
  BY Zenon DEF Owes, low, high, a, b
<1> QED
  BY <1>3, <1>4

\* What the two loops of calculate_health_factor add up to.
Numerator(n) == Total(ValueIn, n) /\ sum_collateral = n
Denominator(n) == Total(OwedIn, n) /\ sum_borrow_plus_effects = n + vai_repay

Totals == (\E n : Numerator(n)) /\ (\E n : Denominator(n))

LEMMA TotalsAre == Totals
<1>1. \E n : Numerator(n)
  <2> DEFINE Body(it) == [s \in SUBSET Ctokens |->
                 IF s = {} THEN 0
                 ELSE LET x == CHOOSE x \in s : TRUE IN collateral(x) + it[s \ {x}]]
             sum == CHOOSE it : it = Body(it)
  <2>1. ASSUME NEW it PROVE Body(it) = [s \in SUBSET Ctokens |-> Turn(it, ValueIn, s)]
    <3>1. ASSUME NEW s \in SUBSET Ctokens
          PROVE  (IF s = {} THEN 0
                  ELSE LET x == CHOOSE x \in s : TRUE IN collateral(x) + it[s \ {x}])
                     = Turn(it, ValueIn, s)
      <4>1. CASE s = {}
        BY <4>1 DEF Turn
      <4>2. CASE s # {}
        <5>1. OneOf(s) \in Ctokens
          BY <4>2, OneLess
        <5>2. ValueIn[OneOf(s)] = collateral(OneOf(s))
          BY <5>1 DEF ValueIn, Worth, collateral
        <5> QED
          BY <4>2, <5>2 DEF Turn, OneOf
      <4> QED
        BY <4>1, <4>2
    <3> QED
      BY <3>1
  <2>2. sum_collateral = sum[Ctokens]
    BY Zenon DEF sum_collateral, MapThenSumSet, MapThenFoldSet
  <2> HIDE DEF Body
  <2>3. \E it : it = Body(it)
    BY <2>1, SumExists, Zenon DEF IsSum
  <2>4. sum = Body(sum)
    BY <2>3, Zenon
  <2> HIDE DEF sum
  <2>5. IsSum(sum, ValueIn)
    BY <2>1, <2>4, Zenon DEF IsSum
  <2> QED
    BY <2>2, <2>5, Zenon DEF Numerator, Total
<1>2. \E n : Denominator(n)
  <2> DEFINE borrow(t) == (debt_balance(t) * price[t]) \div EXP_SCALE
             Body(it) == [s \in SUBSET Ctokens |->
                 IF s = {} THEN 0
                 ELSE LET x == CHOOSE x \in s : TRUE IN borrow(x) + it[s \ {x}]]
             sum == CHOOSE it : it = Body(it)
  <2>1. ASSUME NEW it PROVE Body(it) = [s \in SUBSET Ctokens |-> Turn(it, OwedIn, s)]
    <3>1. ASSUME NEW s \in SUBSET Ctokens
          PROVE  (IF s = {} THEN 0
                  ELSE LET x == CHOOSE x \in s : TRUE IN borrow(x) + it[s \ {x}])
                     = Turn(it, OwedIn, s)
      <4>1. CASE s = {}
        BY <4>1 DEF Turn
      <4>2. CASE s # {}
        <5>1. OneOf(s) \in Ctokens
          BY <4>2, OneLess
        <5>2. OwedIn[OneOf(s)] = borrow(OneOf(s))
          BY <5>1 DEF OwedIn, Owes, debt_balance
        <5> HIDE DEF borrow
        <5> QED
          BY <4>2, <5>2 DEF Turn, OneOf
      <4> QED
        BY <4>1, <4>2
    <3> QED
      BY <3>1
  <2>2. sum_borrow_plus_effects = sum[Ctokens] + vai_repay
    BY Zenon DEF sum_borrow_plus_effects, MapThenSumSet, MapThenFoldSet
  <2> HIDE DEF Body
  <2>3. \E it : it = Body(it)
    BY <2>1, SumExists, Zenon DEF IsSum
  <2>4. sum = Body(sum)
    BY <2>3, Zenon
  <2> HIDE DEF sum
  <2>5. IsSum(sum, OwedIn)
    BY <2>1, <2>4, Zenon DEF IsSum
  <2> QED
    BY <2>2, <2>5, Zenon DEF Denominator, Total
<1> QED
  BY <1>1, <1>2 DEF Totals

\* A step changes prices or borrow indexes, not both.
LEMMA OneChange == [Next]_vars => price' = price \/ borrow_index' = borrow_index
  BY DEF Next, vars, market, comet, user, set_price, query_exchange_rate, AccrueInterest,
         Transfer, Borrow, set_is_col_liq, NewLiquidationIncentive, set_vai_repay

\* A step that changes nothing but prices or indexes, and makes none of them smaller,
\* moves the two sums in one direction: the denominator up, and down neither; the
\* numerator as well, and not at all where no price of a collateral moves.
LEMMA SumsMove ==
    ASSUME TypeOK, TypeOK', UNCHANGED <<exchange_rate, comet, user>>,
           \A t \in Ctokens : price[t] <= price'[t] /\ borrow_index[t] <= borrow_index'[t],
           NEW n, Numerator(n), NEW m, Numerator(m)',
           NEW d, Denominator(d), NEW e, Denominator(e)'
    PROVE  /\ n \in Nat /\ m \in Nat /\ d \in Nat /\ e \in Nat
           /\ n <= m /\ d <= e
           /\ (\A t \in collaterals : price'[t] = price[t]) => n = m
           /\ (\A t \in debts : price'[t] = price[t] /\ borrow_index'[t] = borrow_index[t])
                 => d = e
<1> DEFINE V == ValueIn
           W == ValueIn'
           O == OwedIn
           Q == OwedIn'
<1>1. Total(V, n) /\ Total(W, m) /\ Total(O, d) /\ Total(Q, e)
  BY DEF Numerator, Denominator
<1>2. ASSUME NEW t \in Ctokens
      PROVE  /\ V[t] = Worth(ctokens_collateral_factor[t], exchange_rate[t], price[t], reserves[t])
             /\ W[t] = Worth(ctokens_collateral_factor[t], exchange_rate[t], price'[t], reserves[t])
             /\ O[t] = Owes(borrow_index[t], price[t], reserves[t])
             /\ Q[t] = Owes(borrow_index'[t], price'[t], reserves[t])
  BY DEF ValueIn, OwedIn, comet, user
<1> HIDE DEF V, W, O, Q
<1>3. ASSUME NEW t \in Ctokens
      PROVE  /\ ctokens_collateral_factor[t] \in Nat /\ exchange_rate[t] \in Nat
             /\ price[t] \in Nat /\ price'[t] \in Nat
             /\ borrow_index[t] \in Nat /\ borrow_index'[t] \in Nat
             /\ reserves[t] \in CompReserve
  <2>1. /\ ctokens_collateral_factor[t] \in Factors /\ exchange_rate[t] \in Rates
        /\ price[t] \in Prices /\ price'[t] \in Prices
        /\ borrow_index[t] \in Indexes /\ borrow_index'[t] \in Indexes
        /\ reserves[t] \in CompReserve
    BY DEF TypeOK
  <2> QED
    BY <2>1, HealthAssumption
<1>4. ASSUME NEW t \in Ctokens PROVE V[t] \in Nat /\ W[t] \in Nat /\ V[t] <= W[t]
  <2> DEFINE f == ctokens_collateral_factor[t]
             x == exchange_rate[t]
             p == price[t]
             q == price'[t]
             r == reserves[t]
  <2>1. f \in Nat /\ x \in Nat /\ p \in Nat /\ q \in Nat /\ p <= q /\ r \in CompReserve
    BY <1>3
  <2>2. V[t] = Worth(f, x, p, r) /\ W[t] = Worth(f, x, q, r)
    BY <1>2
  <2> HIDE DEF f, x, p, q, r
  <2>3. /\ Worth(f, x, p, r) \in Nat /\ Worth(f, x, q, r) \in Nat
        /\ Worth(f, x, p, r) <= Worth(f, x, q, r)
    BY <2>1, WorthGrows, Zenon
  <2> QED
    BY <2>2, <2>3
<1>5. ASSUME NEW t \in Ctokens PROVE O[t] \in Nat /\ Q[t] \in Nat /\ O[t] <= Q[t]
  <2> DEFINE i == borrow_index[t]
             j == borrow_index'[t]
             p == price[t]
             q == price'[t]
             r == reserves[t]
  <2>1. /\ i \in Nat /\ j \in Nat /\ i <= j /\ p \in Nat /\ q \in Nat /\ p <= q
        /\ r \in CompReserve
    BY <1>3
  <2>2. O[t] = Owes(i, p, r) /\ Q[t] = Owes(j, q, r)
    BY <1>2
  <2> HIDE DEF i, j, p, q, r
  <2> QED
    BY <2>1, <2>2, OwesGrows
<1>6. n \in Nat /\ m \in Nat /\ n <= m
  BY <1>1, <1>4, TotalOrder
<1>7. d \in Nat /\ e \in Nat /\ d <= e
  BY <1>1, <1>5, TotalOrder
<1>8. ASSUME \A t \in collaterals : price'[t] = price[t] PROVE n = m
  <2>1. ASSUME NEW t \in Ctokens PROVE W[t] = V[t]
    <3>1. CASE t \in collaterals
      BY <1>2, <1>8, <3>1
    <3>2. CASE t \notin collaterals
      <4>1. ~(reserves[t].col_amount > 0)
        BY <3>2 DEF collaterals
      <4>2. W[t] = 0 /\ V[t] = 0
        BY <1>2, <4>1, Zenon DEF Worth
      <4> QED
        BY <4>2
    <3> QED
      BY <3>1, <3>2
  <2>2. \A t \in Ctokens : W[t] \in Nat /\ V[t] \in Nat /\ W[t] <= V[t]
    BY <1>4, <2>1
  <2>3. m <= n
    BY <1>1, <2>2, TotalOrder
  <2> QED
    BY <1>6, <2>3
<1>9. ASSUME \A t \in debts : price'[t] = price[t] /\ borrow_index'[t] = borrow_index[t]
      PROVE  d = e
  <2>1. ASSUME NEW t \in Ctokens PROVE Q[t] = O[t]
    <3>1. CASE t \in debts
      BY <1>2, <1>9, <3>1
    <3>2. CASE t \notin debts
      <4>1. ~(reserves[t].debt_amount > 0)
        BY <3>2 DEF debts
      <4>2. /\ Q[t] = (0 * price'[t]) \div EXP_SCALE
            /\ O[t] = (0 * price[t]) \div EXP_SCALE
        BY <1>2, <4>1, Zenon DEF Owes
      <4>3. 0 * price'[t] = 0 * price[t]
        BY <1>3
      <4> QED
        BY <4>2, <4>3
    <3> QED
      BY <3>1, <3>2
  <2>2. \A t \in Ctokens : Q[t] \in Nat /\ O[t] \in Nat /\ Q[t] <= O[t]
    BY <1>5, <2>1
  <2>3. e <= d
    BY <1>1, <2>2, TotalOrder
  <2> QED
    BY <1>7, <2>3
<1> QED
  BY <1>6, <1>7, <1>8, <1>9

\* In a step of the model all prices and indexes rise, or the one half of HfStep that is
\* about it is void; the fractions are compared by their products.
LEMMA StepHf == TypeOK /\ TypeOK' /\ Totals /\ Totals' /\ [Next]_vars => HfStep
<1> SUFFICES ASSUME TypeOK, TypeOK', Totals, Totals', [Next]_vars,
                    UNCHANGED <<exchange_rate, comet, user>>, indebted, indebted'
             PROVE  LET moved == {t \in Ctokens : price'[t] # price[t]}
                        hf == calculate_health_factor
                        dearer == rises(price, price')
                    IN  /\ rises(borrow_index, borrow_index') => hf_leq(hf', hf)
                        /\ dearer /\ moved \cap collaterals = {} => hf_leq(hf', hf)
                        /\ dearer /\ moved \cap debts = {} => hf_leq(hf, hf')
  BY DEF HfStep
<1>1. PICK n : Numerator(n)
  BY DEF Totals
<1>2. PICK m : Numerator(m)'
  BY DEF Totals
<1>3. PICK d : Denominator(d)
  BY DEF Totals
<1>4. PICK e : Denominator(e)'
  BY DEF Totals
<1> DEFINE v == vai_repay
<1>5. v \in Nat /\ vai_repay' = v
  BY HealthAssumption DEF TypeOK, user
<1>6. /\ calculate_health_factor = <<n, d + v>>
      /\ calculate_health_factor' = <<m, e + v>>
  <2>1. d + v > 0 /\ e + v > 0
    BY <1>3, <1>4, <1>5 DEF Denominator, indebted
  <2> QED
    BY <1>1, <1>2, <1>3, <1>4, <1>5, <2>1
       DEF Numerator, Denominator, calculate_health_factor, indebted
<1> HIDE DEF v
<1>7. ASSUME \A t \in Ctokens : price[t] <= price'[t] /\ borrow_index[t] <= borrow_index'[t]
      PROVE  /\ n \in Nat /\ m \in Nat /\ d \in Nat /\ e \in Nat
             /\ n <= m /\ d <= e
             /\ (\A t \in collaterals : price'[t] = price[t]) => n = m
             /\ (\A t \in debts : price'[t] = price[t] /\ borrow_index'[t] = borrow_index[t])
                   => d = e
  BY <1>1, <1>2, <1>3, <1>4, <1>7, SumsMove
<1>8. \A t \in Ctokens : /\ price[t] \in Nat /\ price'[t] \in Nat
                         /\ borrow_index[t] \in Nat /\ borrow_index'[t] \in Nat
  <2>1. \A t \in Ctokens : /\ price[t] \in Prices /\ price'[t] \in Prices
                           /\ borrow_index[t] \in Indexes /\ borrow_index'[t] \in Indexes
    BY DEF TypeOK
  <2> QED
    BY <2>1, HealthAssumption
<1>9. ASSUME n = m, m \in Nat, d \in Nat, e \in Nat, d <= e
      PROVE  hf_leq(calculate_health_factor', calculate_health_factor)
  <2>1. m * (d + v) <= n * (e + v)
    BY <1>5, <1>9, MulMonotone
  <2> QED
    BY <1>6, <2>1 DEF hf_leq
<1>10. ASSUME d = e, n \in Nat, m \in Nat, e \in Nat, n <= m
       PROVE  hf_leq(calculate_health_factor, calculate_health_factor')
  <2>1. (d + v) * n <= (d + v) * m
    BY <1>5, <1>10, MulMonotone
  <2>2. n * (e + v) <= m * (d + v)
    BY <1>5, <1>10, <2>1
  <2> QED
    BY <1>6, <2>2 DEF hf_leq
<1>11. price' = price \/ borrow_index' = borrow_index
  BY OneChange
<1>12. ASSUME rises(borrow_index, borrow_index')
       PROVE  hf_leq(calculate_health_factor', calculate_health_factor)
  <2>1. price' = price
    BY <1>11, <1>12 DEF rises
  <2>2. \A t \in Ctokens : price[t] <= price'[t] /\ borrow_index[t] <= borrow_index'[t]
    BY <1>8, <1>12, <2>1 DEF rises
  <2> QED
    BY <1>7, <1>9, <2>1, <2>2
<1>13. ASSUME rises(price, price')
       PROVE  \A t \in Ctokens : price[t] <= price'[t] /\ borrow_index[t] <= borrow_index'[t]
  <2>1. borrow_index' = borrow_index
    BY <1>11, <1>13 DEF rises
  <2> QED
    BY <1>8, <1>13, <2>1 DEF rises
<1>14. ASSUME rises(price, price'), {t \in Ctokens : price'[t] # price[t]} \cap collaterals = {}
       PROVE  hf_leq(calculate_health_factor', calculate_health_factor)
  <2>1. \A t \in collaterals : price'[t] = price[t]
    BY <1>14 DEF collaterals
  <2> QED
    BY <1>7, <1>9, <1>13, <1>14, <2>1
<1>15. ASSUME rises(price, price'), {t \in Ctokens : price'[t] # price[t]} \cap debts = {}
       PROVE  hf_leq(calculate_health_factor, calculate_health_factor')
  <2>1. \A t \in debts : price'[t] = price[t]
    BY <1>15 DEF debts
  <2>2. borrow_index' = borrow_index
    BY <1>11, <1>15 DEF rises
  <2> QED
    BY <1>7, <1>10, <1>13, <1>15, <2>1, <2>2
<1> QED
  BY <1>12, <1>14, <1>15

\* calculate_health_factor follows its inputs: interest, and a dearer debt alone, never
\* raise it, a dearer collateral alone never lowers it, whatever the scale truncates,
\* for any set of ctokens.
THEOREM MonotoneCorrect == Spec => HfMonotone
<1>1. Spec => []TypeOK
  BY TypeCorrect
<1>2. TypeOK /\ TypeOK' /\ Totals /\ Totals' /\ [Next]_vars => [HfStep]_vars
  BY StepHf
<1> QED
  BY <1>1, <1>2, TotalsAre, PTL DEF Spec, HfMonotone
=============================================================================
