---------------------------- MODULE HealthFactor ----------------------------
(***************************************************************************)
(* The arithmetic of a liquidation: the health factor of a user, the pairs *)
(* of a debt and a collateral that liquidation_simulation offers           *)
(* (compound.py).  All numbers are Python integers that // truncates; the  *)
(* health factor, a quotient, stays a pair of integers.  The actions are   *)
(* what the subscriptions do to the values the arithmetic reads: other     *)
(* modules have their control, here each is one change of one user's       *)
(* account, of a market or of the comptroller's parameters.  (A log of a   *)
(* new collateral factor changes none that is read: Comet.)                *)
(***************************************************************************)
EXTENDS Integers, FiniteSets, FiniteSetsExt

CONSTANTS
    Ctokens,
    EXP_SCALE,
    TREASURY_PERCENT,
    Prices,         \* what a feed may report
    Rates,          \* exchange rates
    Factors,        \* collateral factors
    Indexes,        \* borrow indexes
    Incentives,     \* liquidation incentives
    closs_factor,
    Cols,           \* balances of ctokens
    Debts,          \* accountBorrows
    Vais            \* what vai_repay may be

\* A feed reports more than nothing, and a ctoken is worth at least one unit:
\* otherwise `denominator' is 0.
ASSUME HealthAssumption ==
    /\ IsFiniteSet(Ctokens)
    /\ EXP_SCALE \in Nat \ {0}
    /\ TREASURY_PERCENT \in Nat
    /\ Prices \subseteq Nat /\ Rates \subseteq Nat
    /\ \A p \in Prices, x \in Rates : p * x >= EXP_SCALE
    /\ Factors \subseteq Nat
    /\ Indexes \subseteq Nat \ {0}
    /\ Incentives \subseteq Nat \ {0}
    /\ \A i \in Incentives : TREASURY_PERCENT <= i
    /\ closs_factor \in Nat
    /\ Cols \subseteq Int
    /\ Debts \subseteq Nat
    /\ Vais \subseteq Nat

VARIABLES
    price,                      \* price_current
    exchange_rate,
    borrow_index,
    ctokens_collateral_factor,
    liq_incentive,
    reserves,                   \* the CompReserve of each ctoken
    vai_repay

market == <<price, exchange_rate, borrow_index>>
comet == <<ctokens_collateral_factor, liq_incentive>>
user == <<reserves, vai_repay>>
vars == <<market, comet, user>>

CompReserve == [col_amount : Cols, is_col_liq : BOOLEAN,
                debt_amount : Debts, debt_interest : Indexes]

-----------------------------------------------------------------------------
(* The health factor *)

\* What the collateral in t counts for.
collateral(t) ==
    LET r == reserves[t] IN
    IF r.is_col_liq /\ ctokens_collateral_factor[t] > 0 /\ r.col_amount > 0
    THEN LET rated == (ctokens_collateral_factor[t] * exchange_rate[t]) \div EXP_SCALE
             priced == (rated * price[t]) \div EXP_SCALE
         IN  (priced * r.col_amount) \div EXP_SCALE
    ELSE 0

inverted_debt(t) ==
    LET r == reserves[t] IN
    IF r.debt_amount > 0
    THEN (r.debt_amount * r.debt_interest) \div borrow_index[t]
    ELSE 0

\* The debt in t with the interest since it was recorded.  (An interest index
\* of 0, which is skipped here and would divide by zero below, is no index of
\* a positive debt: HotStates.DebtHasIndex.)
debt_balance(t) ==
    LET r == reserves[t] IN
    IF r.debt_amount > 0
    THEN (r.debt_amount * borrow_index[t]) \div r.debt_interest
    ELSE 0

sum_collateral == MapThenSumSet(collateral, Ctokens)

sum_borrow_plus_effects ==
    LET borrow(t) == (debt_balance(t) * price[t]) \div EXP_SCALE
    IN  MapThenSumSet(borrow, Ctokens) + vai_repay

\* <<n, d>> for the value n / d; 0 for a user without a debt.
calculate_health_factor ==
    IF sum_borrow_plus_effects <= 0 THEN <<0, 1>>
    ELSE <<sum_collateral, sum_borrow_plus_effects>>

-----------------------------------------------------------------------------
(* The pairs *)

mul_scalar_truncate(ratio, repay_amount) == (ratio * repay_amount) \div EXP_SCALE

reverse_rounded_up(ratio, seize_amount) ==
    (seize_amount * EXP_SCALE) \div ratio + 1

mul_scalar_truncate_reverse(ratio, seize_amount) ==
    (seize_amount * EXP_SCALE) \div ratio

whole_debt(t) == debt_balance(t)

debt_max(t) == mul_scalar_truncate(closs_factor, debt_balance(t))

debt_normalize(t) == (price[t] * debt_max(t)) \div EXP_SCALE

debts == {t \in Ctokens : reserves[t].debt_amount > 0}

\* The ctokens that are offered as collateral, entered or not.
collaterals == {t \in Ctokens : reserves[t].col_amount > 0}

ratio_of(d, c) ==
    LET numerator == (liq_incentive * price[d]) \div EXP_SCALE
        denominator == (price[c] * exchange_rate[c]) \div EXP_SCALE
    IN  (numerator * EXP_SCALE) \div denominator

\* The collateral does not cover what the largest repayment would seize.
short(d, c) ==
    reserves[c].col_amount < mul_scalar_truncate(ratio_of(d, c), debt_max(d))

rejust_repay_amount(d, c) ==
    IF short(d, c)
    THEN mul_scalar_truncate_reverse(ratio_of(d, c), reserves[c].col_amount)
    ELSE debt_max(d)

unbounded_seize(d, c) == mul_scalar_truncate(ratio_of(d, c), debt_max(d))

\* Before the treasury takes its part.
seized(d, c) ==
    IF short(d, c) THEN reserves[c].col_amount
    ELSE mul_scalar_truncate(ratio_of(d, c), debt_max(d))

seize_tokens(d, c) ==
    seized(d, c) - (seized(d, c) * TREASURY_PERCENT) \div liq_incentive

truncated_apart(d, c) ==
    ((seize_tokens(d, c) * exchange_rate[c]) \div EXP_SCALE) * price[c]
        - (rejust_repay_amount(d, c) * price[d]) \div EXP_SCALE

profit_apprx(d, c) ==
    (((seize_tokens(d, c) * exchange_rate[c]) \div EXP_SCALE) * price[c]
        - rejust_repay_amount(d, c) * price[d]) \div EXP_SCALE

\* The debts worth at least 0.8 of the largest one: liquidation_simulation offers
\* each of them with each collateral.
target_debts ==
    {d \in debts : \A e \in debts : 10 * debt_normalize(d) >= 8 * debt_normalize(e)}

-----------------------------------------------------------------------------
Init ==
    /\ price \in [Ctokens -> Prices]
    /\ exchange_rate \in [Ctokens -> Rates]
    /\ borrow_index \in [Ctokens -> Indexes]
    /\ ctokens_collateral_factor \in [Ctokens -> Factors]
    /\ liq_incentive \in Incentives
    /\ reserves \in [Ctokens -> CompReserve]
    /\ \A t \in Ctokens : reserves[t].debt_interest <= borrow_index[t]
    /\ vai_repay \in Vais

\* A price is taken from a signal, confirmed or reverted.
set_price(t) ==
    /\ \E p \in Prices : price' = [price EXCEPT ![t] = p]
    /\ UNCHANGED <<exchange_rate, borrow_index, comet, user>>

\* A header: the rate of one ctoken is queried.
query_exchange_rate(t) ==
    /\ \E x \in Rates : exchange_rate' = [exchange_rate EXCEPT ![t] = x]
    /\ UNCHANGED <<price, borrow_index, comet, user>>

AccrueInterest(t) ==
    /\ \E i \in Indexes : i > borrow_index[t]
                          /\ borrow_index' = [borrow_index EXCEPT ![t] = i]
    /\ UNCHANGED <<price, exchange_rate, comet, user>>

Transfer(t) ==
    /\ \E a \in Cols : reserves' = [reserves EXCEPT ![t].col_amount = a]
    /\ UNCHANGED <<market, comet, vai_repay>>

borrow_without_index(t) ==
    /\ \E a \in Debts :
          reserves' = [reserves EXCEPT ![t].debt_amount = a,
                                       ![t].debt_interest = 0]
    /\ UNCHANGED <<market, comet, vai_repay>>

\* Borrow and RepayBorrow: the debt is recorded with the index of now.
Borrow(t) ==
    /\ \E a \in Debts :
          reserves' = [reserves EXCEPT ![t].debt_amount = a,
                                       ![t].debt_interest = borrow_index[t]]
    /\ UNCHANGED <<market, comet, vai_repay>>

\* The flags of getAssetsIn.
set_is_col_liq(t) ==
    /\ reserves' = [reserves EXCEPT ![t].is_col_liq = ~@]
    /\ UNCHANGED <<market, comet, vai_repay>>

NewLiquidationIncentive ==
    /\ liq_incentive' \in Incentives
    /\ UNCHANGED <<market, ctokens_collateral_factor, user>>

set_vai_repay ==
    /\ vai_repay' \in Vais
    /\ UNCHANGED <<market, comet, reserves>>

Next ==
    \/ \E t \in Ctokens :
          \/ set_price(t) \/ query_exchange_rate(t) \/ AccrueInterest(t)
          \/ Transfer(t) \/ Borrow(t) \/ set_is_col_liq(t)
    \/ NewLiquidationIncentive
    \/ set_vai_repay

Spec == Init /\ [][Next]_vars

-----------------------------------------------------------------------------
(* Properties *)

\* The values a subscription can leave; a debt is never recorded with an index
\* of the future.
TypeOK ==
    /\ price \in [Ctokens -> Prices]
    /\ exchange_rate \in [Ctokens -> Rates]
    /\ borrow_index \in [Ctokens -> Indexes]
    /\ ctokens_collateral_factor \in [Ctokens -> Factors]
    /\ liq_incentive \in Incentives
    /\ reserves \in [Ctokens -> CompReserve]
    /\ \A t \in Ctokens : reserves[t].debt_interest <= borrow_index[t]
    /\ vai_repay \in Vais

\* What the chain would seize for the repayment of a pair, the truncations of
\* both directions included, is in the user's balance: the readjustment ("different
\* from onchain logic") never makes a transaction that asks for too much.
RepayFits ==
    \A d \in target_debts, c \in collaterals :
        mul_scalar_truncate(ratio_of(d, c), rejust_repay_amount(d, c))
            <= reserves[c].col_amount

\* The repayment of a pair, readjusted or not, is one the close factor permits.
RepayWithinClose ==
    \A d \in target_debts, c \in collaterals :
        /\ rejust_repay_amount(d, c) >= 0
        /\ rejust_repay_amount(d, c) * EXP_SCALE <= closs_factor * debt_balance(d)

\* What is gained, after the treasury's part, is between nothing and the balance.
SeizeWithinBalance ==
    \A d \in target_debts, c \in collaterals :
        /\ seize_tokens(d, c) >= 0
        /\ seize_tokens(d, c) <= reserves[c].col_amount

\* The profit that decides whether a pair is pursued is no more than the incentive
\* yields on its repayment, but for what the truncations hide: one unit of the
\* repayment and one of value per seized token.
ProfitBounded ==
    \A d \in target_debts, c \in collaterals :
        LET repay == rejust_repay_amount(d, c)
            yields == (liq_incentive * price[d]) \div EXP_SCALE
        IN  profit_apprx(d, c) * EXP_SCALE + repay * price[d]
                <= yields * (repay + 1) + seized(d, c)

hf_leq(h, g) == h[1] * g[2] <= g[1] * h[2]

rises(before, after) ==
    before # after /\ \A t \in Ctokens : after[t] >= before[t]

indebted == sum_borrow_plus_effects > 0

HfStep ==
    LET moved == {t \in Ctokens : price'[t] # price[t]}
        hf == calculate_health_factor
        only == UNCHANGED <<exchange_rate, comet, user>> /\ indebted /\ indebted'
        dearer == rises(price, price')
    IN  only => /\ rises(borrow_index, borrow_index') => hf_leq(hf', hf)
                /\ dearer /\ moved \cap collaterals = {} => hf_leq(hf', hf)
                /\ dearer /\ moved \cap debts = {} => hf_leq(hf, hf')

\* A step that lets interest accrue, or raises the price of a ctoken in which the
\* user has no collateral, never raises the health factor of a user in debt; one
\* that raises the price of a ctoken in which there is no debt never lowers it,
\* whatever calculate_health_factor truncates on the way.
HfMonotone == [][HfStep]_vars
=============================================================================
