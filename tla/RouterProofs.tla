---------------------------- MODULE RouterProofs ----------------------------
(***************************************************************************)
(* The routes of find_routs, for all tokens, reserves and fees: none over  *)
(* unused tokens is better, and what a route costs is enough to swap along *)
(* it.  Facts about the loops, which are recursive functions, are proved   *)
(* for the least number of turns at which they would fail.                 *)
(***************************************************************************)
EXTENDS Router, TLAPS, SequenceTheorems, FiniteSetTheorems, WellFoundedInduction

\* Python's // on naturals.
LEMMA Quotient ==
    ASSUME NEW a \in Nat, NEW b \in Nat \ {0}
    PROVE  /\ a \div b \in Nat
           /\ a < b * (a \div b) + b
  BY Z3

\* A product of naturals is one.
LEMMA Product ==
    ASSUME NEW a \in Nat, NEW b \in Nat
    PROVE  a * b \in Nat
  BY Z3

\* A quotient is at least what its divisor fits.
LEMMA QuotientAtLeast ==
    ASSUME NEW a \in Nat, NEW b \in Nat \ {0}, NEW c \in Nat, c * b <= a
    PROVE  c <= a \div b
<1> DEFINE q == a \div b
<1>1. q \in Nat /\ a < b * q + b
  BY Quotient
<1> HIDE DEF q
<1>2. c * b < b * q + b
  BY <1>1
<1>3. CASE c >= q + 1
  <2>1. b * c >= b * (q + 1)
    BY <1>1, <1>3, Z3
  <2> QED
    BY <2>1, <1>1, <1>2
<1>4. CASE c <= q
  BY <1>4 DEF q
<1> QED
  BY <1>1, <1>3, <1>4

\* A pool that is given what swap_simulation asks for pays out the amount: the +1
\* makes up for the truncation, whatever the reserves and the fee.
THEOREM SwapCovers ==
    ASSUME NEW liquidity \in [1..2 -> Nat], NEW out \in 1..2,
           NEW amount \in Nat,
           swap_simulation(liquidity, amount, out) # -1
    PROVE  getAmountOut(swap_simulation(liquidity, amount, out),
                        liquidity[3 - out], liquidity[out]) >= amount
<1> DEFINE x == liquidity[out]
           y == liquidity[3 - out]
           k == 10000 - fee
           b == (x - amount) * k
           a == y * amount * 10000
           q == a \div b
           paid == (q + 1) * k
<1>1. x \in Nat /\ y \in Nat
  OBVIOUS
<1>2. k \in Nat \ {0}
  BY RouterAssumption
<1>3. ~ (x < amount * 20) /\ x # amount
  BY DEF swap_simulation
<1>4. swap_simulation(liquidity, amount, out) = q + 1
  BY <1>3 DEF swap_simulation
<1>5. getAmountOut(q + 1, y, x) = (paid * x) \div (y * 10000 + paid)
  BY DEF getAmountOut
<1> HIDE DEF x, y, k
<1>6. x - amount \in Nat \ {0}
  BY <1>1, <1>3
<1>7. b \in Nat \ {0}
  BY <1>2, <1>6, Z3
<1>8. a \in Nat
  BY <1>1, Product
<1> HIDE DEF a, b
<1>9. q \in Nat /\ a < b * q + b
  BY <1>7, <1>8, Quotient
<1> HIDE DEF q
<1>10. paid \in Nat \ {0}
  BY <1>2, <1>9, Z3
<1>11. b * q + b = (x - amount) * paid
  BY <1>1, <1>2, <1>9 DEF b
<1>12. a = amount * (y * 10000)
  BY <1>1 DEF a
<1> HIDE DEF paid
<1>13. amount * (y * 10000) <= (x - amount) * paid
  BY <1>1, <1>6, <1>8, <1>9, <1>10, <1>11, <1>12
<1>14. amount * (y * 10000 + paid) <= paid * x
  BY <1>1, <1>6, <1>10, <1>13
<1>15. paid * x \in Nat /\ y * 10000 + paid \in Nat \ {0}
  BY <1>1, <1>10, Product
<1>16. amount <= (paid * x) \div (y * 10000 + paid)
  BY <1>14, <1>15, QuotientAtLeast
<1>17. getAmountOut(q + 1, y, x) >= amount
  <2>1. (paid * x) \div (y * 10000 + paid) \in Nat
    BY <1>15, Quotient
  <2> QED
    BY <2>1, <1>5, <1>16
<1> QED
  BY <1>4, <1>17 DEF x, y

-----------------------------------------------------------------------------
(* One swap, with reserves that earlier swaps of the route have moved *)

\* A product grows with its factors.
LEMMA ProductGrows ==
    ASSUME NEW a \in Nat, NEW b \in Nat, NEW c \in Nat, NEW d \in Nat, a <= c, b <= d
    PROVE  a * b <= c * d
<1>1. a * b <= c * b
  BY Z3
<1>2. c * b <= c * d
  BY Z3
<1>3. a * b \in Nat /\ c * b \in Nat /\ c * d \in Nat
  BY Product
<1> QED
  BY <1>1, <1>2, <1>3

\* A quotient times its divisor is at most the dividend.
LEMMA QuotientTimes ==
    ASSUME NEW a \in Nat, NEW b \in Nat \ {0}
    PROVE  (a \div b) * b <= a
  BY Z3

\* A pair pays out a natural amount and never more than it has.
LEMMA PaysOut ==
    ASSUME NEW amount \in Nat \ {0}, NEW rin \in Nat, NEW rout \in Nat
    PROVE  /\ getAmountOut(amount, rin, rout) \in Nat
           /\ getAmountOut(amount, rin, rout) <= rout
<1> DEFINE k == 10000 - fee
           w == amount * k
           b == rin * 10000 + w
           q == (w * rout) \div b
<1>1. getAmountOut(amount, rin, rout) = q
  BY DEF getAmountOut
<1>2. k \in Nat \ {0}
  BY RouterAssumption
<1> HIDE DEF k
<1>3. w \in Nat \ {0}
  BY <1>2, Z3
<1> HIDE DEF w
<1>4. b \in Nat \ {0} /\ w <= b
  BY <1>3
<1>5. w * rout \in Nat
  BY <1>3, Product
<1>6. q \in Nat /\ q * b <= w * rout
  BY <1>4, <1>5, Quotient, QuotientTimes
<1> HIDE DEF q
<1>7. q * w <= q * b
  BY <1>3, <1>4, <1>6, ProductGrows
<1>8. q * w <= w * rout
  <2>1. q * w \in Nat /\ q * b \in Nat
    BY <1>3, <1>4, <1>6, Product
  <2> HIDE DEF b
  <2> QED
    BY <1>5, <1>6, <1>7, <2>1
<1>9. q <= rout
  <2> SUFFICES ASSUME q >= rout + 1 PROVE FALSE
    BY <1>6
  <2>1. (rout + 1) * w <= q * w
    BY <1>3, <1>6, ProductGrows
  <2>2. (rout + 1) * w = w * rout + w
    BY <1>3
  <2>3. q * w \in Nat
    BY <1>3, <1>6, Product
  <2> QED
    BY <1>3, <1>5, <1>8, <2>1, <2>2, <2>3
<1> QED
  BY <1>1, <1>6, <1>9

\* A pair pays no less for more, nor after a swap the other way.
LEMMA PaysMore ==
    ASSUME NEW a \in Nat \ {0}, NEW rin \in Nat, NEW rout \in Nat,
           NEW a2 \in Nat, NEW rin2 \in Nat, NEW rout2 \in Nat,
           a <= a2, rin2 <= rin, rout <= rout2
    PROVE  getAmountOut(a, rin, rout) <= getAmountOut(a2, rin2, rout2)
<1> DEFINE k == 10000 - fee
           w == a * k
           w2 == a2 * k
           b == rin * 10000 + w
           b2 == rin2 * 10000 + w2
           q == (w * rout) \div b
<1>1. /\ getAmountOut(a, rin, rout) = q
      /\ getAmountOut(a2, rin2, rout2) = (w2 * rout2) \div b2
  BY DEF getAmountOut
<1>2. k \in Nat \ {0}
  BY RouterAssumption
<1> HIDE DEF k
<1>3. w \in Nat \ {0} /\ w2 \in Nat /\ w <= w2
  <2>1. w \in Nat \ {0} /\ w2 \in Nat
    BY <1>2, Z3
  <2>2. w <= w2
    BY <1>2, ProductGrows
  <2> QED
    BY <2>1, <2>2
<1>4. q \in Nat /\ q <= rout
  BY <1>1, PaysOut
<1> HIDE DEF w, w2
<1>5. b \in Nat \ {0} /\ b2 \in Nat \ {0}
  BY <1>3
<1>6. q * b <= w * rout
  <2>1. w * rout \in Nat
    BY <1>3, Product
  <2> QED
    BY <1>5, <2>1, QuotientTimes
<1> HIDE DEF q
<1> DEFINE d == w2 - w
<1>7. d \in Nat /\ w2 = w + d
  BY <1>3
<1> HIDE DEF d
<1>8. q * b2 <= q * b + q * d
  <2>1. b2 <= b + d /\ b + d \in Nat
    BY <1>3, <1>5, <1>7
  <2> HIDE DEF b, b2
  <2>2. q * b2 <= q * (b + d)
    BY <1>4, <1>5, <2>1, ProductGrows
  <2>3. q * (b + d) = q * b + q * d
    BY <1>4, <1>5, <1>7
  <2> QED
    BY <2>2, <2>3
<1>9. q * d <= d * rout2
  <2>1. q <= rout2
    BY <1>4
  <2>2. q * d <= rout2 * d
    BY <1>4, <1>7, <2>1, ProductGrows
  <2>3. rout2 * d = d * rout2
    BY <1>7
  <2> QED
    BY <2>2, <2>3
<1>10. w * rout <= w * rout2
  BY <1>3, ProductGrows
<1>11. w2 * rout2 = w * rout2 + d * rout2
  BY <1>3, <1>7
<1>12. q * b2 <= w2 * rout2
  <2>1. /\ q * b2 \in Nat /\ q * b \in Nat /\ q * d \in Nat /\ d * rout2 \in Nat
        /\ w * rout \in Nat /\ w * rout2 \in Nat /\ w2 * rout2 \in Nat
    BY <1>3, <1>4, <1>5, <1>7, Product
  <2> HIDE DEF b, b2
  <2> QED
    BY <1>6, <1>8, <1>9, <1>10, <1>11, <2>1
<1>13. w2 * rout2 \in Nat
  BY <1>3, Product
<1>14. q <= (w2 * rout2) \div b2
  <2> HIDE DEF b2
  <2> QED
    BY <1>4, <1>5, <1>12, <1>13, QuotientAtLeast
<1> QED
  BY <1>1, <1>14

\* What a swap costs is a positive number, or -1.
LEMMA SwapType ==
    ASSUME NEW liquidity \in [1..2 -> Nat], NEW out \in 1..2, NEW amount \in Nat
    PROVE  swap_simulation(liquidity, amount, out) \in (Nat \ {0}) \cup {-1}
<1> DEFINE x == liquidity[out]
           y == liquidity[3 - out]
           k == 10000 - fee
           a == y * amount * 10000
           b == (x - amount) * k
<1>1. x \in Nat /\ y \in Nat
  OBVIOUS
<1>2. k \in Nat \ {0}
  <2>1. fee \in 0..9999
    BY RouterAssumption
  <2> QED
    BY <2>1
<1>3. CASE x < amount * 20 \/ x = amount
  BY <1>3 DEF swap_simulation
<1>4. CASE ~(x < amount * 20 \/ x = amount)
  <2>1. swap_simulation(liquidity, amount, out) = a \div b + 1
    BY <1>4 DEF swap_simulation
  <2> HIDE DEF x, y, k
  <2>2. x - amount \in Nat \ {0}
    BY <1>1, <1>4
  <2>3. b \in Nat \ {0}
    BY <1>2, <2>2, Z3
  <2>4. a \in Nat
    BY <1>1, Product
  <2> HIDE DEF a, b
  <2>5. a \div b \in Nat
    BY <2>3, <2>4, Quotient
  <2> QED
    BY <2>1, <2>5
<1> QED
  BY <1>3, <1>4

\* A hop of the executed route delivers what the next one was computed with.
LEMMA HopCovers ==
    ASSUME NEW had \in [1..2 -> Nat], NEW in \in 1..2, NEW next \in Nat,
           swap_simulation(had, next, 3 - in) # -1,
           NEW has \in [1..2 -> Nat], has[in] <= had[in], had[3 - in] <= has[3 - in],
           NEW amount \in Nat, swap_simulation(had, next, 3 - in) <= amount
    PROVE  /\ getAmountOut(amount, has[in], has[3 - in]) \in Nat
           /\ getAmountOut(amount, has[in], has[3 - in]) <= has[3 - in]
           /\ getAmountOut(amount, has[in], has[3 - in]) >= next
<1> DEFINE need == swap_simulation(had, next, 3 - in)
<1>1. 3 - in \in 1..2 /\ 3 - (3 - in) = in
  OBVIOUS
<1>2. need \in Nat \ {0}
  BY <1>1, SwapType
<1>3. getAmountOut(need, had[in], had[3 - in]) >= next
  <2>1. getAmountOut(need, had[3 - (3 - in)], had[3 - in]) >= next
    BY <1>1, SwapCovers
  <2> QED
    BY <1>1, <2>1
<1> HIDE DEF need
<1>4. /\ had[in] \in Nat /\ had[3 - in] \in Nat /\ has[in] \in Nat /\ has[3 - in] \in Nat
      /\ amount \in Nat \ {0} /\ need <= amount
  BY <1>1, <1>2 DEF need
<1>5. getAmountOut(need, had[in], had[3 - in]) <= getAmountOut(amount, has[in], has[3 - in])
  BY <1>2, <1>4, PaysMore
<1>6. /\ getAmountOut(need, had[in], had[3 - in]) \in Nat
      /\ getAmountOut(amount, has[in], has[3 - in]) \in Nat
      /\ getAmountOut(amount, has[in], has[3 - in]) <= has[3 - in]
  BY <1>2, <1>4, PaysOut
<1> QED
  BY <1>3, <1>5, <1>6

-----------------------------------------------------------------------------
(* The order of the tokens in a pool *)

\* Of two tokens one is first and the other second.
LEMMA PlaceFlips ==
    ASSUME NEW order \in {ByNumber, ByText}, NEW a \in Tokens, NEW b \in Tokens, a # b
    PROVE  /\ PlaceIn(order, a, b) \in 1..2
           /\ PlaceIn(order, b, a) = 3 - PlaceIn(order, a, b)
<1>1. /\ order \in Seq(Tokens) /\ Len(order) \in Nat /\ DOMAIN order = 1..Len(order)
      /\ \A i, j \in 1..Len(order) : order[i] = order[j] => i = j
      /\ Tokens = {order[i] : i \in 1..Len(order)}
  <2>1. order \in Seq(Tokens) /\ IsInjective(order) /\ ToSet(order) = Tokens
    BY OrderAssumption
  <2>2. Len(order) \in Nat /\ DOMAIN order = 1..Len(order)
    BY <2>1, LenProperties
  <2> QED
    BY <2>1, <2>2 DEF IsInjective, ToSet
<1>2. PICK i \in 1..Len(order), j \in 1..Len(order) : order[i] = a /\ order[j] = b
  BY <1>1, Zenon
<1>3. i # j /\ i \in Int /\ j \in Int
  BY <1>1, <1>2
<1> DEFINE First(x, y) == \E m, n \in 1..Len(order) : m < n /\ order[m] = x /\ order[n] = y
<1>4. First(a, b) <=> i < j
  BY <1>1, <1>2
<1>5. First(b, a) <=> j < i
  BY <1>1, <1>2
<1>6. /\ PlaceIn(order, a, b) = IF First(a, b) THEN 1 ELSE 2
      /\ PlaceIn(order, b, a) = IF First(b, a) THEN 1 ELSE 2
  BY Zenon DEF PlaceIn
<1> HIDE DEF First
<1> QED
  BY <1>3, <1>4, <1>5, <1>6

\* The tokens are finitely many.
LEMMA TokensFinite == IsFiniteSet(Tokens)
<1>1. ByNumber \in Seq(Tokens) /\ ToSet(ByNumber) = Tokens
  BY OrderAssumption
<1>2. /\ Len(ByNumber) \in Nat /\ ByNumber \in [1..Len(ByNumber) -> Tokens]
      /\ DOMAIN ByNumber = 1..Len(ByNumber)
  BY <1>1, LenProperties
<1>3. ByNumber \in Surjection(1..Len(ByNumber), Tokens)
  <2>1. Tokens = {ByNumber[i] : i \in 1..Len(ByNumber)}
    BY <1>1, <1>2 DEF ToSet
  <2> QED
    BY <1>2, <2>1 DEF Surjection
<1>4. IsFiniteSet(1..Len(ByNumber))
  BY <1>2, FS_Interval
<1> QED
  BY <1>3, <1>4, FS_Surjection

\* A pool is of two different tokens.
LEMMA PairIs ==
    ASSUME NEW a, NEW b, {a, b} \in Pairs
    PROVE  a \in Tokens /\ b \in Tokens /\ a # b /\ Reserves[{a, b}] \in [1..2 -> Nat]
<1>1. {a, b} \in SUBSET Tokens /\ Cardinality({a, b}) = 2
  BY DEF Pairs, kSubset
<1>2. a # b
  <2> SUFFICES ASSUME a = b PROVE FALSE
    OBVIOUS
  <2>1. {a, b} = {a}
    OBVIOUS
  <2>2. Cardinality({a}) = 1
    BY FS_Singleton
  <2> QED
    BY <1>1, <2>1, <2>2
<1>3. Reserves[{a, b}] \in [1..2 -> Nat]
  BY RouterAssumption
<1> QED
  BY <1>1, <1>2, <1>3

-----------------------------------------------------------------------------
(* What a path costs *)

\* A set of naturals has a least element.
LEMMA NatMin ==
    ASSUME NEW T \in SUBSET Nat, T # {}
    PROVE  \E x \in T : \A y \in T : x <= y
<1>1. PICK x \in T : \A y \in T : ~ (<<y, x>> \in OpToRel(<, Nat))
  BY NatLessThanWellFounded, WFMin, Zenon
<1>2. ASSUME NEW y \in T PROVE x <= y
  <2>1. x \in Nat /\ y \in Nat
    OBVIOUS
  <2>2. <<y, x>> \in OpToRel(<, Nat) <=> y < x
    BY <2>1, Zenon DEF OpToRel
  <2>3. ~ (y < x)
    BY <1>1, <2>2, Zenon
  <2> QED
    BY <2>1, <2>3
<1> QED
  BY <1>2

\* One turn of the loop over a path, given the pools.
Hop(pl, in, out, needed) ==
    IF needed = -1 THEN -1
    ELSE IF {in, out} \in pl
         THEN swap_simulation(Reserves[{in, out}], needed, 3 - gen_pool_key(in, out))
         ELSE -1

\* f gives what is needed after each of the first m hops.
IsCosts(f, m, pl, hops, amount) ==
    f = [n \in 0..m |-> IF n = 0 THEN amount
                        ELSE Hop(pl, hops[n + 1], hops[n], f[n - 1])]

Costs(pl, hops, amount) == CHOOSE f : IsCosts(f, Len(hops) - 1, pl, hops, amount)

Cost(pl, hops, amount) == Costs(pl, hops, amount)[Len(hops) - 1]

\* amount_in, with the pools as a parameter.
LEMMA CostIs ==
    ASSUME NEW hops, NEW amount
    PROVE  amount_in(hops, amount) = Cost(pools, hops, amount)
  BY Zenon DEF amount_in, Cost, Costs, IsCosts, Hop, single_rout_simulation

NoCosts(pl, hops, amount) == {m \in Nat : ~ \E f : IsCosts(f, m, pl, hops, amount)}

\* The recursion has a solution.
LEMMA CostsExist ==
    ASSUME NEW pl, NEW hops, NEW amount, NEW m \in Nat
    PROVE  \E f : IsCosts(f, m, pl, hops, amount)
<1> SUFFICES ASSUME NoCosts(pl, hops, amount) # {}
             PROVE  FALSE
  BY Zenon DEF NoCosts
<1>1. PICK x \in NoCosts(pl, hops, amount) : \A y \in NoCosts(pl, hops, amount) : x <= y
  <2>1. NoCosts(pl, hops, amount) \in SUBSET Nat
    BY Zenon DEF NoCosts
  <2> QED
    BY <2>1, NatMin
<1>2. x \in Nat /\ \A f : ~IsCosts(f, x, pl, hops, amount)
  BY <1>1, Zenon DEF NoCosts
<1>3. x # 0
  <2> DEFINE f == [n \in 0..0 |-> amount]
  <2>1. IsCosts(f, 0, pl, hops, amount)
    <3>1. \A n \in 0..0 : n = 0
      OBVIOUS
    <3> QED
      BY <3>1 DEF IsCosts
  <2> QED
    BY <1>2, <2>1
<1>4. x - 1 \in Nat /\ x - 1 \notin NoCosts(pl, hops, amount)
  BY <1>1, <1>2, <1>3
<1>5. PICK f : IsCosts(f, x - 1, pl, hops, amount)
  BY <1>4, Zenon DEF NoCosts
<1> DEFINE last == Hop(pl, hops[x + 1], hops[x], f[x - 1])
           g == [n \in 0..x |-> IF n = x THEN last ELSE f[n]]
<1>6. \A n \in 0..x - 1 :
         f[n] = IF n = 0 THEN amount ELSE Hop(pl, hops[n + 1], hops[n], f[n - 1])
  BY <1>5 DEF IsCosts
<1>7. ASSUME NEW n \in 0..x
      PROVE  g[n] = IF n = 0 THEN amount ELSE Hop(pl, hops[n + 1], hops[n], g[n - 1])
  <2>1. CASE n = 0
    <3>1. n \in 0..x - 1 /\ n # x
      BY <1>4, <1>3, <2>1
    <3>2. g[n] = f[n]
      BY <3>1
    <3> QED
      BY <1>6, <2>1, <3>1, <3>2
  <2>2. CASE n # 0 /\ n # x
    <3>1. n \in 0..x - 1 /\ n - 1 \in 0..x /\ n - 1 # x
      BY <1>2, <2>2
    <3>2. g[n] = f[n] /\ g[n - 1] = f[n - 1]
      BY <3>1, <2>2
    <3> QED
      BY <1>6, <2>2, <3>1, <3>2
  <2>3. CASE n # 0 /\ n = x
    <3>1. x - 1 \in 0..x /\ x - 1 # x
      BY <1>2, <1>4
    <3>2. g[x] = last /\ g[x - 1] = f[x - 1]
      BY <3>1, <2>3
    <3> QED
      BY <2>3, <3>2
  <2> QED
    BY <2>1, <2>2, <2>3
<1>8. IsCosts(g, x, pl, hops, amount)
  <2>1. g = [n \in 0..x |-> g[n]]
    OBVIOUS
  <2> HIDE DEF g
  <2>2. [n \in 0..x |-> g[n]]
          = [n \in 0..x |-> IF n = 0 THEN amount
                            ELSE Hop(pl, hops[n + 1], hops[n], g[n - 1])]
    BY <1>7
  <2> QED
    BY <2>1, <2>2 DEF IsCosts
<1> QED
  BY <1>2, <1>8

\* What a hop costs: a number, or -1.
LEMMA HopType ==
    ASSUME NEW pl \in SUBSET Pairs, NEW a, NEW b, NEW needed \in Nat \cup {-1}
    PROVE  /\ Hop(pl, a, b, needed) \in Nat \cup {-1}
           /\ Hop(pl, a, b, needed) # -1 =>
                 /\ needed # -1 /\ {a, b} \in Pairs
                 /\ Hop(pl, a, b, needed) =
                       swap_simulation(Reserves[{a, b}], needed, 3 - gen_pool_key(a, b))
<1>1. CASE needed = -1 \/ {a, b} \notin pl
  BY <1>1 DEF Hop
<1>2. CASE needed # -1 /\ {a, b} \in pl
  <2>1. {a, b} \in Pairs
    BY <1>2
  <2>2. a \in Tokens /\ b \in Tokens /\ a # b /\ Reserves[{a, b}] \in [1..2 -> Nat]
    BY <2>1, PairIs
  <2>3. gen_pool_key(a, b) \in 1..2
    BY <2>2, PlaceFlips DEF gen_pool_key
  <2>4. 3 - gen_pool_key(a, b) \in 1..2 /\ needed \in Nat
    BY <1>2, <2>3
  <2> DEFINE cost == swap_simulation(Reserves[{a, b}], needed, 3 - gen_pool_key(a, b))
  <2>5. cost \in (Nat \ {0}) \cup {-1}
    BY <2>2, <2>4, SwapType
  <2>6. Hop(pl, a, b, needed) = cost
    BY <1>2 DEF Hop
  <2> HIDE DEF cost
  <2>7. Hop(pl, a, b, needed) \in Nat \cup {-1}
    BY <2>5, <2>6
  <2> QED
    BY <1>2, <2>1, <2>6, <2>7 DEF cost
<1> QED
  BY <1>1, <1>2

\* The costs of a path hop by hop: numbers, unless one of them is -1, and then so
\* is the last.
CostRun(f, pl, hops, amount) ==
    /\ f[0] = amount
    /\ \A n \in 1..Len(hops) - 1 : f[n] = Hop(pl, hops[n + 1], hops[n], f[n - 1])
    /\ \A n \in 0..Len(hops) - 1 : f[n] \in Nat \cup {-1}
    /\ f[Len(hops) - 1] # -1 => \A n \in 0..Len(hops) - 1 : f[n] # -1

\* The costs along a path, and their types.
LEMMA CostSteps ==
    ASSUME NEW pl \in SUBSET Pairs, NEW hops, Len(hops) \in Nat \ {0}, NEW amount \in Nat,
           NEW f, f = Costs(pl, hops, amount)
    PROVE  CostRun(f, pl, hops, amount)
<1> DEFINE m == Len(hops) - 1
<1>0. m \in Nat
  OBVIOUS
<1>1. IsCosts(f, m, pl, hops, amount)
  <2>1. \E g : IsCosts(g, m, pl, hops, amount)
    <3> HIDE DEF m
    <3> QED
      BY <1>0, CostsExist
  <2> QED
    BY <2>1, Zenon DEF Costs
<1> HIDE DEF m
<1>2. f[0] = amount /\ \A n \in 1..m : f[n] = Hop(pl, hops[n + 1], hops[n], f[n - 1])
  BY <1>0, <1>1 DEF IsCosts
<1>3. \A n \in 0..m : f[n] \in Nat \cup {-1}
  <2> DEFINE Bad == {n \in 0..m : f[n] \notin Nat \cup {-1}}
  <2> SUFFICES ASSUME Bad # {} PROVE FALSE
    OBVIOUS
  <2>1. Bad \in SUBSET Nat
    BY <1>0
  <2>2. PICK x \in Bad : \A y \in Bad : x <= y
    <3> HIDE DEF Bad
    <3> QED
      BY <2>1, NatMin
  <2>3. x \in 0..m /\ f[x] \notin Nat \cup {-1}
    BY <2>2
  <2>4. x # 0
    BY <1>2, <2>3
  <2>5. x \in 1..m /\ x - 1 \in 0..m /\ ~(x <= x - 1)
    BY <1>0, <2>3, <2>4
  <2>6. f[x - 1] \in Nat \cup {-1}
    BY <2>2, <2>5, Zenon
  <2>7. f[x] = Hop(pl, hops[x + 1], hops[x], f[x - 1])
    BY <1>2, <2>5
  <2>8. Hop(pl, hops[x + 1], hops[x], f[x - 1]) \in Nat \cup {-1}
    BY <2>6, HopType
  <2> QED
    BY <2>3, <2>7, <2>8
<1>4. ASSUME f[m] # -1 PROVE \A n \in 0..m : f[n] # -1
  <2> DEFINE Bad == {d \in 0..m : f[m - d] = -1}
  <2>1. Bad = {}
    <3> SUFFICES ASSUME Bad # {} PROVE FALSE
      OBVIOUS
    <3>1. Bad \in SUBSET Nat
      BY <1>0
    <3>2. PICK x \in Bad : \A y \in Bad : x <= y
      <4> HIDE DEF Bad
      <4> QED
        BY <3>1, NatMin
    <3>3. x \in 0..m /\ f[m - x] = -1
      BY <3>2
    <3>4. x # 0
      BY <1>0, <1>4, <3>3
    <3>5. /\ x - 1 \in 0..m /\ ~(x <= x - 1) /\ m - (x - 1) \in 1..m
          /\ m - (x - 1) - 1 = m - x
      BY <1>0, <3>3, <3>4
    <3> DEFINE n == m - (x - 1)
    <3>6. n \in 1..m /\ f[n - 1] = -1
      BY <3>3, <3>5
    <3>7. f[n] # -1
      BY <3>2, <3>5, Zenon
    <3> HIDE DEF n
    <3>8. f[n] = Hop(pl, hops[n + 1], hops[n], -1)
      BY <1>2, <3>6
    <3>9. Hop(pl, hops[n + 1], hops[n], -1) = -1
      BY DEF Hop
    <3> QED
      BY <3>7, <3>8, <3>9
  <2>2. ASSUME NEW n \in 0..m PROVE f[n] # -1
    <3>1. m - n \in 0..m /\ m - (m - n) = n
      BY <1>0
    <3>2. m - n \notin Bad
      BY <2>1
    <3> QED
      BY <3>1, <3>2
  <2> QED
    BY <2>2
<1> QED
  BY <1>2, <1>3, <1>4 DEF m, CostRun

-----------------------------------------------------------------------------
(* Paths *)

\* A path from token to token over hubs that are neither: no token twice, except
\* that the last may be the first.
LEMMA PathIs ==
    ASSUME NEW in \in Tokens, NEW out \in Tokens, NEW hubs \in SUBSET (Tokens \ {in, out}),
           NEW p \in paths(hubs, in, out)
    PROVE  /\ Len(p) \in Nat /\ Len(p) >= 2
           /\ \A i \in 1..Len(p) : p[i] \in Tokens
           /\ \A i, j \in 1..Len(p) - 1 : i # j => p[i] # p[j]
<1>1. PICK res \in SetToAllKPermutations(hubs) : p = <<out>> \o res \o <<in>>
  BY DEF paths
<1>2. PICK s \in SUBSET hubs : res \in SetToSeqs(s)
  BY DEF SetToAllKPermutations
<1> DEFINE n == Cardinality(s)
<1>3. n \in Nat
  <2>1. s \in SUBSET Tokens
    OBVIOUS
  <2>2. IsFiniteSet(s)
    BY <2>1, TokensFinite, FS_Subset
  <2> QED
    BY <2>2, FS_CardinalityType
<1>4. res \in [1..n -> s] /\ \A i, j \in 1..n : i # j => res[i] # res[j]
  BY <1>2, Zenon DEF SetToSeqs
<1> HIDE DEF n
<1>5. res \in Seq(Tokens) /\ Len(res) = n
  BY <1>3, <1>4
<1>6. /\ <<out>> \in Seq(Tokens) /\ Len(<<out>>) = 1 /\ <<out>>[1] = out
      /\ <<in>> \in Seq(Tokens) /\ Len(<<in>>) = 1 /\ <<in>>[1] = in
  OBVIOUS
<1> DEFINE head == <<out>> \o res
<1>7. /\ head \in Seq(Tokens) /\ Len(head) = 1 + n
      /\ \A i \in 1..1 + n : head[i] = IF i <= 1 THEN <<out>>[i] ELSE res[i - 1]
  <2>1. /\ head \in Seq(Tokens) /\ Len(head) = Len(<<out>>) + Len(res)
        /\ \A i \in 1..Len(<<out>>) + Len(res) :
              head[i] = IF i <= Len(<<out>>) THEN <<out>>[i] ELSE res[i - Len(<<out>>)]
    BY <1>5, <1>6, ConcatProperties
  <2> HIDE DEF head
  <2> QED
    BY <1>5, <1>6, <2>1
<1>8. \A i \in 1..1 + n : head[i] = IF i = 1 THEN out ELSE res[i - 1]
  BY <1>3, <1>6, <1>7
<1> HIDE DEF head
<1>9. /\ p \in Seq(Tokens) /\ Len(p) = n + 2
      /\ \A i \in 1..1 + n : p[i] = head[i]
  <2>1. /\ head \o <<in>> \in Seq(Tokens) /\ Len(head \o <<in>>) = Len(head) + Len(<<in>>)
        /\ \A i \in 1..Len(head) + Len(<<in>>) :
              (head \o <<in>>)[i] = IF i <= Len(head) THEN head[i] ELSE <<in>>[i - Len(head)]
    BY <1>6, <1>7, ConcatProperties
  <2>2. p = head \o <<in>>
    BY <1>1 DEF head
  <2> QED
    BY <1>3, <1>6, <1>7, <2>1, <2>2
<1>10. ASSUME NEW i \in 1..Len(p) - 1, NEW j \in 1..Len(p) - 1, i # j
       PROVE  p[i] # p[j]
  <2>1. i \in 1..1 + n /\ j \in 1..1 + n
    BY <1>3, <1>9
  <2>2. p[i] = (IF i = 1 THEN out ELSE res[i - 1]) /\ p[j] = IF j = 1 THEN out ELSE res[j - 1]
    BY <1>8, <1>9, <2>1
  <2>3. \A k \in 1..n : res[k] # out
    BY <1>4
  <2>4. /\ i # 1 => i - 1 \in 1..n
        /\ j # 1 => j - 1 \in 1..n
        /\ i - 1 # j - 1
    BY <1>3, <1>10, <2>1
  <2>5. CASE i = 1
    BY <1>10, <2>2, <2>3, <2>4, <2>5
  <2>6. CASE j = 1
    BY <1>10, <2>2, <2>3, <2>4, <2>6
  <2>7. CASE i # 1 /\ j # 1
    <3>1. res[i - 1] # res[j - 1]
      BY <1>4, <2>4, <2>7, Zenon
    <3> QED
      BY <2>2, <2>7, <3>1
  <2> QED
    BY <2>5, <2>6, <2>7
<1>11. Len(p) \in Nat /\ Len(p) >= 2
  BY <1>3, <1>9
<1>12. \A i \in 1..Len(p) : p[i] \in Tokens
  BY <1>9, LenProperties
<1> QED
  BY <1>10, <1>11, <1>12

\* More hubs, more paths.
LEMMA PathsGrow ==
    ASSUME NEW H1, NEW H2, H1 \subseteq H2, NEW in, NEW out
    PROVE  paths(H1, in, out) \subseteq paths(H2, in, out)
<1>1. SetToAllKPermutations(H1) \subseteq SetToAllKPermutations(H2)
  BY Zenon DEF SetToAllKPermutations
<1> QED
  BY <1>1 DEF paths

-----------------------------------------------------------------------------
(* Swapping along a path *)

\* The state after each of the first m swaps.
IsDone(f, m, hops, amount) ==
    f = [n \in 0..m |->
            IF n = 0 THEN [amount |-> amount, reserves |-> Reserves]
            ELSE Swapped(f[n - 1], hops[Len(hops) - n], hops[Len(hops) - n + 1])]

NoDone(hops, amount) == {m \in Nat : ~ \E f : IsDone(f, m, hops, amount)}

\* The recursion has a solution.
LEMMA DoneExists ==
    ASSUME NEW hops, NEW amount, NEW m \in Nat
    PROVE  \E f : IsDone(f, m, hops, amount)
<1> DEFINE Sw(prev, n) == Swapped(prev, hops[Len(hops) - n], hops[Len(hops) - n + 1])
           start == [amount |-> amount, reserves |-> Reserves]
<1>0. \A f, x : IsDone(f, x, hops, amount)
                  <=> f = [n \in 0..x |-> IF n = 0 THEN start ELSE Sw(f[n - 1], n)]
  BY Zenon DEF IsDone
<1> HIDE DEF Sw, start
<1> SUFFICES ASSUME NoDone(hops, amount) # {}
             PROVE  FALSE
  BY Zenon DEF NoDone
<1>1. PICK x \in NoDone(hops, amount) : \A y \in NoDone(hops, amount) : x <= y
  <2>1. NoDone(hops, amount) \in SUBSET Nat
    BY Zenon DEF NoDone
  <2> QED
    BY <2>1, NatMin
<1>2. x \in Nat /\ \A f : ~IsDone(f, x, hops, amount)
  BY <1>1, Zenon DEF NoDone
<1>3. x # 0
  <2> DEFINE f == [n \in 0..0 |-> start]
  <2>1. f = [n \in 0..0 |-> IF n = 0 THEN start ELSE Sw(f[n - 1], n)]
    <3>1. \A n \in 0..0 : n = 0
      OBVIOUS
    <3> QED
      BY <3>1
  <2> HIDE DEF f
  <2>2. IsDone(f, 0, hops, amount)
    BY <1>0, <2>1, Zenon
  <2> QED
    BY <1>2, <2>2
<1>4. x - 1 \in Nat /\ x - 1 \notin NoDone(hops, amount)
  BY <1>1, <1>2, <1>3
<1>5. PICK f : IsDone(f, x - 1, hops, amount)
  BY <1>4, Zenon DEF NoDone
<1> DEFINE g == [n \in 0..x |-> IF n = x THEN Sw(f[x - 1], x) ELSE f[n]]
<1>6. \A n \in 0..x - 1 : f[n] = IF n = 0 THEN start ELSE Sw(f[n - 1], n)
  <2>1. f = [n \in 0..x - 1 |-> IF n = 0 THEN start ELSE Sw(f[n - 1], n)]
    BY <1>0, <1>5, Zenon
  <2> QED
    BY <2>1
<1>7. ASSUME NEW n \in 0..x
      PROVE  g[n] = IF n = 0 THEN start ELSE Sw(g[n - 1], n)
  <2>1. CASE n = 0
    <3>1. n \in 0..x - 1 /\ n # x
      BY <1>4, <1>3, <2>1
    <3>2. g[n] = f[n]
      BY <3>1
    <3> QED
      BY <1>6, <2>1, <3>1, <3>2
  <2>2. CASE n # 0 /\ n # x
    <3>1. n \in 0..x - 1 /\ n - 1 \in 0..x /\ n - 1 # x
      BY <1>2, <2>2
    <3>2. g[n] = f[n] /\ g[n - 1] = f[n - 1]
      BY <3>1, <2>2
    <3> QED
      BY <1>6, <2>2, <3>1, <3>2
  <2>3. CASE n # 0 /\ n = x
    <3>1. x - 1 \in 0..x /\ x - 1 # x
      BY <1>2, <1>4
    <3>2. g[x] = Sw(f[x - 1], x) /\ g[x - 1] = f[x - 1]
      BY <3>1, <2>3
    <3> QED
      BY <2>3, <3>2
  <2> QED
    BY <2>1, <2>2, <2>3
<1>8. g = [n \in 0..x |-> IF n = 0 THEN start ELSE Sw(g[n - 1], n)]
  <2>1. g = [n \in 0..x |-> g[n]]
    OBVIOUS
  <2> HIDE DEF g
  <2>2. [n \in 0..x |-> g[n]] = [n \in 0..x |-> IF n = 0 THEN start ELSE Sw(g[n - 1], n)]
    BY <1>7
  <2> QED
    BY <2>1, <2>2
<1> HIDE DEF g
<1>9. IsDone(g, x, hops, amount)
  BY <1>0, <1>8, Zenon
<1> QED
  BY <1>2, <1>9

\* The swaps of a route one after the other.
DoneRun(g, hops, amount) ==
    /\ Executed(hops, amount) = g[Len(hops) - 1]
    /\ g[0] = [amount |-> amount, reserves |-> Reserves]
    /\ \A n \in 1..Len(hops) - 1 :
          g[n] = Swapped(g[n - 1], hops[Len(hops) - n], hops[Len(hops) - n + 1])

\* The swaps of Executed, one after the other.
LEMMA DoneSteps ==
    ASSUME NEW hops, Len(hops) \in Nat \ {0}, NEW amount
    PROVE  \E g : DoneRun(g, hops, amount)
<1> DEFINE m == Len(hops) - 1
           g == CHOOSE f : IsDone(f, Len(hops) - 1, hops, amount)
<1>0. m \in Nat
  OBVIOUS
<1>1. Executed(hops, amount) = g[Len(hops) - 1]
  BY Zenon DEF Executed, IsDone
<1>2. IsDone(g, m, hops, amount)
  <2>1. \E f : IsDone(f, m, hops, amount)
    <3> HIDE DEF m
    <3> QED
      BY <1>0, DoneExists
  <2> QED
    BY <2>1, Zenon
<1> HIDE DEF g, m
<1>3. /\ g[0] = [amount |-> amount, reserves |-> Reserves]
      /\ \A n \in 1..m :
            g[n] = Swapped(g[n - 1], hops[Len(hops) - n], hops[Len(hops) - n + 1])
  <2> DEFINE Sw(prev, n) == Swapped(prev, hops[Len(hops) - n], hops[Len(hops) - n + 1])
             start == [amount |-> amount, reserves |-> Reserves]
  <2>1. g = [n \in 0..m |-> IF n = 0 THEN start ELSE Sw(g[n - 1], n)]
    BY <1>2, Zenon DEF IsDone
  <2> HIDE DEF Sw, start
  <2>2. g[0] = start /\ \A n \in 1..m : g[n] = Sw(g[n - 1], n)
    BY <1>0, <2>1
  <2> QED
    BY <2>2 DEF Sw, start
<1> QED
  BY <1>1, <1>3 DEF m, DoneRun

\* The reserves of a pool are no worse for a swap from b to a than they were.
Favours(reserves, a, b) ==
    LET in == PlaceIn(ByNumber, b, a) IN
    /\ reserves[{a, b}][in] <= Reserves[{a, b}][in]
    /\ Reserves[{a, b}][3 - in] <= reserves[{a, b}][3 - in]

AllReserves == [Pairs -> [1..2 -> Nat]]

\* A swap out of token a paid next or more, and made the other pools, and its own in
\* the other direction, no worse.
Pays(after, a, r, next) ==
    \E d2 \in Nat, r2 \in AllReserves :
        /\ after = [amount |-> d2, reserves |-> r2]
        /\ d2 >= next
        /\ \A x, y : {x, y} \in Pairs /\ Favours(r, x, y) /\ x # a => Favours(r2, x, y)

\* One swap: it delivers what the next hop was computed with, and makes no pool
\* worse for a swap that is not in the same direction.
LEMMA OneSwap ==
    ASSUME NEW a, NEW b, {a, b} \in Pairs,
           NEW done, NEW d, NEW r \in AllReserves, d \in Nat,
           done = [amount |-> d, reserves |-> r],
           Favours(r, a, b),
           NEW next \in Nat,
           swap_simulation(Reserves[{a, b}], next, 3 - PlaceIn(ByNumber, b, a)) # -1,
           swap_simulation(Reserves[{a, b}], next, 3 - PlaceIn(ByNumber, b, a)) <= d
    PROVE  Pays(Swapped(done, a, b), a, r, next)
<1> DEFINE pair == {a, b}
           in == PlaceIn(ByNumber, b, a)
           had == r[pair]
           got == getAmountOut(d, had[in], had[3 - in])
           has == [i \in 1..2 |-> IF i = in THEN had[i] + d ELSE had[i] - got]
           r2 == [r EXCEPT ![pair] = has]
<1>1. a \in Tokens /\ b \in Tokens /\ a # b /\ Reserves[pair] \in [1..2 -> Nat]
  BY PairIs
<1>2. in \in 1..2 /\ 3 - in \in 1..2 /\ 3 - in # in
  <2>1. in \in 1..2
    BY <1>1, PlaceFlips
  <2> HIDE DEF in
  <2> QED
    BY <2>1
<1>3. had \in [1..2 -> Nat] /\ Reserves[pair] \in [1..2 -> Nat]
  BY <1>1 DEF AllReserves
<1>4. had[in] <= Reserves[pair][in] /\ Reserves[pair][3 - in] <= had[3 - in]
  BY DEF Favours
<1>5. Swapped(done, a, b) = [amount |-> got, reserves |-> r2]
  BY DEF Swapped
<1>6. got \in Nat /\ got <= had[3 - in] /\ got >= next
  <2> HIDE DEF pair, in, had
  <2>1. /\ swap_simulation(Reserves[pair], next, 3 - in) # -1
        /\ swap_simulation(Reserves[pair], next, 3 - in) <= d
    BY DEF pair, in
  <2> QED
    BY <1>2, <1>3, <1>4, <2>1, HopCovers
<1> HIDE DEF got
<1>7. has \in [1..2 -> Nat]
  <2> HIDE DEF had, in
  <2>1. ASSUME NEW i \in 1..2 PROVE (IF i = in THEN had[i] + d ELSE had[i] - got) \in Nat
    <3>1. had[i] \in Nat
      BY <1>3
    <3>2. CASE i = in
      BY <3>1, <3>2
    <3>3. CASE i # in
      <4>1. i = 3 - in
        BY <1>2, <3>3
      <4> QED
        BY <1>6, <3>1, <3>3, <4>1
    <3> QED
      BY <3>2, <3>3
  <2> QED
    BY <2>1
<1>8. has[in] = had[in] + d /\ has[3 - in] = had[3 - in] - got
  <2> HIDE DEF had, in
  <2> QED
    BY <1>2
<1> HIDE DEF has
<1>9. r2 \in AllReserves
  <2> HIDE DEF pair, has
  <2>1. pair \in Pairs
    BY DEF pair
  <2> QED
    BY <1>7, <2>1 DEF AllReserves
<1>10. ASSUME NEW x, NEW y, {x, y} \in Pairs, Favours(r, x, y), x # a
       PROVE  Favours(r2, x, y)
  <2>1. CASE {x, y} # pair
    <3>1. r2[{x, y}] = r[{x, y}]
      <4> HIDE DEF pair, has
      <4> QED
        BY <1>10, <2>1 DEF AllReserves
    <3> HIDE DEF r2
    <3> QED
      BY <1>10, <3>1 DEF Favours
  <2>2. CASE {x, y} = pair
    <3>1. x = b /\ y = a
      BY <1>10, <2>2
    <3>2. PlaceIn(ByNumber, y, x) = 3 - in
      BY <1>1, <3>1, PlaceFlips
    <3>3. r2[pair] = has
      <4> HIDE DEF has
      <4>1. pair \in Pairs
        OBVIOUS
      <4> HIDE DEF pair
      <4> QED
        BY <4>1 DEF AllReserves
    <3> HIDE DEF r2, in, had, pair
    <3>4. 3 - (3 - in) = in
      BY <1>2
    <3>5. has[3 - in] <= had[3 - in] /\ had[in] <= has[in]
      BY <1>2, <1>3, <1>6, <1>8
    <3>6. had[3 - in] <= Reserves[pair][3 - in] /\ Reserves[pair][in] <= had[in]
      BY <1>10, <2>2, <3>2, <3>4 DEF Favours, had
    <3>7. has[3 - in] <= Reserves[pair][3 - in] /\ Reserves[pair][in] <= has[in]
      <4>1. /\ has[3 - in] \in Nat /\ had[3 - in] \in Nat /\ Reserves[pair][3 - in] \in Nat
            /\ has[in] \in Nat /\ had[in] \in Nat /\ Reserves[pair][in] \in Nat
        BY <1>2, <1>3, <1>7
      <4> QED
        BY <3>5, <3>6, <4>1
    <3> QED
      BY <2>2, <3>2, <3>3, <3>4, <3>7 DEF Favours
  <2> QED
    BY <2>1, <2>2
<1> HIDE DEF r2
<1> QED
  BY <1>5, <1>6, <1>9, <1>10 DEF Pays

\* After n swaps: no less than the hop that comes next was to be given, and all the
\* pools ahead no worse than when the route was computed.
Going(g, f, p, n) ==
    \E d \in Nat, r \in AllReserves :
        /\ g[n] = [amount |-> d, reserves |-> r]
        /\ d >= f[Len(p) - 1 - n]
        /\ \A i \in 1..Len(p) - 1 - n : Favours(r, p[i], p[i + 1])

\* A path on which no token but the last comes twice, swapped with what it costs,
\* delivers the amount: also if its last swap is in the pool of its first.
LEMMA PathCovers ==
    ASSUME NEW pl \in SUBSET Pairs, NEW p, NEW amount \in Nat,
           Len(p) \in Nat, Len(p) >= 2,
           \A i \in 1..Len(p) : p[i] \in Tokens,
           \A i, j \in 1..Len(p) - 1 : i # j => p[i] # p[j],
           \A i \in 1..Len(p) - 1 : InPoolOrder(p, i),
           Cost(pl, p, amount) # -1
    PROVE  Executed(p, Cost(pl, p, amount)).amount >= amount
<1> DEFINE m == Len(p) - 1
           f == Costs(pl, p, amount)
<1>0. m \in Nat /\ Len(p) \in Nat \ {0} /\ m + 1 = Len(p)
  OBVIOUS
<1>1. Cost(pl, p, amount) = f[m]
  BY DEF Cost
<1>2. /\ f[0] = amount
      /\ \A n \in 1..m : f[n] = Hop(pl, p[n + 1], p[n], f[n - 1])
      /\ \A n \in 0..m : f[n] \in Nat
  <2>1. CostRun(f, pl, p, amount)
    BY <1>0, CostSteps, Zenon
  <2> HIDE DEF f
  <2>2. /\ f[0] = amount
        /\ \A n \in 1..m : f[n] = Hop(pl, p[n + 1], p[n], f[n - 1])
        /\ \A n \in 0..m : f[n] \in Nat \cup {-1}
        /\ f[m] # -1 => \A n \in 0..m : f[n] # -1
    BY <2>1, Zenon DEF CostRun
  <2> HIDE DEF m
  <2> QED
    BY <1>1, <2>2
<1> HIDE DEF f
<1>3. ASSUME NEW n \in 1..m
      PROVE  /\ {p[n], p[n + 1]} \in Pairs
             /\ f[n] = swap_simulation(Reserves[{p[n], p[n + 1]}], f[n - 1],
                                       3 - PlaceIn(ByNumber, p[n + 1], p[n]))
             /\ f[n] \in Nat /\ f[n - 1] \in Nat
  <2> DEFINE a == p[n]
             b == p[n + 1]
             c == f[n - 1]
  <2>1. n \in 0..m /\ n - 1 \in 0..m
    BY <1>0
  <2>2. f[n] \in Nat /\ c \in Nat
    BY <1>2, <2>1
  <2>3. f[n] = Hop(pl, b, a, c)
    BY <1>2
  <2>4. InPoolOrder(p, n)
    BY <1>0
  <2> HIDE DEF a, b, c
  <2>5. /\ {b, a} \in Pairs
        /\ f[n] = swap_simulation(Reserves[{b, a}], c, 3 - gen_pool_key(b, a))
    <3>1. c \in Nat \cup {-1} /\ f[n] # -1
      BY <2>2
    <3>2. Hop(pl, b, a, c) # -1
      BY <2>3, <3>1
    <3> QED
      BY <2>3, <3>1, <3>2, HopType, ZenonT(60)
  <2>6. {b, a} = {a, b}
    OBVIOUS
  <2>7. a \in Tokens /\ b \in Tokens /\ a # b
    BY <2>5, <2>6, PairIs
  <2>8. gen_pool_key(a, b) = PlaceIn(ByNumber, a, b)
    BY <2>4 DEF InPoolOrder, a, b
  <2>9. gen_pool_key(b, a) = PlaceIn(ByNumber, b, a)
    <3>1. PlaceIn(ByText, b, a) = 3 - PlaceIn(ByText, a, b)
      BY <2>7, PlaceFlips
    <3>2. PlaceIn(ByNumber, b, a) = 3 - PlaceIn(ByNumber, a, b)
      BY <2>7, PlaceFlips
    <3> QED
      BY <2>8, <3>1, <3>2 DEF gen_pool_key
  <2> QED
    BY <2>2, <2>5, <2>6, <2>9 DEF a, b, c
<1>4. PICK g : /\ Executed(p, f[m]) = g[m]
               /\ g[0] = [amount |-> f[m], reserves |-> Reserves]
               /\ \A n \in 1..m : g[n] = Swapped(g[n - 1], p[Len(p) - n], p[Len(p) - n + 1])
  <2> DEFINE A == f[m]
  <2> HIDE DEF A
  <2>1. PICK g : DoneRun(g, p, A)
    BY <1>0, DoneSteps, Zenon
  <2> QED
    BY <2>1, Zenon DEF A, DoneRun
<1>5. Going(g, f, p, 0)
  <2>1. f[m] \in Nat /\ Reserves \in AllReserves /\ Len(p) - 1 - 0 = m /\ f[m] >= f[m]
    BY <1>0, <1>2, RouterAssumption DEF AllReserves
  <2>2. ASSUME NEW i \in 1..m PROVE Favours(Reserves, p[i], p[i + 1])
    <3> DEFINE in == PlaceIn(ByNumber, p[i + 1], p[i])
    <3>1. /\ p[i] \in Tokens /\ p[i + 1] \in Tokens /\ p[i] # p[i + 1]
          /\ Reserves[{p[i], p[i + 1]}] \in [1..2 -> Nat]
      BY <1>3, PairIs
    <3>2. in \in 1..2
      BY <3>1, PlaceFlips
    <3> HIDE DEF in
    <3>3. 3 - in \in 1..2
      BY <3>2
    <3>4. /\ Reserves[{p[i], p[i + 1]}][in] \in Nat
          /\ Reserves[{p[i], p[i + 1]}][3 - in] \in Nat
      BY <3>1, <3>2, <3>3
    <3>5. /\ Reserves[{p[i], p[i + 1]}][in] <= Reserves[{p[i], p[i + 1]}][in]
          /\ Reserves[{p[i], p[i + 1]}][3 - in] <= Reserves[{p[i], p[i + 1]}][3 - in]
      BY <3>4
    <3> QED
      BY <3>5, Zenon DEF Favours, in
  <2> QED
    BY <1>4, <2>1, <2>2, Zenon DEF Going
<1>6. ASSUME NEW n \in 0..m - 1, Going(g, f, p, n)
      PROVE  Going(g, f, p, n + 1)
  <2> DEFINE k == m - n
  <2>1. /\ k \in 1..m /\ k - 1 \in 0..m /\ n + 1 \in 1..m /\ (n + 1) - 1 = n
        /\ Len(p) - 1 - n = k /\ Len(p) - 1 - (n + 1) = k - 1
        /\ Len(p) - (n + 1) = k /\ Len(p) - (n + 1) + 1 = k + 1
    BY <1>0
  <2> HIDE DEF k, m
  <2>2. PICK d \in Nat, r \in AllReserves :
           /\ g[n] = [amount |-> d, reserves |-> r]
           /\ d >= f[k]
           /\ \A i \in 1..k : Favours(r, p[i], p[i + 1])
    BY <1>6, <2>1 DEF Going
  <2> DEFINE a == p[k]
             b == p[k + 1]
             next == f[k - 1]
  <2>3. g[n + 1] = Swapped(g[n], a, b)
    BY <1>4, <2>1
  <2>4. /\ {a, b} \in Pairs /\ f[k] \in Nat /\ next \in Nat
        /\ f[k] = swap_simulation(Reserves[{a, b}], next, 3 - PlaceIn(ByNumber, b, a))
    BY <1>3, <2>1
  <2>5. Favours(r, a, b)
    BY <1>0, <2>1, <2>2
  <2> DEFINE need == swap_simulation(Reserves[{a, b}], next, 3 - PlaceIn(ByNumber, b, a))
  <2>6. need # -1 /\ need <= d
    <3>1. need \in Nat /\ need = f[k]
      BY <2>4
    <3> HIDE DEF need
    <3> QED
      BY <2>2, <3>1
  <2>7. \A i \in 1..k - 1 : i \in 1..k /\ i \in 1..m /\ i # k /\ k \in 1..m
    BY <1>0, <2>1
  <2>8. \A i \in 1..k - 1 : p[i] # a /\ {p[i], p[i + 1]} \in Pairs
                              /\ Favours(r, p[i], p[i + 1])
    BY <1>3, <2>2, <2>7 DEF m
  <2> HIDE DEF a, b, next
  <2>9. Pays(Swapped(g[n], a, b), a, r, next)
    BY <2>2, <2>4, <2>5, <2>6, OneSwap, Zenon
  <2>10. PICK d2 \in Nat, r2 \in AllReserves :
           /\ g[n + 1] = [amount |-> d2, reserves |-> r2]
           /\ d2 >= next
           /\ \A x, y : {x, y} \in Pairs /\ Favours(r, x, y) /\ x # a => Favours(r2, x, y)
    BY <2>3, <2>9 DEF Pays
  <2>11. \A i \in 1..k - 1 : Favours(r2, p[i], p[i + 1])
    BY <2>8, <2>10, Zenon
  <2>12. d2 >= f[Len(p) - 1 - (n + 1)]
    BY <2>1, <2>10 DEF next
  <2>13. \A i \in 1..Len(p) - 1 - (n + 1) : Favours(r2, p[i], p[i + 1])
    BY <2>1, <2>11
  <2> QED
    BY <2>10, <2>12, <2>13, Zenon DEF Going
<1>7. Going(g, f, p, m)
  <2> DEFINE Bad == {n \in 0..m : ~Going(g, f, p, n)}
  <2> HIDE DEF m
  <2> SUFFICES ASSUME Bad # {} PROVE FALSE
    BY <1>0
  <2>1. Bad \in SUBSET Nat
    BY <1>0
  <2>2. PICK x \in Bad : \A y \in Bad : x <= y
    <3> HIDE DEF Bad
    <3> QED
      BY <2>1, NatMin
  <2>3. x \in 0..m /\ ~Going(g, f, p, x)
    BY <2>2
  <2>4. x # 0
    BY <1>5, <2>3
  <2>5. x - 1 \in 0..m - 1 /\ x - 1 \in 0..m /\ ~(x <= x - 1) /\ (x - 1) + 1 = x
    BY <1>0, <2>3, <2>4
  <2>6. Going(g, f, p, x - 1)
    BY <2>2, <2>5, Zenon
  <2>7. Going(g, f, p, (x - 1) + 1)
    BY <1>6, <2>5, <2>6
  <2> QED
    BY <2>3, <2>5, <2>7
<1>8. PICK d \in Nat : g[m].amount = d /\ d >= f[0]
  <2>1. Len(p) - 1 - m = 0
    BY <1>0
  <2>2. PICK d \in Nat, r \in AllReserves :
           g[m] = [amount |-> d, reserves |-> r] /\ d >= f[Len(p) - 1 - m]
    BY <1>7 DEF Going
  <2> QED
    BY <2>1, <2>2
<1> QED
  BY <1>1, <1>2, <1>4, <1>8

\* The cost of a path is a number or -1.
LEMMA CostType ==
    ASSUME NEW pl \in SUBSET Pairs, NEW amount \in Nat,
           NEW p, Len(p) \in Nat, Len(p) >= 2
    PROVE  Cost(pl, p, amount) \in Nat \cup {-1}
<1> DEFINE f == Costs(pl, p, amount)
<1>1. Len(p) \in Nat \ {0} /\ Len(p) - 1 \in 0..Len(p) - 1
  OBVIOUS
<1>2. CostRun(f, pl, p, amount)
  BY <1>1, CostSteps, Zenon
<1>3. Cost(pl, p, amount) = f[Len(p) - 1]
  BY Zenon DEF Cost
<1> HIDE DEF f
<1>4. f[Len(p) - 1] \in Nat \cup {-1}
  BY <1>1, <1>2, Zenon DEF CostRun
<1> QED
  BY <1>3, <1>4

\* The paths of find_routs among which it takes one.
Cheap(pl, candidates, amount) ==
    {p \in candidates :
        /\ Cost(pl, p, amount) # -1
        /\ \A q \in candidates :
              Cost(pl, q, amount) # -1 => Cost(pl, p, amount) <= Cost(pl, q, amount)}

LEMMA CheapIs ==
    ASSUME NEW candidates, NEW amount
    PROVE  cheapest(candidates, amount) = Cheap(pools, candidates, amount)
<1>1. \A p : amount_in(p, amount) = Cost(pools, p, amount)
  BY CostIs
<1> QED
  BY <1>1, Zenon DEF cheapest, Cheap

\* find_routs finds a path when there is one.
LEMMA CheapExists ==
    ASSUME NEW pl \in SUBSET Pairs, NEW amount \in Nat, NEW in \in Tokens, NEW out \in Tokens,
           NEW hubs \in SUBSET (Tokens \ {in, out}),
           NEW q \in paths(hubs, in, out), Cost(pl, q, amount) # -1
    PROVE  Cheap(pl, paths(hubs, in, out), amount) # {}
<1> DEFINE all == paths(hubs, in, out)
           costs == {c \in Nat : \E p \in all : c = Cost(pl, p, amount)}
<1>1. ASSUME NEW p \in all PROVE Cost(pl, p, amount) \in Nat \cup {-1}
  <2>1. Len(p) \in Nat /\ Len(p) >= 2
    BY PathIs
  <2> QED
    BY <2>1, CostType
<1> HIDE DEF all
<1>2. q \in all
  BY DEF all
<1>3. Cost(pl, q, amount) \in costs
  BY <1>1, <1>2
<1>4. PICK c \in costs : \A d \in costs : c <= d
  <2>1. costs \in SUBSET Nat /\ costs # {}
    BY <1>3
  <2> HIDE DEF costs
  <2> QED
    BY <2>1, NatMin
<1>5. PICK p \in all : c = Cost(pl, p, amount)
  BY <1>4
<1>6. ASSUME NEW r \in all, Cost(pl, r, amount) # -1
      PROVE  Cost(pl, p, amount) <= Cost(pl, r, amount)
  <2>1. Cost(pl, r, amount) \in Nat
    BY <1>1, <1>6
  <2>2. Cost(pl, r, amount) \in costs
    BY <2>1
  <2> QED
    BY <1>4, <1>5, <2>2, Zenon
<1>7. Cost(pl, p, amount) # -1
  BY <1>4, <1>5
<1>8. p \in Cheap(pl, all, amount)
  BY <1>5, <1>6, <1>7, Zenon DEF Cheap
<1> QED
  BY <1>8 DEF all

-----------------------------------------------------------------------------
(* The invariant *)

\* What was returned is a path over tokens that are not its ends, and its cost.
Found(pl, hubs, in, out, amount, fin, p) ==
    fin # -1 =>
        /\ hubs \subseteq Tokens \ {in, out}
        /\ p \in paths(hubs, in, out)
        /\ fin = Cost(pl, p, amount)

NoneBetter(pl, hubs, in, out, amount, fin) ==
    \A p \in paths(hubs, in, out) :
        Cost(pl, p, amount) # -1 => fin # -1 /\ fin <= Cost(pl, p, amount)

RoutInv ==
    /\ pools \in SUBSET Pairs
    /\ rout_tokens \in SUBSET Tokens
    /\ ROUTS_TOKENS \ ends \subseteq rout_tokens
    /\ token_in \in Tokens /\ token_out \in Tokens
    /\ final_out \in Nat
    /\ routs \in Nat
    /\ Found(pools, rout_tokens, token_in, token_out, final_out, final_in, path)
    /\ routs > 0 =>
          NoneBetter(pools, ROUTS_TOKENS \ ends, token_in, token_out, final_out, final_in)

LEMMA InitRouts == Init => RoutInv
<1> SUFFICES ASSUME Init PROVE RoutInv
  OBVIOUS
<1>1. Found(pools, rout_tokens, token_in, token_out, final_out, final_in, path)
  BY DEF Init, Found
<1> QED
  BY <1>1, RouterAssumption DEF Init, RoutInv

\* One pair: its ends leave the list, and the cheapest path over what is left is no
\* dearer than any over fewer tokens.
LEMMA StepRouts == RoutInv /\ [Next]_vars => RoutInv'
<1> SUFFICES ASSUME RoutInv, [Next]_vars PROVE RoutInv'
  OBVIOUS
<1>1. CASE find_routs
  <2>1. PICK in \in Tokens, out \in Tokens, amount \in Amounts :
          /\ token_in' = in
          /\ token_out' = out
          /\ final_out' = amount
          /\ rout_tokens' = rout_tokens \ {in, out}
          /\ LET best == cheapest(paths(rout_tokens', in, out), amount) IN
             \/ /\ best = {}
                /\ final_in' = -1
                /\ path' = <<>>
             \/ \E p \in best : path' = p /\ final_in' = amount_in(p, amount)
          /\ ends' = ends \cup {in, out}
    BY <1>1 DEF find_routs, gen_new_routs
  <2> DEFINE hubs == rout_tokens'
             best == Cheap(pools, paths(hubs, in, out), amount)
  <2>2. /\ pools' = pools /\ pools \in SUBSET Pairs /\ routs' \in Nat
        /\ amount \in Nat
        /\ hubs \in SUBSET (Tokens \ {in, out}) /\ hubs \in SUBSET Tokens
        /\ ROUTS_TOKENS \ ends' \subseteq hubs
    BY <1>1, <2>1, RouterAssumption DEF RoutInv, find_routs
  <2>3. cheapest(paths(hubs, in, out), amount) = best
    BY CheapIs, Zenon
  <2>4. \/ best = {} /\ final_in' = -1 /\ path' = <<>>
        \/ \E p \in best : path' = p /\ final_in' = amount_in(p, amount)
    BY <2>1, <2>3, Zenon
  <2>5. \/ best = {} /\ final_in' = -1
        \/ path' \in best /\ final_in' = Cost(pools, path', amount)
    <3>1. \A p : amount_in(p, amount) = Cost(pools, p, amount)
      BY CostIs
    <3> QED
      BY <2>4, <3>1, Zenon
  <2> HIDE DEF hubs
  <2>6. Found(pools, hubs, in, out, amount, final_in', path')
    BY <2>2, <2>5, Zenon DEF Found, Cheap
  <2>7. NoneBetter(pools, hubs, in, out, amount, final_in')
    <3> SUFFICES ASSUME NEW p \in paths(hubs, in, out), Cost(pools, p, amount) # -1
                 PROVE  final_in' # -1 /\ final_in' <= Cost(pools, p, amount)
      BY Zenon DEF NoneBetter
    <3>1. best # {}
      BY <2>2, CheapExists, Zenon
    <3>2. path' \in best /\ final_in' = Cost(pools, path', amount)
      BY <2>5, <3>1
    <3> QED
      BY <3>2, Zenon DEF Cheap
  <2>8. NoneBetter(pools, ROUTS_TOKENS \ ends', in, out, amount, final_in')
    <3>1. paths(ROUTS_TOKENS \ ends', in, out) \subseteq paths(hubs, in, out)
      BY <2>2, PathsGrow, Zenon
    <3> QED
      BY <2>7, <3>1, Zenon DEF NoneBetter
  <2> QED
    BY <2>1, <2>2, <2>6, <2>8 DEF RoutInv, hubs
<1>2. CASE UNCHANGED vars
  BY <1>2 DEF RoutInv, vars
<1> QED
  BY <1>1, <1>2 DEF Next

\* The invariant says what BestOfUnused does.
LEMMA InvBest == RoutInv => BestOfUnused
<1> SUFFICES ASSUME RoutInv, routs > 0,
                    NEW p \in paths(ROUTS_TOKENS \ ends, token_in, token_out),
                    amount_in(p, final_out) # -1
             PROVE  final_in # -1 /\ final_in <= amount_in(p, final_out)
  BY DEF BestOfUnused
<1>1. amount_in(p, final_out) = Cost(pools, p, final_out)
  BY CostIs
<1>2. NoneBetter(pools, ROUTS_TOKENS \ ends, token_in, token_out, final_out, final_in)
  BY DEF RoutInv
<1> QED
  BY <1>1, <1>2, Zenon DEF NoneBetter

\* A path that was found covers its amount.
LEMMA InvCovers == RoutInv => RouteCovers
<1> SUFFICES ASSUME RoutInv, final_in # -1,
                    \A i \in 1 .. Len(path) - 1 : InPoolOrder(path, i)
             PROVE  Executed(path, final_in).amount >= final_out
  BY DEF RouteCovers
<1>1. /\ token_in \in Tokens /\ token_out \in Tokens /\ final_out \in Nat
      /\ pools \in SUBSET Pairs
      /\ rout_tokens \in SUBSET (Tokens \ {token_in, token_out})
      /\ path \in paths(rout_tokens, token_in, token_out)
      /\ final_in = Cost(pools, path, final_out)
  BY DEF RoutInv, Found
<1>2. /\ Len(path) \in Nat /\ Len(path) >= 2
      /\ \A i \in 1..Len(path) : path[i] \in Tokens
      /\ \A i, j \in 1..Len(path) - 1 : i # j => path[i] # path[j]
  BY <1>1, PathIs
<1>3. Cost(pools, path, final_out) # -1
  BY <1>1
<1>4. Executed(path, Cost(pools, path, final_out)).amount >= final_out
  BY <1>1, <1>2, <1>3, PathCovers
<1> QED
  BY <1>1, <1>4

\* find_routs misses no route over tokens that never were the end of a pair: none of
\* these is cheaper than what it returned, or exists where it returned none.
THEOREM BestCorrect == Spec => []BestOfUnused
<1>1. RoutInv => BestOfUnused
  BY InvBest
<1> QED
  BY InitRouts, StepRouts, <1>1, PTL DEF Spec

\* The amount that profit_simulation counts as the price of the repayment, swapped
\* along the route it found, delivers the repayment: for every number of hops, all
\* reserves and fees, and also where the route comes back to the pool it started in.
THEOREM RouteCorrect == Spec => []RouteCovers
<1>1. RoutInv => RouteCovers
  BY InvCovers
<1> QED
  BY InitRouts, StepRouts, <1>1, PTL DEF Spec
=============================================================================
