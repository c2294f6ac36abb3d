------------------------------- MODULE Router -------------------------------
(***************************************************************************)
(* The swap that pays a liquidation back: Routs and SwapV2                 *)
(* (configs/router.py), as profit_simulation (compound.py) uses them for   *)
(* one pair after the other.  A pool holds the two reserves, queried once  *)
(* at the start, in the order of the chain, which compares the two token   *)
(* addresses as numbers.  The program compares them as strings, and these  *)
(* mix capitals and small letters for a checksum: the two orders are       *)
(* parameters, and may differ.  Indexes count from 1.  The tokens a route  *)
(* may pass through are one list for the whole program: every Routs object *)
(* takes its own ends out of it.                                           *)
(***************************************************************************)
EXTENDS Integers, Sequences, FiniteSets, SequencesExt, FiniteSetsExt

CONSTANTS
    Tokens,
    ROUTS_TOKENS,   \* those of the network
    ByNumber,       \* the tokens in the order of their addresses
    ByText,         \* the tokens in the order of the strings that spell these
    Reserves,       \* per pair of tokens, what getReserves of its pool returns
    Amounts,        \* what a pair's repayment may be
    fee,
    MaxRouts        \* bound: the pairs that are looked at

Pairs == kSubset(2, Tokens)

ASSUME RouterAssumption ==
    /\ ROUTS_TOKENS \subseteq Tokens
    /\ fee \in 0..9999
    /\ MaxRouts \in Nat
    /\ Amounts \subseteq Nat
    /\ Reserves \in [Pairs -> [1..2 -> Nat]]

ASSUME OrderAssumption ==
    \A order \in {ByNumber, ByText} :
        order \in Seq(Tokens) /\ IsInjective(order) /\ ToSet(order) = Tokens

VARIABLES
    pools,          \* the pools that exist
    rout_tokens,    \* ROUTS_TOKENS[NETWORK], after what was removed from it
    token_in, token_out, final_out,     \* the last pair looked at
    final_in, path,                     \* what find_routs returned for it
    ends,           \* history: tokens that were an end of a pair
    routs           \* history: how many pairs were looked at

vars == <<pools, rout_tokens, token_in, token_out, final_out, final_in, path, ends, routs>>

-----------------------------------------------------------------------------
\* The place of token a in its pair with b.
PlaceIn(order, a, b) ==
    IF \E i, j \in 1 .. Len(order) : i < j /\ order[i] = a /\ order[j] = b THEN 1 ELSE 2

gen_pool_key(token_a, token_b) == PlaceIn(ByText, token_a, token_b)

swap_rounded_down(liquidity, amount_out, token_out_index) ==
    LET x == liquidity[token_out_index]
        y == liquidity[3 - token_out_index]
    IN  IF x < amount_out * 20 \/ x = amount_out THEN -1
        ELSE (y * amount_out * 10000) \div ((x - amount_out) * (10000 - fee))

\* SwapV2.swap_simulation.  An empty pool asked for nothing divides by zero, which
\* single_rout_simulation turns into -1 as well.
swap_simulation(liquidity, amount_out, token_out_index) ==
    LET x == liquidity[token_out_index]
        y == liquidity[3 - token_out_index]
    IN  IF x < amount_out * 20 \/ x = amount_out THEN -1
        ELSE (y * amount_out * 10000) \div ((x - amount_out) * (10000 - fee)) + 1

single_rout_simulation(in, out, amount_out) ==
    IF {in, out} \in pools
    THEN swap_simulation(Reserves[{in, out}], amount_out, 3 - gen_pool_key(in, out))
    ELSE -1

\* What the first token of a path costs if the last hop is to deliver amount: the
\* path is followed backwards, from token_out to token_in.
amount_in(hops, amount) ==
    LET needed[n \in 0 .. Len(hops) - 1] ==
            IF n = 0 THEN amount
            ELSE IF needed[n - 1] = -1 THEN -1
            ELSE single_rout_simulation(hops[n + 1], hops[n], needed[n - 1])
    IN  needed[Len(hops) - 1]

\* Every order of some of the tokens, between the ends.
paths(hubs, in, out) ==
    {<<out>> \o res \o <<in>> : res \in SetToAllKPermutations(hubs)}

dearest(candidates, amount) ==
    {p \in candidates :
        /\ amount_in(p, amount) # -1
        /\ \A q \in candidates : amount_in(q, amount) <= amount_in(p, amount)}

\* The cheapest of the paths that can deliver the amount (of equal ones, the first:
\* here any).
cheapest(candidates, amount) ==
    {p \in candidates :
        /\ amount_in(p, amount) # -1
        /\ \A q \in candidates :
              amount_in(q, amount) # -1 => amount_in(p, amount) <= amount_in(q, amount)}

Init ==
    /\ pools \in SUBSET Pairs
    /\ rout_tokens = ROUTS_TOKENS
    /\ token_in \in Tokens /\ token_out = token_in
    /\ final_out = 0
    /\ final_in = -1
    /\ path = <<>>
    /\ ends = {}
    /\ routs = 0

\* Routs.__init__
gen_new_routs(in, out) == rout_tokens' = rout_tokens \ {in, out}

\* One pair of profit_simulation.
find_routs ==
    /\ routs < MaxRouts
    /\ \E in, out \in Tokens, amount \in Amounts :
          /\ token_in' = in
          /\ token_out' = out
          /\ final_out' = amount
          /\ gen_new_routs(in, out)
          /\ LET best == cheapest(paths(rout_tokens', in, out), amount) IN
             \/ /\ best = {}
                /\ final_in' = -1
                /\ path' = <<>>
             \/ \E p \in best : path' = p /\ final_in' = amount_in(p, amount)
          /\ ends' = ends \cup {in, out}
    /\ routs' = routs + 1
    /\ UNCHANGED pools

Next == find_routs

Spec == Init /\ [][Next]_vars

-----------------------------------------------------------------------------
(* Properties *)

\* What a PancakeSwap pair pays out: external.
getAmountOut(amount, reserve_in, reserve_out) ==
    (amount * (10000 - fee) * reserve_out)
        \div (reserve_in * 10000 + amount * (10000 - fee))

\* A swap from b to a moves the reserves of their pool: external.
Swapped(done, a, b) ==
    LET had == done.reserves[{a, b}]
        in == PlaceIn(ByNumber, b, a)
        got == getAmountOut(done.amount, had[in], had[3 - in])
        has == [i \in 1..2 |-> IF i = in THEN had[i] + done.amount ELSE had[i] - got]
    IN  [amount |-> got, reserves |-> [done.reserves EXCEPT ![{a, b}] = has]]

\* The route is swapped from its first token to its last: external.
Executed(hops, amount) ==
    LET done[n \in 0 .. Len(hops) - 1] ==
            IF n = 0 THEN [amount |-> amount, reserves |-> Reserves]
            ELSE Swapped(done[n - 1], hops[Len(hops) - n], hops[Len(hops) - n + 1])
    IN  done[Len(hops) - 1]

\* The hop of a path whose step names the tokens of its pool in the pool's order.
InPoolOrder(hops, i) ==
    gen_pool_key(hops[i], hops[i + 1]) = PlaceIn(ByNumber, hops[i], hops[i + 1])

\* The amount that profit_simulation subtracts is enough: swapped along the route
\* it delivers the repayment, although each hop was truncated, and although a route
\* between a token and itself uses one pool twice.  It holds for routes whose pools
\* have the same order in text as in numbers.
RouteCovers ==
    /\ final_in # -1
    /\ \A i \in 1 .. Len(path) - 1 : InPoolOrder(path, i)
    => Executed(path, final_in).amount >= final_out

\* No route over tokens that never were an end of a pair is cheaper, or found where
\* none was returned.
BestOfUnused ==
    routs > 0 =>
    \A p \in paths(ROUTS_TOKENS \ ends, token_in, token_out) :
        LET cost == amount_in(p, final_out) IN
        cost # -1 => final_in # -1 /\ final_in <= cost
=============================================================================
