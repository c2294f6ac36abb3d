------------------------------- MODULE Rounds -------------------------------
(***************************************************************************)
(* Which users and which aggregator the idle task takes at which block:    *)
(* the switches of task 3 of liquidation_idle_callback (compound.py),      *)
(* get_users_sampling (configs/users.py) and get_tokens_from_aggr_index    *)
(* (configs/signals.py).  Users and aggregators are the positions in their *)
(* dicts' key lists.  Each is chosen by the block number modulo a length,  *)
(* at blocks that are already in one residue class; what that arithmetic   *)
(* ever reaches is compared with a definition that does not compute it.    *)
(***************************************************************************)
EXTENDS Integers, FiniteSets, FiniteSetsExt

CONSTANTS
    Num,            \* num: 60 // INTVL, the blocks of a minute
    Intervals,      \* the slices the users are cut into
    FirstMinute,    \* block_infos.block_num at the start, in minutes
    MaxMinutes,     \* bound: the minutes of a behaviour
    MaxSize         \* bound: users, and aggregators, that are checked

ASSUME RoundsAssumption ==
    /\ Num \in Nat /\ Num > 4
    /\ Intervals \in Nat \ {0} /\ Intervals <= Num
    /\ FirstMinute \in Nat \ {0}
    /\ MaxMinutes \in Nat \ {0}
    /\ MaxSize \in Nat

\* math.ceil(l / intervals)
length(len) == (len + Intervals - 1) \div Intervals

not_wrapped(len, index) == length(len) * index

left(len, index) ==
    LET at == length(len) * index IN IF at > len THEN at % len ELSE at

right(len, index) ==
    LET at == left(len, index) + length(len) IN IF at > len THEN len ELSE at

\* array[left:right], as positions.
get_users_sampling(len, index) == left(len, index) .. right(len, index) - 1

index_from_one(len, index) == (index + 1) % len

\* index_mod
get_tokens_from_aggr_index(len, index) == index % len

\* block_num % num: 1 samples users, 3 rebuilds the list of an aggregator.
switch(block) == block % Num

BlockOf(minute, number) == Num * minute + number

\* What a sequence of minutes, none of them missed, computes and rebuilds.
Sampled(len, minutes) ==
    UNION {get_users_sampling(len, BlockOf(m, 1)) : m \in minutes}

Refreshed(len, minutes) ==
    {get_tokens_from_aggr_index(len, BlockOf(m, 3)) : m \in minutes}

-----------------------------------------------------------------------------
(* What the arithmetic reaches *)

Gcd(a, b) == Max({d \in 1..b : a % d = 0 /\ b % d = 0})

\* The slices start in one residue class, that of the first, modulo what the
\* step from one to the next has in common with the number of users.
Reachable(len) ==
    LET g == Gcd(Num * length(len), len)
        starts == {s \in 0..len - 1 : (s - length(len)) % g = 0}
    IN  {p \in 0..len - 1 : \E s \in starts : s <= p /\ p < s + length(len)}

Minutes == FirstMinute .. FirstMinute + MaxMinutes - 1

\* Whether the users that switch 1 computes, from a minute on and for as many
\* minutes as there are users, are those of the residue class above.
SampledFrom == [minute \in Minutes |->
    \A len \in 1..MaxSize :
        Sampled(len, minute .. minute + len - 1) = Reachable(len)]

\* Whether the lists that switch 3 rebuilds, from a minute on and for as many
\* minutes as there are aggregators, are one residue class.
RefreshedFrom == [minute \in Minutes |->
    \A len \in 1..MaxSize :
        Refreshed(len, minute .. minute + len - 1)
            = {i \in 0..len - 1 : (i - 3) % Gcd(Num, len) = 0}]
=============================================================================
