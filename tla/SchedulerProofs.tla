---------------------------- MODULE SchedulerProofs ---------------------------
(***************************************************************************)
(* The slices and indexes of Rounds stay within the dicts they index; the  *)
(* pre-filtered lists and the queue have no user twice, lose none that     *)
(* came near liquidation, and keep what a signal leaves over, whatever     *)
(* happens during the two waits.                                           *)
(***************************************************************************)
EXTENDS Scheduler, TLAPS, SequenceTheorems, FiniteSetTheorems,
        WellFoundedInduction

\* The length of a slice is at least 1: ceil of a positive quotient.
LEMMA LengthPositive ==
    ASSUME NEW len \in Nat \ {0}
    PROVE  length(len) \in Nat \ {0}
<1>1. Intervals \in Nat \ {0}
  BY RoundsAssumption
<1>2. (len + Intervals - 1) \div Intervals \in Nat \ {0}
  BY <1>1
<1> QED
  BY <1>2 DEF length

\* What get_users_sampling returns are positions of the list: the slice that
\* array[left:right] takes is never cut short by a bound outside the list.
LEMMA SliceInRange ==
    ASSUME NEW len \in Nat \ {0}, NEW index \in Nat
    PROVE  get_users_sampling(len, index) \subseteq 0..len - 1
<1>1. length(len) \in Nat
  BY LengthPositive
<1> DEFINE at == length(len) * index
<1>2. at \in Nat
  BY <1>1
<1>3. at % len \in 0..len - 1
  BY <1>2
<1> HIDE DEF at
<1>4. left(len, index) \in Nat /\ left(len, index) <= len
  <2>1. left(len, index) = IF at > len THEN at % len ELSE at
    BY DEF left, at
  <2> QED
    BY <1>2, <1>3, <2>1
<1>5. right(len, index) \in Nat /\ right(len, index) <= len
  BY <1>1, <1>4 DEF right
<1> QED
  BY <1>4, <1>5 DEF get_users_sampling

\* For every number of users and of aggregators, every number of slices and every
\* block number, the positions that switches 1 and 3 touch exist (users.py:211,
\* signals.py:67), so neither a slice nor an index leaves its dict.
THEOREM PositionsExist ==
    ASSUME NEW len \in Nat \ {0}, NEW minutes \in SUBSET Nat
    PROVE  /\ Sampled(len, minutes) \subseteq 0..len - 1
           /\ Refreshed(len, minutes) \subseteq 0..len - 1
<1>1. ASSUME NEW m \in minutes, NEW k \in Nat PROVE BlockOf(m, k) \in Nat
  BY RoundsAssumption DEF BlockOf
<1>2. ASSUME NEW m \in minutes
      PROVE  get_users_sampling(len, BlockOf(m, 1)) \subseteq 0..len - 1
  BY <1>1, SliceInRange
<1>3. ASSUME NEW m \in minutes
      PROVE  get_tokens_from_aggr_index(len, BlockOf(m, 3)) \in 0..len - 1
  BY <1>1 DEF get_tokens_from_aggr_index
<1>4. QED
  BY <1>2, <1>3 DEF Sampled, Refreshed
-----------------------------------------------------------------------------
(* Least elements *)

\* A set of naturals has a least element: the induction of this module.
LEMMA NatMin ==
    ASSUME NEW T \in SUBSET Nat, T # {}
    PROVE  \E x \in T : \A y \in T : x <= y
<1>1. PICK x \in T : \A y \in T : ~ (<<y, x>> \in OpToRel(<, Nat))
  BY NatLessThanWellFounded, WFMin, Zenon
<1>2. ASSUME NEW y \in T PROVE x <= y
  <2>1. x \in Nat /\ y \in Nat
    OBVIOUS
  <2>2. <<y, x>> \in OpToRel(<, Nat) <=> y < x
    BY <2>1, Zenon DEF OpToRel
  <2>3. ~ (y < x)
    BY <1>1, <2>2, Zenon
  <2> QED
    BY <2>1, <2>3
<1> QED
  BY <1>2

-----------------------------------------------------------------------------
(* Inserting into a list *)

\* The elements of a list with u inserted at i.
LEMMA Inserted ==
    ASSUME NEW list \in Seq(Users), NEW u \in Users, NEW i \in 1..Len(list) + 1
    PROVE  /\ InsertAt(list, i, u) \in Seq(Users)
           /\ Len(InsertAt(list, i, u)) = Len(list) + 1
           /\ \A k \in 1..Len(list) + 1 :
                 InsertAt(list, i, u)[k] = IF k < i THEN list[k]
                                           ELSE IF k = i THEN u
                                           ELSE list[k - 1]
<1> DEFINE front == SubSeq(list, 1, i - 1)
           back == SubSeq(list, i, Len(list))
<1>0. Len(list) \in Nat /\ i \in Int /\ \A k \in 1..Len(list) : list[k] \in Users
  BY LenProperties
<1>1. /\ front \in Seq(Users) /\ Len(front) = i - 1
      /\ \A k \in 1..i - 1 : front[k] = list[k]
  <2>1. \A k \in 1..i - 1 : list[k] \in Users
    BY <1>0
  <2>2. /\ front \in Seq(Users) /\ Len(front) = IF 1 <= i - 1 THEN i - 1 - 1 + 1 ELSE 0
        /\ \A k \in 1..i - 1 - 1 + 1 : front[k] = list[1 + k - 1]
    BY <1>0, <2>1, SubSeqProperties
  <2> QED
    BY <1>0, <2>2
<1>2. /\ back \in Seq(Users) /\ Len(back) = Len(list) - i + 1
      /\ \A k \in 1..Len(list) - i + 1 : back[k] = list[i + k - 1]
  <2>1. \A k \in i..Len(list) : list[k] \in Users
    BY <1>0
  <2>2. /\ back \in Seq(Users) /\ Len(back) = IF i <= Len(list) THEN Len(list) - i + 1 ELSE 0
        /\ \A k \in 1..Len(list) - i + 1 : back[k] = list[i + k - 1]
    BY <1>0, <2>1, SubSeqProperties
  <2> QED
    BY <1>0, <2>2
<1> HIDE DEF front, back
<1>3. <<u>> \in Seq(Users) /\ Len(<<u>>) = 1 /\ <<u>>[1] = u
  OBVIOUS
<1> DEFINE head == front \o <<u>>
<1>4. /\ head \in Seq(Users) /\ Len(head) = i
      /\ \A k \in 1..i : head[k] = IF k <= i - 1 THEN front[k] ELSE <<u>>[k - (i - 1)]
  <2>1. /\ head \in Seq(Users) /\ Len(head) = Len(front) + Len(<<u>>)
        /\ \A k \in 1..Len(front) + Len(<<u>>) :
              head[k] = IF k <= Len(front) THEN front[k] ELSE <<u>>[k - Len(front)]
    BY <1>1, <1>3, ConcatProperties
  <2> QED
    BY <1>0, <1>1, <1>3, <2>1
<1>5. \A k \in 1..i : head[k] = IF k < i THEN list[k] ELSE u
  BY <1>0, <1>1, <1>3, <1>4
<1> HIDE DEF head
<1>6. /\ head \o back \in Seq(Users) /\ Len(head \o back) = Len(list) + 1
      /\ \A k \in 1..Len(list) + 1 :
            (head \o back)[k] = IF k <= i THEN head[k] ELSE back[k - i]
  <2>1. /\ head \o back \in Seq(Users) /\ Len(head \o back) = Len(head) + Len(back)
        /\ \A k \in 1..Len(head) + Len(back) :
              (head \o back)[k] = IF k <= Len(head) THEN head[k] ELSE back[k - Len(head)]
    BY <1>2, <1>4, ConcatProperties
  <2> QED
    BY <1>0, <1>2, <1>4, <2>1
<1>7. InsertAt(list, i, u) = head \o back
  BY DEF InsertAt, head, front, back
<1>8. \A k \in 1..Len(list) + 1 : (head \o back)[k] = IF k < i THEN list[k]
                                           ELSE IF k = i THEN u
                                           ELSE list[k - 1]
  BY <1>0, <1>2, <1>5, <1>6, SMTT(30)
<1> QED
  BY <1>6, <1>7, <1>8

\* A list of users without repetition.
UniqueList(list) == list \in Seq(Users) /\ IsInjective(list)

\* The same in terms of positions.
LEMMA UniqueIs ==
    ASSUME NEW list \in Seq(Users)
    PROVE  IsInjective(list) <=> \A i, j \in 1..Len(list) : list[i] = list[j] => i = j
BY LenProperties DEF IsInjective

\* Every element of l is in m, at the same position or a later one.
Later(l, m) == \A k \in 1..Len(l) : \E n \in 1..Len(m) : k <= n /\ m[n] = l[k]

\* The position at which compound.py inserts is one of the list, or the first.
LEMMA IndexInRange ==
    ASSUME NEW list \in Seq(Users), NEW u, NEW h
    PROVE  InsertIndex(list, u, h) \in 1..Len(list) + 1
<1> DEFINE larger == {i \in 1..Len(list) : h[u] < h[list[i]]}
<1>0. Len(list) \in Nat
  BY LenProperties
<1>1. InsertIndex(list, u, h) = IF larger = {} THEN 1 ELSE Min(larger)
  BY DEF InsertIndex
<1>2. larger \in SUBSET Nat /\ larger \subseteq 1..Len(list)
  BY <1>0
<1> HIDE DEF larger
<1>3. CASE larger = {}
  BY <1>0, <1>1, <1>3
<1>4. CASE larger # {}
  <2>1. \E x \in larger : \A y \in larger : x <= y
    BY <1>2, <1>4, NatMin
  <2>2. Min(larger) \in larger
    BY <2>1, Zenon DEF Min
  <2>3. InsertIndex(list, u, h) = Min(larger)
    BY <1>1, <1>4, Zenon
  <2>4. InsertIndex(list, u, h) \in 1..Len(list)
    BY <1>2, <2>2, <2>3, Zenon
  <2> QED
    BY <1>0, <2>4
<1> QED
  BY <1>3, <1>4

\* Inserting a user keeps the list without repetition and moves nobody forward.
LEMMA InsertKeeps ==
    ASSUME NEW list, UniqueList(list), NEW u \in Users, NEW h
    PROVE  /\ UniqueList(insert(list, u, h))
           /\ Contains(insert(list, u, h), u)
           /\ Later(list, insert(list, u, h))
<1>0. list \in Seq(Users) /\ Len(list) \in Nat
      /\ \A i, j \in 1..Len(list) : list[i] = list[j] => i = j
  BY UniqueIs, LenProperties DEF UniqueList
<1>1. CASE Contains(list, u)
  <2>1. insert(list, u, h) = list
    BY <1>1 DEF insert
  <2>2. Later(list, list)
    BY <1>0 DEF Later
  <2> QED
    BY <1>1, <2>1, <2>2
<1>2. CASE ~Contains(list, u)
  <2> DEFINE at == InsertIndex(list, u, h)
             new == InsertAt(list, at, u)
  <2>1. insert(list, u, h) = new
    BY <1>2 DEF insert
  <2>2. at \in 1..Len(list) + 1
    BY <1>0, IndexInRange
  <2> HIDE DEF at
  <2>3. /\ new \in Seq(Users)
        /\ Len(new) = Len(list) + 1
        /\ \A k \in 1..Len(list) + 1 :
              new[k] = IF k < at THEN list[k] ELSE IF k = at THEN u ELSE list[k - 1]
    BY <1>0, <2>2, Inserted
  <2> HIDE DEF new
  <2>4. \A i \in 1..Len(list) : list[i] # u
    BY <1>2 DEF Contains
  <2>5. \A i, j \in 1..Len(new) : new[i] = new[j] => i = j
    <3> SUFFICES ASSUME NEW i \in 1..Len(new), NEW j \in 1..Len(new),
                        new[i] = new[j], i < j
                 PROVE  FALSE
      BY <1>0, <2>3
    <3>1. CASE j < at
      BY <1>0, <2>2, <2>3, <3>1
    <3>2. CASE j = at
      <4>1. i \in 1..Len(list) /\ new[i] = list[i] /\ new[j] = u
        BY <1>0, <2>2, <2>3, <3>2
      <4> QED
        BY <2>4, <4>1
    <3>3. CASE j > at /\ i < at
      <4>1. /\ i \in 1..Len(list) /\ j - 1 \in 1..Len(list)
            /\ new[i] = list[i] /\ new[j] = list[j - 1] /\ i < j - 1
        BY <1>0, <2>2, <2>3, <3>3
      <4>2. list[i] = list[j - 1]
        BY <4>1, Zenon
      <4>3. i = j - 1
        BY <1>0, <4>1, <4>2, Zenon
      <4>4. i \in Int /\ j \in Int
        BY <1>0, <2>3
      <4> QED
        BY <4>1, <4>3, <4>4
    <3>4. CASE j > at /\ i = at
      <4>1. j - 1 \in 1..Len(list) /\ new[j] = list[j - 1] /\ new[i] = u
        BY <1>0, <2>2, <2>3, <3>4
      <4> QED
        BY <2>4, <4>1
    <3>5. CASE j > at /\ i > at
      <4>1. /\ i - 1 \in 1..Len(list) /\ j - 1 \in 1..Len(list)
            /\ new[i] = list[i - 1] /\ new[j] = list[j - 1] /\ i - 1 < j - 1
        BY <1>0, <2>2, <2>3, <3>5
      <4>2. list[i - 1] = list[j - 1]
        BY <4>1, Zenon
      <4>3. i - 1 = j - 1
        BY <1>0, <4>1, <4>2, Zenon
      <4>4. i \in Int /\ j \in Int
        BY <1>0, <2>3
      <4> QED
        BY <4>1, <4>3, <4>4
    <3> QED
      BY <1>0, <2>2, <2>3, <3>1, <3>2, <3>3, <3>4, <3>5
  <2>6. UniqueList(new)
    BY <2>3, <2>5, UniqueIs DEF UniqueList
  <2>7. Contains(new, u)
    BY <1>0, <2>2, <2>3 DEF Contains
  <2>8. Later(list, new)
    <3>1. ASSUME NEW k \in 1..Len(list)
          PROVE  \E n \in 1..Len(new) : k <= n /\ new[n] = list[k]
      <4>1. CASE k < at
        <5>1. k \in 1..Len(new) /\ k <= k /\ new[k] = list[k]
          BY <1>0, <2>2, <2>3, <4>1
        <5> QED
          BY <5>1
      <4>2. CASE ~(k < at)
        <5>1. k + 1 \in 1..Len(new) /\ k <= k + 1 /\ new[k + 1] = list[k]
          BY <1>0, <2>2, <2>3, <4>2
        <5> QED
          BY <5>1
      <4> QED
        BY <4>1, <4>2
    <3> QED
      BY <3>1 DEF Later
  <2> QED
    BY <2>1, <2>6, <2>7, <2>8
<1> QED
  BY <1>1, <1>2

-----------------------------------------------------------------------------
(* The loop over users_filtered *)

\* One turn of the loop, for the list of aggregator a.
Turn(prev, a, u, h, holding) ==
    IF a \in holding[u] THEN insert(prev, u, h) ELSE prev

\* f gives the list after each of the first m turns.
IsRun(f, m, list, a, us, h, holding) ==
    f = [n \in 0..m |-> IF n = 0 THEN list ELSE Turn(f[n - 1], a, us[n], h, holding)]

\* Turns m with no such function.
NoRun(list, a, us, h, holding) == {m \in Nat : ~ \E f : IsRun(f, m, list, a, us, h, holding)}

\* The recursion of insert_all has a solution, for any number of turns.
LEMMA RunExists ==
    ASSUME NEW list, NEW a, NEW us, NEW h, NEW holding, NEW m \in Nat
    PROVE  \E f : IsRun(f, m, list, a, us, h, holding)
<1> SUFFICES ASSUME NoRun(list, a, us, h, holding) # {}
             PROVE  FALSE
  BY Zenon DEF NoRun
<1>1. PICK x \in NoRun(list, a, us, h, holding) : \A y \in NoRun(list, a, us, h, holding) : x <= y
  <2>1. NoRun(list, a, us, h, holding) \in SUBSET Nat
    BY Zenon DEF NoRun
  <2> QED
    BY <2>1, NatMin
<1>2. x \in Nat /\ \A f : ~IsRun(f, x, list, a, us, h, holding)
  BY <1>1, Zenon DEF NoRun
<1>3. x # 0
  <2> DEFINE f == [n \in 0..0 |-> list]
  <2>1. IsRun(f, 0, list, a, us, h, holding)
    <3>1. \A n \in 0..0 : n = 0
      OBVIOUS
    <3> QED
      BY <3>1 DEF IsRun
  <2> QED
    BY <1>2, <2>1
<1>4. x - 1 \in Nat /\ x - 1 \notin NoRun(list, a, us, h, holding)
  BY <1>1, <1>2, <1>3
<1>5. PICK f : IsRun(f, x - 1, list, a, us, h, holding)
  BY <1>4, Zenon DEF NoRun
<1> DEFINE last == Turn(f[x - 1], a, us[x], h, holding)
           g == [n \in 0..x |-> IF n = x THEN last ELSE f[n]]
<1>6. \A n \in 0..x - 1 : f[n] = IF n = 0 THEN list ELSE Turn(f[n - 1], a, us[n], h, holding)
  BY <1>5 DEF IsRun
<1>7. ASSUME NEW n \in 0..x
      PROVE  g[n] = IF n = 0 THEN list ELSE Turn(g[n - 1], a, us[n], h, holding)
  <2>1. CASE n = 0
    <3>1. n \in 0..x - 1 /\ n # x
      BY <1>4, <1>3, <2>1
    <3>2. g[n] = f[n]
      BY <3>1
    <3> QED
      BY <1>6, <2>1, <3>1, <3>2
  <2>2. CASE n # 0 /\ n # x
    <3>1. n \in 0..x - 1 /\ n - 1 \in 0..x /\ n - 1 # x
      BY <1>2, <2>2
    <3>2. g[n] = f[n] /\ g[n - 1] = f[n - 1]
      BY <3>1, <2>2
    <3> QED
      BY <1>6, <2>2, <3>1, <3>2
  <2>3. CASE n # 0 /\ n = x
    <3>1. x - 1 \in 0..x /\ x - 1 # x
      BY <1>2, <1>4
    <3>2. g[x] = last /\ g[x - 1] = f[x - 1]
      BY <3>1, <2>3
    <3> QED
      BY <2>3, <3>2
  <2> QED
    BY <2>1, <2>2, <2>3
<1>8. IsRun(g, x, list, a, us, h, holding)
  <2>1. g = [n \in 0..x |-> g[n]]
    OBVIOUS
  <2> HIDE DEF g
  <2>2. [n \in 0..x |-> g[n]]
          = [n \in 0..x |-> IF n = 0 THEN list ELSE Turn(g[n - 1], a, us[n], h, holding)]
    BY <1>7
  <2> QED
    BY <2>1, <2>2 DEF IsRun
<1> QED
  BY <1>2, <1>8

\* Being in a list survives insertions.
LEMMA LaterIs ==
    ASSUME NEW l \in Seq(Users), NEW m \in Seq(Users), Later(l, m)
    PROVE  /\ \A u : Contains(l, u) => Contains(m, u)
           /\ \A o \in Seq(Users) : Later(m, o) => Later(l, o)
<1>0. Len(l) \in Nat /\ Len(m) \in Nat
  BY LenProperties
<1>1. ASSUME NEW u, Contains(l, u) PROVE Contains(m, u)
  <2>1. PICK k \in 1..Len(l) : l[k] = u
    BY <1>1 DEF Contains
  <2>2. PICK n \in 1..Len(m) : m[n] = l[k]
    BY <2>1, Zenon DEF Later
  <2> QED
    BY <2>1, <2>2 DEF Contains
<1>2. ASSUME NEW o \in Seq(Users), Later(m, o) PROVE Later(l, o)
  <2>1. ASSUME NEW k \in 1..Len(l)
        PROVE  \E n \in 1..Len(o) : k <= n /\ o[n] = l[k]
    <3>1. PICK n \in 1..Len(m) : k <= n /\ m[n] = l[k]
      BY Zenon DEF Later
    <3>2. PICK q \in 1..Len(o) : n <= q /\ o[q] = m[n]
      BY <1>2, Zenon DEF Later
    <3>3. Len(o) \in Nat
      BY LenProperties
    <3>4. k <= q
      BY <1>0, <3>1, <3>2, <3>3
    <3> QED
      BY <3>1, <3>2, <3>4
  <2> QED
    BY <2>1, Zenon DEF Later
<1> QED
  BY <1>1, <1>2

\* The list after the first n turns: what the loop has to have done.
Filled(list, new, a, us, n, holding) ==
    /\ UniqueList(new)
    /\ Later(list, new)
    /\ \A k \in 1..n : a \in holding[us[k]] => Contains(new, us[k])

\* One more turn.
LEMMA TurnFills ==
    ASSUME NEW list \in Seq(Users), NEW prev, NEW a, NEW us, NEW h, NEW holding, NEW n \in Nat,
           Filled(list, prev, a, us, n, holding), us[n + 1] \in Users
    PROVE  Filled(list, Turn(prev, a, us[n + 1], h, holding), a, us, n + 1, holding)
<1> DEFINE u == us[n + 1]
<1>0. /\ UniqueList(prev) /\ prev \in Seq(Users) /\ Later(list, prev)
      /\ \A k \in 1..n : a \in holding[us[k]] => Contains(prev, us[k])
  BY Zenon DEF Filled, UniqueList
<1>1. \A k \in 1..n + 1 : k \in 1..n \/ k = n + 1
  OBVIOUS
<1>2. CASE a \in holding[u]
  <2> DEFINE new == insert(prev, u, h)
  <2>1. Turn(prev, a, us[n + 1], h, holding) = new
    BY <1>2 DEF Turn
  <2>2. UniqueList(new) /\ Contains(new, u) /\ Later(prev, new)
    BY <1>0, InsertKeeps
  <2> HIDE DEF new
  <2>3. new \in Seq(Users)
    BY <2>2 DEF UniqueList
  <2>4. Later(list, new) /\ \A v : Contains(prev, v) => Contains(new, v)
    BY <1>0, <2>2, <2>3, LaterIs
  <2>5. \A k \in 1..n + 1 : a \in holding[us[k]] => Contains(new, us[k])
    BY <1>0, <1>1, <2>2, <2>4, Zenon
  <2> QED
    BY <2>1, <2>2, <2>4, <2>5, Zenon DEF Filled
<1>3. CASE a \notin holding[u]
  <2>1. Turn(prev, a, us[n + 1], h, holding) = prev
    BY <1>3 DEF Turn
  <2>2. \A k \in 1..n + 1 : a \in holding[us[k]] => Contains(prev, us[k])
    BY <1>0, <1>1, <1>3, Zenon
  <2> QED
    BY <1>0, <2>1, <2>2, Zenon DEF Filled
<1> QED
  BY <1>2, <1>3

\* The whole loop: every user of users_filtered that holds one of the aggregator's
\* tokens is on the list then, once, and nobody moved forward (compound.py:388).
LEMMA InsertAllFills ==
    ASSUME NEW list, UniqueList(list), NEW a, NEW us \in Seq(Users),
           NEW h, NEW holding
    PROVE  Filled(list, insert_all(list, a, us, h, holding), a, us, Len(us), holding)
<1>0. Len(us) \in Nat /\ (\A k \in 1..Len(us) : us[k] \in Users) /\ list \in Seq(Users)
  BY LenProperties DEF UniqueList
<1> DEFINE f == CHOOSE g : IsRun(g, Len(us), list, a, us, h, holding)
<1>1. insert_all(list, a, us, h, holding) = f[Len(us)]
  BY Zenon DEF insert_all, IsRun, Turn
<1>2. IsRun(f, Len(us), list, a, us, h, holding)
  <2>1. \E g : IsRun(g, Len(us), list, a, us, h, holding)
    BY <1>0, RunExists
  <2> QED
    BY <2>1, Zenon
<1> HIDE DEF f
<1>3. f[0] = list /\ \A n \in 1..Len(us) : f[n] = Turn(f[n - 1], a, us[n], h, holding)
  BY <1>0, <1>2 DEF IsRun
<1> DEFINE Bad == {n \in 0..Len(us) : ~Filled(list, f[n], a, us, n, holding)}
<1>4. Bad \in SUBSET Nat
  BY <1>0
<1>5. Bad = {}
  <2> SUFFICES ASSUME Bad # {}
               PROVE  FALSE
    OBVIOUS
  <2>1. PICK x \in Bad : \A y \in Bad : x <= y
    <3> HIDE DEF Bad
    <3> QED
      BY <1>4, NatMin
  <2>2. x \in 0..Len(us) /\ ~Filled(list, f[x], a, us, x, holding)
    BY <2>1
  <2>3. x # 0
    <3>1. Filled(list, list, a, us, 0, holding)
      <4>1. Later(list, list)
        BY <1>0, LenProperties DEF Later
      <4>2. \A k \in 1..0 : FALSE
        OBVIOUS
      <4> QED
        BY <4>1, <4>2, Zenon DEF Filled
    <3> QED
      BY <1>3, <2>2, <3>1
  <2> DEFINE n == x - 1
  <2>4. n \in Nat /\ n \in 0..Len(us) /\ n + 1 = x /\ n + 1 \in 1..Len(us) /\ ~(x <= n)
    BY <1>0, <2>2, <2>3
  <2>5. Filled(list, f[n], a, us, n, holding)
    BY <2>1, <2>4, Zenon
  <2>6. f[x] = Turn(f[n], a, us[n + 1], h, holding)
    BY <1>3, <2>4
  <2> HIDE DEF n
  <2>7. us[n + 1] \in Users
    BY <1>0, <2>4
  <2>8. Filled(list, Turn(f[n], a, us[n + 1], h, holding), a, us, n + 1, holding)
    BY <1>0, <2>4, <2>5, <2>7, TurnFills
  <2> QED
    BY <2>2, <2>4, <2>6, <2>8, Zenon
<1>6. Len(us) \in 0..Len(us)
  BY <1>0
<1> QED
  BY <1>1, <1>5, <1>6

-----------------------------------------------------------------------------
(* users_trimming *)

\* users_states is a dict of finitely many users.
LEMMA UsersFinite == IsFiniteSet(Users)
<1>1. Len(user_lst) \in Nat /\ user_lst \in [1..Len(user_lst) -> Users]
      /\ DOMAIN user_lst = 1..Len(user_lst)
  BY SchedulerAssumption, LenProperties
<1>2. Users = {user_lst[i] : i \in 1..Len(user_lst)}
  BY <1>1, SchedulerAssumption DEF ToSet
<1>3. user_lst \in Surjection(1..Len(user_lst), Users)
  BY <1>1, <1>2 DEF Surjection
<1>4. IsFiniteSet(1..Len(user_lst))
  BY <1>1, FS_Interval
<1> QED
  BY <1>3, <1>4, FS_Surjection

\* The users that the sort of users_trimming puts before u.
Before(S, h, u) == {w \in S : NearFirst(h, w, u)}

\* The order of users_trimming is total: by health factor, then by address.
LEMMA NearFirstTotal ==
    ASSUME NEW h \in [Users -> Nat], NEW u \in Users, NEW w \in Users
    PROVE  /\ u # w => NearFirst(h, u, w) \/ NearFirst(h, w, u)
           /\ NearFirst(h, u, w) => ~NearFirst(h, w, u)
           /\ ~NearFirst(h, u, u)
           /\ \A v \in Users : NearFirst(h, v, u) /\ NearFirst(h, u, w) => NearFirst(h, v, w)
<1>1. Users \subseteq Nat
  BY SchedulerAssumption
<1>2. h[u] \in Nat /\ h[w] \in Nat /\ u \in Nat /\ w \in Nat
  BY <1>1
<1>3. \A v \in Users : h[v] \in Nat /\ v \in Nat
  BY <1>1
<1> QED
  BY <1>2, <1>3 DEF NearFirst

\* A user's rank is a position, and who comes first has the smaller rank.
LEMMA RankGrows ==
    ASSUME NEW S \in SUBSET Users, NEW h \in [Users -> Nat], NEW w \in S
    PROVE  /\ Cardinality(Before(S, h, w)) \in Nat
           /\ Cardinality(S) \in Nat
           /\ Cardinality(Before(S, h, w)) < Cardinality(S)
           /\ \A u \in S : NearFirst(h, u, w) =>
                 Cardinality(Before(S, h, u)) < Cardinality(Before(S, h, w))
<1>0. IsFiniteSet(S) /\ w \in Users
  BY UsersFinite, FS_Subset
<1>1. Before(S, h, w) \in SUBSET S /\ w \notin Before(S, h, w)
  BY <1>0, NearFirstTotal DEF Before
<1>2. IsFiniteSet(Before(S, h, w))
  BY <1>0, <1>1, FS_Subset
<1>3. /\ Cardinality(Before(S, h, w)) \in Nat /\ Cardinality(S) \in Nat
      /\ Cardinality(Before(S, h, w)) <= Cardinality(S)
      /\ Cardinality(S) = Cardinality(Before(S, h, w)) => S = Before(S, h, w)
  BY <1>0, <1>1, <1>2, FS_Subset, FS_CardinalityType
<1>4. Cardinality(Before(S, h, w)) # Cardinality(S)
  BY <1>1, <1>3
<1>5. ASSUME NEW u \in S, NearFirst(h, u, w)
      PROVE  Cardinality(Before(S, h, u)) < Cardinality(Before(S, h, w))
  <2>1. u \in Users
    OBVIOUS
  <2>2. \A v \in S : NearFirst(h, v, u) => NearFirst(h, v, w)
    BY <1>0, <1>5, <2>1, NearFirstTotal
  <2>3. Before(S, h, u) \in SUBSET Before(S, h, w)
    BY <2>2, Zenon DEF Before
  <2>4. u \in Before(S, h, w) /\ u \notin Before(S, h, u)
    BY <1>5, <2>1, NearFirstTotal DEF Before
  <2>5. /\ Cardinality(Before(S, h, u)) <= Cardinality(Before(S, h, w))
        /\ Cardinality(Before(S, h, w)) = Cardinality(Before(S, h, u)) =>
              Before(S, h, w) = Before(S, h, u)
        /\ IsFiniteSet(Before(S, h, u))
    BY <1>2, <2>3, FS_Subset
  <2>6. Cardinality(Before(S, h, u)) \in Nat
    BY <2>5, FS_CardinalityType
  <2>7. Cardinality(Before(S, h, w)) # Cardinality(Before(S, h, u))
    BY <2>4, <2>5, Zenon
  <2> QED
    BY <1>3, <2>5, <2>6, <2>7
<1>6. Cardinality(Before(S, h, w)) < Cardinality(S)
  BY <1>3, <1>4
<1> QED
  BY <1>3, <1>5, <1>6

\* Sorted by health factor, then by address.
Sorted(list, h) ==
    \A i, j \in 1..Len(list) : i < j => NearFirst(h, list[i], list[j])

\* The sort of users_trimming has a result.
LEMMA SortExists ==
    ASSUME NEW S \in SUBSET Users, NEW h \in [Users -> Nat]
    PROVE  \E list \in SetToSeqs(S) : Sorted(list, h)
<1> DEFINE n == Cardinality(S)
           R == [u \in S |-> Cardinality(Before(S, h, u)) + 1]
<1>0. IsFiniteSet(S)
  BY UsersFinite, FS_Subset
<1>1. n \in Nat
  BY <1>0, FS_CardinalityType
<1>2. ASSUME NEW u \in S PROVE R[u] \in 1..n
  <2>1. R[u] = Cardinality(Before(S, h, u)) + 1
    OBVIOUS
  <2>2. /\ Cardinality(Before(S, h, u)) \in Nat /\ Cardinality(Before(S, h, u)) < n
    BY RankGrows
  <2> QED
    BY <1>1, <2>1, <2>2
<1>3. ASSUME NEW u \in S, NEW w \in S, NearFirst(h, u, w) PROVE R[u] < R[w]
  <2>1. R[u] = Cardinality(Before(S, h, u)) + 1 /\ R[w] = Cardinality(Before(S, h, w)) + 1
    OBVIOUS
  <2>2. /\ Cardinality(Before(S, h, u)) \in Nat /\ Cardinality(Before(S, h, w)) \in Nat
        /\ Cardinality(Before(S, h, u)) < Cardinality(Before(S, h, w))
    BY <1>3, RankGrows
  <2> QED
    BY <2>1, <2>2
<1>4. DOMAIN R = S /\ R \in [S -> 1..n]
  <2>1. R = [u \in S |-> R[u]]
    OBVIOUS
  <2> HIDE DEF R, n
  <2> QED
    BY <1>2, <2>1
<1> HIDE DEF R
<1>5. ASSUME NEW u \in S, NEW w \in S, u # w PROVE R[u] # R[w]
  <2>1. NearFirst(h, u, w) \/ NearFirst(h, w, u)
    BY <1>5, NearFirstTotal
  <2>2. R[u] \in Int /\ R[w] \in Int
    BY <1>1, <1>2
  <2>3. R[u] < R[w] \/ R[w] < R[u]
    BY <1>3, <2>1
  <2> QED
    BY <2>2, <2>3
<1>6. R \in Injection(S, 1..n)
  BY <1>4, <1>5 DEF Injection, IsInjective
<1>7. IsFiniteSet(1..n) /\ Cardinality(1..n) = n
  <2> HIDE DEF n
  <2>1. n \in Int /\ 1 \in Int
    BY <1>1
  <2>2. IsFiniteSet(1..n) /\ Cardinality(1..n) = IF 1 > n THEN 0 ELSE n - 1 + 1
    BY <2>1, FS_Interval
  <2> QED
    BY <1>1, <2>2
<1>8. R \in Surjection(S, 1..n)
  BY <1>6, <1>7, FS_Injection
<1>9. \A k \in 1..n : \E u \in S : R[u] = k
  BY <1>8 DEF Surjection
<1> HIDE DEF n
<1> DEFINE list == [k \in 1..n |-> CHOOSE u \in S : R[u] = k]
<1>10. ASSUME NEW k \in 1..n PROVE list[k] \in S /\ R[list[k]] = k
  BY <1>9
<1>11. list \in [1..n -> S]
  BY <1>10
<1> HIDE DEF list
<1>12. Len(list) = n
  BY <1>1, <1>11
<1>13. list \in SetToSeqs(S)
  <2>1. \A i, j \in 1..n : i # j => list[i] # list[j]
    BY <1>10
  <2> QED
    BY <1>11, <2>1 DEF SetToSeqs, n
<1>14. Sorted(list, h)
  <2>1. ASSUME NEW i \in 1..n, NEW j \in 1..n, i < j
        PROVE  NearFirst(h, list[i], list[j])
    <3>1. /\ list[i] \in S /\ R[list[i]] = i /\ list[j] \in S /\ R[list[j]] = j
          /\ i \in Int /\ j \in Int
      BY <1>1, <1>10
    <3>2. list[i] # list[j] /\ ~(R[list[j]] < R[list[i]])
      BY <2>1, <3>1
    <3>3. ~NearFirst(h, list[j], list[i])
      BY <1>3, <3>1, <3>2
    <3> QED
      BY <3>1, <3>2, <3>3, NearFirstTotal
  <2> QED
    BY <1>12, <2>1 DEF Sorted
<1> QED
  BY <1>13, <1>14

\* What users_trimming returns: the near users among us, each once, sorted.
LEMMA TrimmingIs ==
    ASSUME NEW us \in SUBSET Users, NEW h \in [Users -> Nat]
    PROVE  /\ UniqueList(users_trimming(us, h))
           /\ \A u : Contains(users_trimming(us, h), u) <=> u \in us /\ Near(h[u])
           /\ Sorted(users_trimming(us, h), h)
<1> DEFINE S == {u \in us : Near(h[u])}
           n == Cardinality(S)
           list == users_trimming(us, h)
<1>1. S \in SUBSET Users
  OBVIOUS
<1>2. list \in SetToSeqs(S) /\ Sorted(list, h)
  <2>1. \E l \in SetToSeqs(S) : Sorted(l, h)
    <3> HIDE DEF S
    <3> QED
      BY <1>1, SortExists
  <2>2. list = CHOOSE l \in SetToSeqs(S) : Sorted(l, h)
    BY Zenon DEF users_trimming, Sorted
  <2> HIDE DEF list, S
  <2> QED
    BY <2>1, <2>2, Zenon
<1>3. \A u : u \in S <=> u \in us /\ Near(h[u])
  OBVIOUS
<1> HIDE DEF list, S
<1>4. IsFiniteSet(S) /\ n \in Nat
  BY <1>1, UsersFinite, FS_Subset, FS_CardinalityType
<1>5. list \in [1..n -> S] /\ \A i, j \in 1..n : i # j => list[i] # list[j]
  BY <1>2, Zenon DEF SetToSeqs
<1>6. IsFiniteSet(1..n) /\ Cardinality(1..n) = n
  <2> HIDE DEF n
  <2>1. n \in Int /\ 1 \in Int
    BY <1>4
  <2>2. IsFiniteSet(1..n) /\ Cardinality(1..n) = IF 1 > n THEN 0 ELSE n - 1 + 1
    BY <2>1, FS_Interval
  <2> QED
    BY <1>4, <2>2
<1>7. list \in Injection(1..n, S)
  <2> HIDE DEF n
  <2> QED
    BY <1>5 DEF Injection, IsInjective
<1>8. list \in Surjection(1..n, S)
  BY <1>4, <1>6, <1>7, FS_Injection
<1> HIDE DEF n
<1>9. list \in Seq(Users) /\ Len(list) = n
  BY <1>1, <1>4, <1>5
<1>10. IsInjective(list)
  BY <1>5, <1>9, UniqueIs
<1>11. \A u : Contains(list, u) <=> u \in S
  BY <1>5, <1>8, <1>9 DEF Surjection, Contains
<1> QED
  BY <1>2, <1>3, <1>9, <1>10, <1>11 DEF UniqueList, list

-----------------------------------------------------------------------------
(* First, Rest and the queue *)

\* The users of a list that pt leaves to the queue, and those it computes.
LEMMA RestIs ==
    ASSUME NEW list, UniqueList(list)
    PROVE  /\ UniqueList(Rest(list))
           /\ ToSet(Rest(list)) = {list[k] : k \in Batch + 1..Len(list)}
           /\ First(list) \in Seq(Users)
           /\ ToSet(list) \subseteq ToSet(First(list)) \cup ToSet(Rest(list))
           /\ ToSet(First(list)) \subseteq Users
           /\ ToSet(Rest(list)) \subseteq Users
<1>0. /\ list \in Seq(Users) /\ Len(list) \in Nat /\ DOMAIN list = 1..Len(list)
      /\ \A i, j \in 1..Len(list) : list[i] = list[j] => i = j
      /\ \A k \in 1..Len(list) : list[k] \in Users
  BY UniqueIs, LenProperties DEF UniqueList
<1>1. Batch \in Nat /\ Batch + 1 \in Int /\ Len(list) \in Nat
  BY <1>0, SchedulerAssumption
<1> DEFINE rest == Rest(list)
           m == IF Batch < Len(list) THEN Batch ELSE Len(list)
           first == First(list)
<1>2. /\ rest \in Seq(Users)
      /\ Len(rest) = IF Batch + 1 <= Len(list) THEN Len(list) - Batch ELSE 0
      /\ \A k \in 1..Len(list) - Batch : rest[k] = list[Batch + k]
  <2>1. \A k \in Batch + 1..Len(list) : list[k] \in Users
    BY <1>0, <1>1
  <2>2. /\ rest \in Seq(Users)
        /\ Len(rest) = IF Batch + 1 <= Len(list) THEN Len(list) - (Batch + 1) + 1 ELSE 0
        /\ \A k \in 1..Len(list) - (Batch + 1) + 1 : rest[k] = list[Batch + 1 + k - 1]
    BY <1>0, <1>1, <2>1, SubSeqProperties DEF Rest
  <2> HIDE DEF rest
  <2>3. ASSUME NEW k \in 1..Len(list) - Batch
        PROVE  k \in 1..Len(list) - (Batch + 1) + 1 /\ Batch + 1 + k - 1 = Batch + k
    BY <1>1
  <2>4. Len(list) - (Batch + 1) + 1 = Len(list) - Batch
    BY <1>1
  <2>5. \A k \in 1..Len(list) - Batch : rest[k] = list[Batch + k]
    BY <2>2, <2>3
  <2> QED
    BY <2>2, <2>4, <2>5, Zenon
<1>3. m \in Nat /\ m <= Len(list) /\ m <= Batch /\ (m = Batch \/ m = Len(list))
  BY <1>0, <1>1
<1>4. /\ first \in Seq(Users) /\ Len(first) = m
      /\ \A k \in 1..m : first[k] = list[k]
  <2>1. first = SubSeq(list, 1, m)
    BY DEF First
  <2> HIDE DEF m, first
  <2>2. m \in Int /\ 1 \in Int /\ \A k \in 1..m : list[k] \in Users
    <3>1. m \in Int /\ 1 \in Int /\ \A k \in 1..m : k \in 1..Len(list)
      BY <1>1, <1>3
    <3> QED
      BY <1>0, <3>1, Zenon
  <2>3. /\ first \in Seq(Users) /\ Len(first) = IF 1 <= m THEN m - 1 + 1 ELSE 0
        /\ \A k \in 1..m - 1 + 1 : first[k] = list[1 + k - 1]
    BY <2>1, <2>2, SubSeqProperties
  <2> QED
    BY <1>3, <2>2, <2>3
<1> HIDE DEF rest, m, first
<1>5. DOMAIN rest = 1..Len(rest) /\ DOMAIN first = 1..m
  BY <1>2, <1>4, LenProperties
<1>6. IsInjective(rest)
  <2>1. ASSUME NEW i \in 1..Len(rest), NEW j \in 1..Len(rest), rest[i] = rest[j]
        PROVE  i = j
    <3>1. /\ Batch + i \in 1..Len(list) /\ Batch + j \in 1..Len(list)
          /\ rest[i] = list[Batch + i] /\ rest[j] = list[Batch + j]
          /\ i \in Int /\ j \in Int
      BY <1>1, <1>2
    <3>2. Batch + i = Batch + j
      BY <1>0, <2>1, <3>1, Zenon
    <3> QED
      BY <1>1, <3>1, <3>2
  <2> QED
    BY <1>2, <2>1, UniqueIs
<1>7. ToSet(rest) = {list[k] : k \in Batch + 1..Len(list)}
  <2>1. ASSUME NEW k \in 1..Len(rest)
        PROVE  rest[k] = list[Batch + k] /\ Batch + k \in Batch + 1..Len(list)
    BY <1>1, <1>2
  <2>2. ASSUME NEW k \in Batch + 1..Len(list)
        PROVE  k - Batch \in 1..Len(rest) /\ list[k] = rest[k - Batch]
    <3>1. k - Batch \in 1..Len(list) - Batch /\ Batch + (k - Batch) = k
          /\ Batch + 1 <= Len(list)
      BY <1>1
    <3> QED
      BY <1>2, <3>1
  <2> QED
    BY <1>5, <2>1, <2>2 DEF ToSet
<1>8. ToSet(first) = {list[k] : k \in 1..m}
  BY <1>4, <1>5 DEF ToSet
<1>9. \A k \in 1..Len(list) : k \in 1..m \/ k \in Batch + 1..Len(list)
  BY <1>1, <1>3
<1>10. ToSet(list) \subseteq ToSet(first) \cup ToSet(rest)
  BY <1>0, <1>7, <1>8, <1>9 DEF ToSet
<1>11. /\ \A k \in Batch + 1..Len(list) : k \in 1..Len(list)
       /\ \A k \in 1..m : k \in 1..Len(list)
  BY <1>1, <1>3
<1>12. ToSet(first) \subseteq Users /\ ToSet(rest) \subseteq Users
  BY <1>0, <1>7, <1>8, <1>11
<1> QED
  BY <1>2, <1>4, <1>6, <1>7, <1>10, <1>12 DEF UniqueList, rest, first

\* Insertions only add to what is left to the queue.
LEMMA RestGrows ==
    ASSUME NEW l, NEW m, UniqueList(l), UniqueList(m), Later(l, m)
    PROVE  ToSet(Rest(l)) \subseteq ToSet(Rest(m))
<1>0. /\ ToSet(Rest(l)) = {l[k] : k \in Batch + 1..Len(l)}
      /\ ToSet(Rest(m)) = {m[k] : k \in Batch + 1..Len(m)}
  BY RestIs
<1>1. Len(l) \in Nat /\ Len(m) \in Nat /\ Batch \in Nat
  BY LenProperties, SchedulerAssumption DEF UniqueList
<1>2. ASSUME NEW k \in Batch + 1..Len(l)
      PROVE  \E n \in Batch + 1..Len(m) : m[n] = l[k]
  <2>1. k \in 1..Len(l)
    BY <1>1
  <2>2. PICK n \in 1..Len(m) : k <= n /\ m[n] = l[k]
    BY <2>1, Zenon DEF Later
  <2>3. n \in Batch + 1..Len(m)
    BY <1>1, <2>1, <2>2
  <2> QED
    BY <2>2, <2>3
<1> QED
  BY <1>0, <1>2

\* users_pending holds lists of users without repetition.
QueueOK(q) == q \in Seq(Seq(Users)) /\ \A i \in 1..Len(q) : IsInjective(q[i])

\* Everybody in the queue.
QueuedIn(q) == UNION {ToSet(q[i]) : i \in 1..Len(q)}

\* pt appends to the queue.
LEMMA QueueAppend ==
    ASSUME NEW q, QueueOK(q), NEW list, UniqueList(list)
    PROVE  /\ QueueOK(Append(q, list))
           /\ QueuedIn(Append(q, list)) = QueuedIn(q) \cup ToSet(list)
<1> DEFINE new == Append(q, list)
<1>0. q \in Seq(Seq(Users)) /\ Len(q) \in Nat /\ list \in Seq(Users)
  BY LenProperties DEF QueueOK, UniqueList
<1>1. /\ new \in Seq(Seq(Users)) /\ Len(new) = Len(q) + 1
      /\ \A i \in 1..Len(q) : new[i] = q[i]
      /\ new[Len(q) + 1] = list
  BY <1>0, AppendProperties
<1> HIDE DEF new
<1>2. \A i \in 1..Len(new) : i \in 1..Len(q) \/ i = Len(q) + 1
  BY <1>0, <1>1
<1>3. Len(q) + 1 \in 1..Len(new) /\ \A i \in 1..Len(q) : i \in 1..Len(new)
  BY <1>0, <1>1
<1>4. QueueOK(new)
  BY <1>1, <1>2 DEF QueueOK, UniqueList
<1>5. QueuedIn(new) = QueuedIn(q) \cup ToSet(list)
  <2>1. QueuedIn(new) \subseteq QueuedIn(q) \cup ToSet(list)
    BY <1>1, <1>2 DEF QueuedIn
  <2>2. QueuedIn(q) \subseteq QueuedIn(new)
    BY <1>1, <1>3 DEF QueuedIn
  <2>3. ToSet(list) \subseteq QueuedIn(new)
    BY <1>1, <1>3 DEF QueuedIn
  <2> QED
    BY <2>1, <2>2, <2>3
<1> QED
  BY <1>4, <1>5 DEF new

\* The idle task takes the first list of the queue.
LEMMA QueueTaken ==
    ASSUME QueueOK(users_pending)
    PROVE  /\ QueueOK(Taken)
           /\ QueuedIn(users_pending) = ToSet(get_data_from_queue) \cup QueuedIn(Taken)
           /\ ToSet(get_data_from_queue) \subseteq Users
<1> DEFINE q == users_pending
<1>0. q \in Seq(Seq(Users)) /\ Len(q) \in Nat /\ \A i \in 1..Len(q) : IsInjective(q[i])
  BY LenProperties DEF QueueOK
<1>1. CASE q = <<>>
  <2>1. Taken = <<>> /\ get_data_from_queue = <<>>
    BY <1>1 DEF Taken, get_data_from_queue
  <2>2. ToSet(<<>>) = {}
    BY DEF ToSet
  <2> QED
    BY <1>1, <2>1, <2>2
<1>2. CASE q # <<>>
  <2>1. Taken = Tail(q) /\ get_data_from_queue = Head(q)
    BY <1>2 DEF Taken, get_data_from_queue
  <2> DEFINE t == Tail(q)
  <2>2. /\ Head(q) \in Seq(Users) /\ t \in Seq(Seq(Users)) /\ Len(t) = Len(q) - 1
        /\ \A i \in 1..Len(t) : t[i] = q[i + 1]
    BY <1>0, <1>2, HeadTailProperties
  <2>3. Head(q) = q[1] /\ Len(q) # 0
    BY <1>0, <1>2
  <2> HIDE DEF t, q
  <2>4. QueueOK(t)
    <3>1. \A i \in 1..Len(t) : i + 1 \in 1..Len(q)
      BY <1>0, <2>2
    <3> QED
      BY <1>0, <2>2, <3>1 DEF QueueOK
  <2>5. QueuedIn(q) \subseteq ToSet(Head(q)) \cup QueuedIn(t)
    <3>1. ASSUME NEW i \in 1..Len(q) PROVE ToSet(q[i]) \subseteq ToSet(Head(q)) \cup QueuedIn(t)
      <4>1. CASE i = 1
        BY <2>3, <4>1
      <4>2. CASE i # 1
        <5>0. i \in Int /\ i - 1 \in 1..Len(q) - 1 /\ (i - 1) + 1 = i
          BY <1>0, <4>2
        <5>1. i - 1 \in 1..Len(t) /\ t[i - 1] = q[i]
          BY <2>2, <5>0
        <5>2. ToSet(q[i]) \subseteq QueuedIn(t)
          BY <5>1 DEF QueuedIn
        <5> QED
          BY <5>2
      <4> QED
        BY <4>1, <4>2
    <3> QED
      BY <3>1, Zenon DEF QueuedIn
  <2>6. ToSet(Head(q)) \subseteq QueuedIn(q)
    <3>1. 1 \in 1..Len(q)
      BY <1>0, <2>3
    <3> QED
      BY <2>3, <3>1 DEF QueuedIn
  <2>7. QueuedIn(t) \subseteq QueuedIn(q)
    <3>1. ASSUME NEW i \in 1..Len(t) PROVE ToSet(t[i]) \subseteq QueuedIn(q)
      <4>1. i + 1 \in 1..Len(q) /\ t[i] = q[i + 1]
        BY <1>0, <2>2
      <4> QED
        BY <4>1 DEF QueuedIn
    <3> QED
      BY <3>1, Zenon DEF QueuedIn
  <2>8. ToSet(Head(q)) \subseteq Users
    BY <2>2, LenProperties DEF ToSet
  <2> QED
    BY <2>1, <2>4, <2>5, <2>6, <2>7, <2>8 DEF t, q
<1> QED
  BY <1>1, <1>2

-----------------------------------------------------------------------------
(* The inductive invariant *)

\* What execution_select returns, for some of the users.
Results == UNION {[us -> Hfs] : us \in SUBSET Users}

Jobs == [busy : BOOLEAN, results : Results, outdated : SUBSET Users]

PtJobs == [busy : BOOLEAN, results : Results, outdated : SUBSET Users,
           aggr : Aggrs \cup {"none"}, attached : BOOLEAN, kept : Seq(Users)]

SchedTypes ==
    /\ hf \in [Users -> Hfs]
    /\ holds \in [Users -> SUBSET Aggrs]
    /\ ptJob \in PtJobs
    /\ idleJob \in Jobs
    /\ ended \in BOOLEAN
    /\ owed \in SUBSET Users
    /\ dropped \in SUBSET Users
    /\ listed \in SUBSET (Users \X Aggrs)

ListsOK(lists) ==
    /\ lists \in [Aggrs -> Seq(Users)]
    /\ \A a \in Aggrs : IsInjective(lists[a])

\* The list pt refers to, whoever else does, is without repetition too.
PtInv == IsInjective(ptJob.kept) /\ (ptJob.busy => ptJob.aggr \in Aggrs)

\* NearListed depends on the health factors and the reserves: listed are users that
\* are still near, with aggregators they still have, for no reserve is taken away.
ListedNear == \A p \in listed : Near(hf[p[1]]) /\ p[2] \in holds[p[1]]

SchedInv ==
    /\ SchedTypes
    /\ ListsOK(users_pre_filtered)
    /\ QueueOK(users_pending)
    /\ PtInv
    /\ ListedNear
    /\ NearListed
    /\ RemainingQueued

\* What pt will append, given its job and the lists.
PtRest(job, lists) ==
    IF job.busy
    THEN ToSet(Rest(IF job.attached THEN lists[job.aggr] ELSE job.kept))
    ELSE {}

\* Scheduled, in the two parts that the actions change separately.
LEMMA ScheduledIs ==
    /\ Scheduled = QueuedIn(users_pending) \cup PtRest(ptJob, users_pre_filtered)
    /\ Scheduled' = QueuedIn(users_pending') \cup PtRest(ptJob', users_pre_filtered')
<1>1. Scheduled = QueuedIn(users_pending) \cup PtRest(ptJob, users_pre_filtered)
  BY Zenon DEF Scheduled, QueuedIn, PtRest, pt_users
<1>2. Scheduled' = QueuedIn(users_pending') \cup PtRest(ptJob', users_pre_filtered')
  BY Zenon DEF Scheduled, QueuedIn, PtRest, pt_users
<1> QED
  BY <1>1, <1>2

\* The lists are lists of users without repetition.
LEMMA ListsUnique ==
    ASSUME NEW lists, ListsOK(lists), NEW a \in Aggrs
    PROVE  UniqueList(lists[a])
BY DEF ListsOK, UniqueList

\* The empty list.
LEMMA EmptyUnique == UniqueList(<<>>) /\ QueueOK(<<>>) /\ <<>> \in Results
<1>1. <<>> \in Seq(Users) /\ IsInjective(<<>>)
  BY DEF IsInjective
<1>2. <<>> \in Seq(Seq(Users)) /\ Len(<<>>) = 0
  OBVIOUS
<1>3. \A i \in 1..0 : FALSE
  OBVIOUS
<1>4. <<>> \in [{} -> Hfs]
  OBVIOUS
<1>5. <<>> \in Results
  BY <1>4 DEF Results
<1> QED
  BY <1>1, <1>2, <1>3, <1>5 DEF UniqueList, QueueOK

\* Written health factors are health factors.
LEMMA WriteTypes ==
    ASSUME NEW h \in [Users -> Hfs], NEW us, NEW r \in [us -> Hfs]
    PROVE  write_health_factor(h, r) \in [Users -> Hfs]
<1>1. \A u \in Users : (IF u \in DOMAIN r THEN r[u] ELSE h[u]) \in Hfs
  OBVIOUS
<1> QED
  BY <1>1 DEF write_health_factor

\* Health factors are naturals.
LEMMA HfsNat == ASSUME NEW h \in [Users -> Hfs] PROVE h \in [Users -> Nat]
BY SchedulerAssumption

\* The users of an aggregator.
LEMMA FilteringIs ==
    ASSUME NEW a \in Aggrs
    PROVE  /\ users_filtering(a) \in SUBSET Users
           /\ \A u \in Users : a \in holds[u] => u \in users_filtering(a)
BY DEF users_filtering

\* A rebuilt list has the near users of its aggregator, each once.
LEMMA Rebuilt ==
    ASSUME NEW h \in [Users -> Hfs], NEW a \in Aggrs
    PROVE  /\ UniqueList(users_trimming(users_filtering(a), h))
           /\ \A u \in Users : a \in holds[u] /\ Near(h[u]) =>
                 Contains(users_trimming(users_filtering(a), h), u)
<1>1. h \in [Users -> Nat]
  BY HfsNat
<1> QED
  BY <1>1, FilteringIs, TrimmingIs

\* complete_states_info and init_users_pre_filtered establish it.
LEMMA InitSched == Init => SchedInv
<1> SUFFICES ASSUME Init PROVE SchedInv
  OBVIOUS
<1>1. SchedTypes
  <2>1. hf \in [Users -> Hfs]
    BY SchedulerAssumption DEF Init
  <2>2. ptJob \in PtJobs
    BY EmptyUnique DEF Init, noPt, PtJobs, UniqueList
  <2>3. idleJob \in Jobs
    BY EmptyUnique DEF Init, noJob, Jobs
  <2>4. holds \in [Users -> SUBSET Aggrs]
    BY SchedulerAssumption DEF Init
  <2> QED
    BY <2>1, <2>2, <2>3, <2>4 DEF Init, SchedTypes
<1>2. ListsOK(users_pre_filtered)
  <2>1. hf \in [Users -> Hfs]
    BY <1>1 DEF SchedTypes
  <2> DEFINE new(a) == users_trimming(users_filtering(a), hf)
  <2>2. \A a \in Aggrs : UniqueList(new(a))
    BY <2>1, Rebuilt
  <2>3. users_pre_filtered = [a \in Aggrs |-> new(a)]
    BY DEF Init
  <2> HIDE DEF new
  <2> QED
    BY <2>2, <2>3 DEF ListsOK, UniqueList
<1>3. QueueOK(users_pending)
  BY EmptyUnique DEF Init
<1>4. PtInv
  <2>1. ptJob.kept = <<>> /\ ptJob.busy = FALSE
    BY DEF Init, noPt
  <2> QED
    BY <2>1, EmptyUnique DEF PtInv, UniqueList
<1>5. ListedNear /\ NearListed /\ RemainingQueued
  BY DEF Init, ListedNear, NearListed, RemainingQueued
<1> QED
  BY <1>1, <1>2, <1>3, <1>4, <1>5 DEF SchedInv

-----------------------------------------------------------------------------
(* One lemma per step *)

\* A batch written down: listed are those still near.
LEMMA WriteKeeps ==
    ASSUME SchedInv, NEW us, NEW job, job.results \in [us -> Hfs], Write(job),
           UNCHANGED <<holds, users_pre_filtered>>
    PROVE  /\ hf' \in [Users -> Hfs]
           /\ listed' \in SUBSET (Users \X Aggrs)
           /\ ListedNear'
           /\ NearListed'
<1>1. hf \in [Users -> Hfs] /\ listed \in SUBSET (Users \X Aggrs)
  BY DEF SchedInv, SchedTypes
<1>2. hf' = write_health_factor(hf, job.results) /\ listed' = {p \in listed : Near(hf'[p[1]])}
  BY DEF Write
<1>3. hf' \in [Users -> Hfs]
  BY <1>1, <1>2, WriteTypes
<1>4. listed' \subseteq listed /\ \A p \in listed' : Near(hf'[p[1]])
  BY <1>2, Zenon
<1>6. ListedNear'
  BY <1>4 DEF SchedInv, ListedNear
<1>5. NearListed'
  BY <1>4 DEF SchedInv, NearListed
<1> QED
  BY <1>1, <1>3, <1>4, <1>5, <1>6

\* pt: what it does not compute itself is the rest it will append.
LEMMA StepPtStart ==
    ASSUME SchedInv, NEW a \in Aggrs, pt_start(a)
    PROVE  SchedInv'
<1> DEFINE users == users_pre_filtered[a]
           batch == ToSet(First(users))
<1>0. /\ SchedTypes /\ ListsOK(users_pre_filtered) /\ QueueOK(users_pending)
      /\ RemainingQueued
  BY DEF SchedInv
<1>1. UniqueList(users)
  BY <1>0, ListsUnique
<1>2. /\ batch \subseteq Users /\ ToSet(Rest(users)) \subseteq Users
      /\ ToSet(users) \subseteq batch \cup ToSet(Rest(users))
  BY <1>1, RestIs
<1>3. PICK res \in [batch -> Hfs] :
         ptJob' = [busy |-> TRUE, results |-> res, outdated |-> {},
                   aggr |-> a, attached |-> TRUE, kept |-> <<>>]
  BY DEF pt_start
<1>4. /\ ~ended /\ ~ptJob.busy /\ owed' = (owed \cup ToSet(users)) \ batch
      /\ UNCHANGED <<hf, holds, users_pre_filtered, users_pending, idleJob, ended, dropped, listed>>
  BY DEF pt_start
<1> HIDE DEF users, batch
<1>5. res \in Results
  BY <1>2 DEF Results
<1>6. ptJob' \in PtJobs
  BY <1>3, <1>5, EmptyUnique DEF PtJobs, UniqueList
<1>7. ptJob'.busy /\ ptJob'.attached /\ ptJob'.aggr = a /\ ptJob'.kept = <<>>
  BY <1>3
<1>8. SchedTypes'
  <2>1. owed' \in SUBSET Users
    BY <1>0, <1>2, <1>4 DEF SchedTypes
  <2> QED
    BY <1>0, <1>4, <1>6, <2>1 DEF SchedTypes
<1>9. PtInv'
  BY <1>7, EmptyUnique DEF PtInv, UniqueList
<1>10. RemainingQueued'
  <2>1. PtRest(ptJob, users_pre_filtered) = {}
    BY <1>4 DEF PtRest
  <2>2. PtRest(ptJob', users_pre_filtered') = ToSet(Rest(users))
    BY <1>4, <1>7 DEF PtRest, users
  <2>3. owed \ dropped \subseteq QueuedIn(users_pending)
    BY <1>0, <1>4, <2>1, ScheduledIs DEF RemainingQueued
  <2>4. owed' \ dropped' \subseteq QueuedIn(users_pending) \cup ToSet(Rest(users))
    BY <1>2, <1>4, <2>3
  <2>5. Scheduled' = QueuedIn(users_pending) \cup ToSet(Rest(users))
    BY <1>4, <2>2, ScheduledIs
  <2> QED
    BY <2>4, <2>5, Zenon DEF RemainingQueued
<1>11. ListedNear' /\ NearListed'
  BY <1>4 DEF SchedInv, ListedNear, NearListed
<1>12. ListsOK(users_pre_filtered') /\ QueueOK(users_pending')
  BY <1>0, <1>4
<1> QED
  BY <1>8, <1>9, <1>10, <1>11, <1>12 DEF SchedInv

\* The list pt refers to: attached or kept, it has no repetition.
LEMMA PtUsersUnique ==
    ASSUME SchedInv, ptJob.busy
    PROVE  UniqueList(pt_users)
<1>1. CASE ptJob.attached
  <2>1. pt_users = users_pre_filtered[ptJob.aggr] /\ ptJob.aggr \in Aggrs
    BY <1>1 DEF pt_users, SchedInv, PtInv
  <2>2. ListsOK(users_pre_filtered)
    BY DEF SchedInv
  <2> QED
    BY <2>1, <2>2, ListsUnique
<1>2. CASE ~ptJob.attached
  <2>1. pt_users = ptJob.kept /\ ptJob.kept \in Seq(Users) /\ IsInjective(ptJob.kept)
    BY <1>2 DEF pt_users, SchedInv, SchedTypes, PtJobs, PtInv
  <2> QED
    BY <2>1 DEF UniqueList
<1> QED
  BY <1>1, <1>2

\* pt and the idle task without work.
LEMMA NoJobs == noPt \in PtJobs /\ noJob \in Jobs
<1>1. <<>> \in Results /\ <<>> \in Seq(Users)
  BY EmptyUnique DEF UniqueList
<1>2. noPt \in PtJobs
  BY <1>1 DEF noPt, PtJobs
<1>3. noJob \in Jobs
  BY <1>1 DEF noJob, Jobs
<1> QED
  BY <1>2, <1>3

\* pt after the wait: the rest goes from pt to the queue.
LEMMA StepPtFinish == ASSUME SchedInv, pt_finish PROVE SchedInv'
<1>0. /\ SchedTypes /\ ListsOK(users_pre_filtered) /\ QueueOK(users_pending)
      /\ RemainingQueued
  BY DEF SchedInv
<1>1. /\ ~ended /\ ptJob.busy /\ Write(ptJob) /\ ptJob' = noPt
      /\ users_pending' = Append(users_pending, Rest(pt_users))
      /\ UNCHANGED <<holds, users_pre_filtered, idleJob, ended, owed, dropped>>
  BY DEF pt_finish
<1>2. UniqueList(pt_users)
  BY <1>1, PtUsersUnique
<1>3. UniqueList(Rest(pt_users))
  BY <1>2, RestIs
<1>4. /\ QueueOK(users_pending')
      /\ QueuedIn(users_pending') = QueuedIn(users_pending) \cup ToSet(Rest(pt_users))
  BY <1>0, <1>1, <1>3, QueueAppend
<1>5. hf' \in [Users -> Hfs] /\ listed' \in SUBSET (Users \X Aggrs) /\ ListedNear' /\ NearListed'
  <2>1. PICK us \in SUBSET Users : ptJob.results \in [us -> Hfs]
    BY <1>0 DEF SchedTypes, PtJobs, Results
  <2> QED
    BY <1>1, <2>1, WriteKeeps
<1>6. SchedTypes'
  BY <1>0, <1>1, <1>5, NoJobs DEF SchedTypes
<1>7. PtInv' /\ ~ptJob'.busy
  BY <1>1, EmptyUnique DEF PtInv, noPt, UniqueList
<1>8. RemainingQueued'
  <2>1. PtRest(ptJob, users_pre_filtered) = ToSet(Rest(pt_users))
    BY <1>1 DEF PtRest, pt_users
  <2>2. Scheduled \subseteq Scheduled'
    BY <1>4, <2>1, ScheduledIs
  <2> QED
    BY <1>0, <1>1, <2>2 DEF RemainingQueued
<1>9. ListsOK(users_pre_filtered')
  BY <1>0, <1>1
<1> QED
  BY <1>4, <1>5, <1>6, <1>7, <1>8, <1>9 DEF SchedInv

\* pt raising: what it drops is recorded as dropped.
LEMMA StepPtRaises ==
    ASSUME SchedInv, NEW a \in Aggrs, pt_raises(a)
    PROVE  SchedInv'
<1> DEFINE rest == ToSet(Rest(users_pre_filtered[a]))
<1>0. /\ SchedTypes /\ ListsOK(users_pre_filtered) /\ QueueOK(users_pending)
      /\ RemainingQueued /\ PtInv /\ ListedNear /\ NearListed
  BY DEF SchedInv
<1>1. /\ ~ended /\ ended' = (counter + 1 >= MaxFailures)
      /\ dropped' = dropped \cup rest /\ owed' = owed \cup rest
      /\ UNCHANGED <<hf, holds, users_pre_filtered, users_pending, ptJob, idleJob, listed>>
  BY DEF pt_raises
<1>2. rest \subseteq Users
  BY <1>0, ListsUnique, RestIs
<1> HIDE DEF rest
<1>3. ended' \in BOOLEAN
  BY <1>1
<1>4. SchedTypes'
  BY <1>0, <1>1, <1>2, <1>3 DEF SchedTypes
<1>5. RemainingQueued'
  <2>1. Scheduled' = Scheduled
    BY <1>1, ScheduledIs
  <2>2. owed' \ dropped' \subseteq owed \ dropped
    BY <1>1
  <2> QED
    BY <1>0, <1>1, <2>1, <2>2 DEF RemainingQueued
<1>6. ListsOK(users_pre_filtered') /\ QueueOK(users_pending') /\ PtInv'
  BY <1>0, <1>1 DEF PtInv
<1>7. ListedNear' /\ NearListed'
  BY <1>0, <1>1 DEF ListedNear, NearListed
<1> QED
  BY <1>4, <1>5, <1>6, <1>7 DEF SchedInv

\* The idle task takes a list: its users are computed, so owed no more.
LEMMA StepIdlePending == ASSUME SchedInv, idle_pending PROVE SchedInv'
<1> DEFINE batch == ToSet(get_data_from_queue)
<1>0. /\ SchedTypes /\ ListsOK(users_pre_filtered) /\ QueueOK(users_pending)
      /\ RemainingQueued /\ PtInv /\ ListedNear /\ NearListed
  BY DEF SchedInv
<1>1. PICK res \in [batch -> Hfs] :
         idleJob' = [busy |-> TRUE, results |-> res, outdated |-> {}]
  BY DEF idle_pending
<1>2. /\ ~ended /\ owed' = owed \ batch /\ dropped' = dropped \ batch
      /\ users_pending' = Taken
      /\ UNCHANGED <<hf, holds, users_pre_filtered, ptJob, ended, listed>>
  BY DEF idle_pending
<1>3. /\ QueueOK(Taken) /\ batch \subseteq Users
      /\ QueuedIn(users_pending) = batch \cup QueuedIn(Taken)
  BY <1>0, QueueTaken
<1> HIDE DEF batch
<1>4. res \in Results
  BY <1>3 DEF Results
<1>5. idleJob' \in Jobs
  BY <1>1, <1>4 DEF Jobs
<1>6. SchedTypes'
  BY <1>0, <1>2, <1>5 DEF SchedTypes
<1>7. RemainingQueued'
  <2>1. Scheduled \subseteq batch \cup Scheduled'
    BY <1>2, <1>3, ScheduledIs
  <2>2. owed' \ dropped' \subseteq (owed \ dropped) \ batch
    BY <1>2
  <2> QED
    BY <1>0, <1>2, <2>1, <2>2 DEF RemainingQueued
<1>8. ListsOK(users_pre_filtered') /\ QueueOK(users_pending') /\ PtInv'
  BY <1>0, <1>2, <1>3 DEF PtInv
<1>9. ListedNear' /\ NearListed'
  BY <1>0, <1>2 DEF ListedNear, NearListed
<1> QED
  BY <1>6, <1>7, <1>8, <1>9 DEF SchedInv

\* The idle task after the wait.
LEMMA StepIdleFinish == ASSUME SchedInv, idle_finish PROVE SchedInv'
<1>0. /\ SchedTypes /\ ListsOK(users_pre_filtered) /\ QueueOK(users_pending)
      /\ RemainingQueued /\ PtInv
  BY DEF SchedInv
<1>1. /\ Write(idleJob) /\ idleJob' = noJob
      /\ UNCHANGED <<holds, users_pre_filtered, users_pending, ptJob, ended, owed, dropped>>
  BY DEF idle_finish
<1>2. hf' \in [Users -> Hfs] /\ listed' \in SUBSET (Users \X Aggrs) /\ ListedNear' /\ NearListed'
  <2>1. PICK us \in SUBSET Users : idleJob.results \in [us -> Hfs]
    BY <1>0 DEF SchedTypes, Jobs, Results
  <2> QED
    BY <1>1, <2>1, WriteKeeps
<1>3. SchedTypes'
  BY <1>0, <1>1, <1>2, NoJobs DEF SchedTypes
<1>4. RemainingQueued'
  <2>1. Scheduled' = Scheduled
    BY <1>1, ScheduledIs
  <2> QED
    BY <1>0, <1>1, <2>1 DEF RemainingQueued
<1>5. ListsOK(users_pre_filtered') /\ QueueOK(users_pending') /\ PtInv'
  BY <1>0, <1>1 DEF PtInv
<1> QED
  BY <1>2, <1>3, <1>4, <1>5 DEF SchedInv

\* The idle task raising ends the program.
LEMMA StepIdleRaises == ASSUME SchedInv, idle_raises PROVE SchedInv'
<1>0. /\ SchedTypes /\ ListsOK(users_pre_filtered) /\ QueueOK(users_pending)
      /\ PtInv /\ ListedNear /\ NearListed
  BY DEF SchedInv
<1>1. /\ users_pending' = Taken /\ ended' = TRUE
      /\ UNCHANGED <<hf, holds, users_pre_filtered, ptJob, idleJob, owed, dropped, listed>>
  BY DEF idle_raises
<1>2. QueueOK(Taken)
  BY <1>0, QueueTaken
<1>3. SchedTypes'
  BY <1>0, <1>1 DEF SchedTypes
<1>4. RemainingQueued'
  BY <1>1 DEF RemainingQueued
<1>5. ListsOK(users_pre_filtered') /\ QueueOK(users_pending') /\ PtInv'
  BY <1>0, <1>1, <1>2 DEF PtInv
<1>6. ListedNear' /\ NearListed'
  BY <1>0, <1>1 DEF ListedNear, NearListed
<1> QED
  BY <1>3, <1>4, <1>5, <1>6 DEF SchedInv

\* An empty list taken from the queue takes nobody from it.
LEMMA EmptyTaken ==
    ASSUME QueueOK(users_pending), get_data_from_queue = <<>>
    PROVE  QueueOK(Taken) /\ QueuedIn(Taken) = QueuedIn(users_pending)
<1>1. ToSet(<<>>) = {}
  BY DEF ToSet
<1>2. /\ QueueOK(Taken)
      /\ QueuedIn(users_pending) = ToSet(get_data_from_queue) \cup QueuedIn(Taken)
  BY QueueTaken
<1> QED
  BY <1>1, <1>2

\* Task 3 without work.
LEMMA StepIdleNothing == ASSUME SchedInv, idle_nothing PROVE SchedInv'
<1>0. /\ SchedTypes /\ ListsOK(users_pre_filtered) /\ QueueOK(users_pending)
      /\ RemainingQueued /\ PtInv /\ ListedNear /\ NearListed
  BY DEF SchedInv
<1>1. /\ get_data_from_queue = <<>> /\ users_pending' = Taken
      /\ UNCHANGED <<hf, holds, users_pre_filtered, ptJob, idleJob, ended, owed, dropped, listed>>
  BY DEF idle_nothing
<1>2. QueueOK(Taken) /\ QueuedIn(Taken) = QueuedIn(users_pending)
  BY <1>0, <1>1, EmptyTaken
<1>3. SchedTypes'
  BY <1>0, <1>1 DEF SchedTypes
<1>4. RemainingQueued'
  <2>1. Scheduled' = Scheduled
    BY <1>1, <1>2, ScheduledIs
  <2> QED
    BY <1>0, <1>1, <2>1 DEF RemainingQueued
<1>5. ListsOK(users_pre_filtered') /\ QueueOK(users_pending') /\ PtInv'
  BY <1>0, <1>1, <1>2 DEF PtInv
<1>6. ListedNear' /\ NearListed'
  BY <1>0, <1>1 DEF ListedNear, NearListed
<1> QED
  BY <1>3, <1>4, <1>5, <1>6 DEF SchedInv

\* Switch 1.
LEMMA StepIdleSample == ASSUME SchedInv, idle_sample PROVE SchedInv'
<1>0. /\ SchedTypes /\ ListsOK(users_pre_filtered) /\ QueueOK(users_pending)
      /\ RemainingQueued /\ PtInv
  BY DEF SchedInv
<1>1. PICK us \in SUBSET {u \in SampledUsers : NotNear(hf[u])} : \E res \in [us -> Hfs] :
         /\ Write([results |-> res, outdated |-> {}])
         /\ owed' = owed \ us
         /\ dropped' = dropped \ us
  BY Zenon DEF idle_sample
<1>2. PICK res \in [us -> Hfs] :
         /\ Write([results |-> res, outdated |-> {}])
         /\ owed' = owed \ us
         /\ dropped' = dropped \ us
  BY <1>1, Zenon
<1>3. /\ ~ended /\ get_data_from_queue = <<>> /\ users_pending' = Taken
      /\ UNCHANGED <<holds, users_pre_filtered, ptJob, idleJob, ended>>
  BY DEF idle_sample
<1>4. QueueOK(Taken) /\ QueuedIn(Taken) = QueuedIn(users_pending)
  BY <1>0, <1>3, EmptyTaken
<1>5. hf' \in [Users -> Hfs] /\ listed' \in SUBSET (Users \X Aggrs) /\ ListedNear' /\ NearListed'
  <2> DEFINE job == [results |-> res, outdated |-> {}]
  <2>1. Write(job) /\ job.results \in [us -> Hfs]
    BY <1>2
  <2> HIDE DEF job
  <2> QED
    BY <1>3, <2>1, WriteKeeps
<1>6. SchedTypes'
  BY <1>0, <1>2, <1>3, <1>5 DEF SchedTypes
<1>7. RemainingQueued'
  <2>1. Scheduled' = Scheduled
    BY <1>3, <1>4, ScheduledIs
  <2>2. owed' \ dropped' \subseteq owed \ dropped
    BY <1>2
  <2> QED
    BY <1>0, <1>3, <2>1, <2>2 DEF RemainingQueued
<1>8. ListsOK(users_pre_filtered') /\ QueueOK(users_pending') /\ PtInv'
  BY <1>0, <1>3, <1>4 DEF PtInv
<1> QED
  BY <1>5, <1>6, <1>7, <1>8 DEF SchedInv

\* Switch 3: pt keeps the list it looked up, and the new one has every near user.
LEMMA StepIdlePrefilter ==
    ASSUME SchedInv, NEW a \in Aggrs, idle_prefilter(a)
    PROVE  SchedInv'
<1> DEFINE new == users_trimming(users_filtering(a), hf)
           old == users_pre_filtered[a]
<1>0. /\ SchedTypes /\ ListsOK(users_pre_filtered) /\ QueueOK(users_pending)
      /\ RemainingQueued /\ PtInv /\ ListedNear /\ NearListed
  BY DEF SchedInv
<1>1. /\ ~ended /\ get_data_from_queue = <<>> /\ users_pending' = Taken
      /\ users_pre_filtered' = [users_pre_filtered EXCEPT ![a] = new]
      /\ ptJob' = IF ptJob.busy /\ ptJob.attached /\ ptJob.aggr = a
                  THEN [ptJob EXCEPT !.attached = FALSE, !.kept = old]
                  ELSE ptJob
      /\ UNCHANGED <<hf, holds, idleJob, ended, owed, dropped, listed>>
  BY DEF idle_prefilter
<1>2. QueueOK(Taken) /\ QueuedIn(Taken) = QueuedIn(users_pending)
  BY <1>0, <1>1, EmptyTaken
<1>3. hf \in [Users -> Hfs] /\ ptJob \in PtJobs
  BY <1>0 DEF SchedTypes
<1>4. /\ UniqueList(new)
      /\ \A u \in Users : a \in holds[u] /\ Near(hf[u]) => Contains(new, u)
  BY <1>3, Rebuilt
<1>5. UniqueList(old)
  BY <1>0, ListsUnique
<1> HIDE DEF new, old
<1>6. \A b \in Aggrs : users_pre_filtered'[b] = IF b = a THEN new ELSE users_pre_filtered[b]
  BY <1>0, <1>1 DEF ListsOK
<1>7. ListsOK(users_pre_filtered')
  <2>1. users_pre_filtered' \in [Aggrs -> Seq(Users)]
    BY <1>0, <1>1, <1>4 DEF ListsOK, UniqueList
  <2> QED
    BY <1>0, <1>4, <1>6, <2>1 DEF ListsOK, UniqueList
<1>8. ptJob' \in PtJobs /\ PtInv'
       /\ PtRest(ptJob', users_pre_filtered') = PtRest(ptJob, users_pre_filtered)
  <2>1. CASE ptJob.busy /\ ptJob.attached /\ ptJob.aggr = a
    <3>1. /\ ptJob' \in PtJobs /\ ptJob'.busy /\ ~ptJob'.attached
          /\ ptJob'.kept = old /\ ptJob'.aggr = a
      BY <1>1, <1>3, <1>5, <2>1 DEF PtJobs, UniqueList
    <3>2. PtInv'
      BY <1>5, <3>1 DEF PtInv, UniqueList
    <3>3. PtRest(ptJob', users_pre_filtered') = PtRest(ptJob, users_pre_filtered)
      BY <2>1, <3>1 DEF PtRest, old
    <3> QED
      BY <3>1, <3>2, <3>3
  <2>2. CASE ~(ptJob.busy /\ ptJob.attached /\ ptJob.aggr = a)
    <3>1. ptJob' = ptJob
      BY <1>1, <2>2
    <3>2. ptJob.busy /\ ptJob.attached =>
             users_pre_filtered'[ptJob.aggr] = users_pre_filtered[ptJob.aggr]
      BY <1>0, <1>6, <2>2 DEF PtInv
    <3>3. PtRest(ptJob', users_pre_filtered') = PtRest(ptJob, users_pre_filtered)
      BY <3>1, <3>2 DEF PtRest
    <3> QED
      BY <1>0, <1>3, <3>1, <3>3 DEF PtInv
  <2> QED
    BY <2>1, <2>2
<1>9. SchedTypes'
  BY <1>0, <1>1, <1>8 DEF SchedTypes
<1>10. RemainingQueued'
  <2>1. Scheduled' = Scheduled
    BY <1>1, <1>2, <1>8, ScheduledIs
  <2> QED
    BY <1>0, <1>1, <2>1 DEF RemainingQueued
<1>11. NearListed'
  <2>1. ASSUME NEW p \in listed
        PROVE  Contains(users_pre_filtered'[p[2]], p[1])
    <3>1. p[1] \in Users /\ p[2] \in Aggrs /\ Near(hf[p[1]]) /\ p[2] \in holds[p[1]]
      BY <1>0 DEF SchedTypes, ListedNear
    <3>2. CASE p[2] = a
      BY <1>4, <1>6, <3>1, <3>2
    <3>3. CASE p[2] # a
      BY <1>0, <1>6, <3>1, <3>3 DEF NearListed
    <3> QED
      BY <3>2, <3>3
  <2> QED
    BY <1>1, <2>1 DEF NearListed
<1>12. ListedNear' /\ QueueOK(users_pending')
  BY <1>0, <1>1, <1>2 DEF ListedNear
<1> QED
  BY <1>7, <1>8, <1>9, <1>10, <1>11, <1>12 DEF SchedInv

\* A header changes nothing of this.
LEMMA StepOnMessage == ASSUME SchedInv, on_message PROVE SchedInv'
<1>0. /\ SchedTypes /\ ListsOK(users_pre_filtered) /\ QueueOK(users_pending)
      /\ RemainingQueued /\ PtInv /\ ListedNear /\ NearListed
  BY DEF SchedInv
<1>1. UNCHANGED <<hf, holds, users_pre_filtered, users_pending, ptJob, idleJob, ended, owed,
                  dropped, listed>>
  BY DEF on_message
<1>2. Scheduled' = Scheduled
  BY <1>1, ScheduledIs
<1>3. SchedTypes' /\ PtInv' /\ ListedNear' /\ NearListed' /\ RemainingQueued'
  BY <1>0, <1>1, <1>2
     DEF SchedTypes, PtInv, ListedNear, NearListed, RemainingQueued
<1> QED
  BY <1>0, <1>1, <1>3 DEF SchedInv

\* A message with logs: who comes near is inserted into the lists, in the one that
\* pt refers to as well, and pt's rest only grows.
LEMMA StepCallback ==
    ASSUME SchedInv, NEW us \in SUBSET Users, users_subscribe_callback(us)
    PROVE  SchedInv'
<1>0. /\ SchedTypes /\ ListsOK(users_pre_filtered) /\ QueueOK(users_pending)
      /\ RemainingQueued /\ PtInv /\ ListedNear /\ NearListed
  BY DEF SchedInv
<1>1. PICK own \in Extended(us), res \in [us -> Hfs] :
         holds' = own /\ Listed(us, res, own, users_target(us, res))
  BY Zenon DEF users_subscribe_callback
<1> DEFINE target == users_target(us, res)
           filtered == users_trimming(target, hf')
           new(a) == insert_all(users_pre_filtered[a], a, filtered, hf', own)
<1>2. /\ ~ended /\ owed' = owed \ us /\ dropped' = dropped \ us
      /\ ptJob' = [ptJob EXCEPT !.outdated = @ \cup (us \cap DOMAIN ptJob.results)]
      /\ idleJob' = [idleJob EXCEPT !.outdated = @ \cup (us \cap DOMAIN idleJob.results)]
      /\ UNCHANGED <<users_pending, ended>>
  BY DEF users_subscribe_callback
<1>3. /\ hf' = write_health_factor(hf, res)
      /\ users_pre_filtered' = [a \in Aggrs |-> new(a)]
      /\ listed' = {p \in listed : Near(hf'[p[1]])}
                      \cup {p \in us \X Aggrs : /\ NotNear(hf[p[1]]) /\ Near(hf'[p[1]])
                                                /\ p[2] \in own[p[1]]}
  BY <1>1, Zenon DEF Listed
<1>19. /\ holds' = own /\ own \in [Users -> SUBSET Aggrs]
       /\ \A u \in Users : holds[u] \subseteq own[u]
  BY <1>1 DEF Extended
<1>4. hf' \in [Users -> Hfs] /\ hf' \in [Users -> Nat]
  <2>1. hf' \in [Users -> Hfs]
    BY <1>0, <1>3, WriteTypes DEF SchedTypes
  <2> QED
    BY <2>1, SchedulerAssumption
<1>5. target \in SUBSET Users /\ target = {u \in us : NotNear(hf[u])}
  BY DEF users_target
<1>6. /\ UniqueList(filtered)
      /\ \A u : Contains(filtered, u) <=> u \in target /\ Near(hf'[u])
  <2> DEFINE h == hf'
  <2>1. h \in [Users -> Nat]
    BY <1>4
  <2> HIDE DEF target, h
  <2>2. /\ UniqueList(users_trimming(target, h))
        /\ \A u : Contains(users_trimming(target, h), u) <=> u \in target /\ Near(h[u])
    BY <1>5, <2>1, TrimmingIs
  <2> QED
    BY <2>2 DEF h
<1> HIDE DEF target, filtered
<1>7. ASSUME NEW a \in Aggrs
      PROVE  /\ UniqueList(new(a)) /\ Later(users_pre_filtered[a], new(a))
             /\ \A u : Contains(users_pre_filtered[a], u) => Contains(new(a), u)
             /\ \A u : Contains(filtered, u) /\ a \in own[u] => Contains(new(a), u)
  <2>1. UniqueList(users_pre_filtered[a]) /\ filtered \in Seq(Users)
    BY <1>0, <1>6, ListsUnique DEF UniqueList
  <2>2. Filled(users_pre_filtered[a], new(a), a, filtered, Len(filtered), own)
    BY <2>1, InsertAllFills
  <2> HIDE DEF new
  <2>3. /\ UniqueList(new(a)) /\ Later(users_pre_filtered[a], new(a))
        /\ \A k \in 1..Len(filtered) :
              a \in own[filtered[k]] => Contains(new(a), filtered[k])
    BY <2>2, Zenon DEF Filled
  <2>4. \A u : Contains(users_pre_filtered[a], u) => Contains(new(a), u)
    BY <2>1, <2>3, LaterIs DEF UniqueList
  <2>5. \A u : Contains(filtered, u) /\ a \in own[u] => Contains(new(a), u)
    <3> SUFFICES ASSUME NEW u, Contains(filtered, u), a \in own[u]
                 PROVE  Contains(new(a), u)
      OBVIOUS
    <3>1. PICK k \in 1..Len(filtered) : filtered[k] = u
      BY Zenon DEF Contains
    <3> QED
      BY <2>3, <3>1, Zenon
  <2> QED
    BY <2>3, <2>4, <2>5
<1> HIDE DEF new
<1>8. \A a \in Aggrs : users_pre_filtered'[a] = new(a)
  BY <1>3
<1>9. ListsOK(users_pre_filtered')
  <2>1. users_pre_filtered' \in [Aggrs -> Seq(Users)]
    BY <1>3, <1>7 DEF UniqueList
  <2> QED
    BY <1>7, <1>8, <2>1 DEF ListsOK, UniqueList
<1>10. /\ ptJob' \in PtJobs /\ ptJob'.busy = ptJob.busy /\ ptJob'.attached = ptJob.attached
       /\ ptJob'.aggr = ptJob.aggr /\ ptJob'.kept = ptJob.kept
  BY <1>0, <1>2 DEF SchedTypes, PtJobs
<1>11. idleJob' \in Jobs
  BY <1>0, <1>2 DEF SchedTypes, Jobs
<1>12. listed' \in SUBSET (Users \X Aggrs)
  <2>1. \A p \in listed' : p \in listed \/ p \in us \X Aggrs
    BY <1>3, Zenon
  <2> QED
    BY <1>0, <2>1 DEF SchedTypes
<1>13. SchedTypes'
  BY <1>0, <1>2, <1>4, <1>10, <1>11, <1>12, <1>19 DEF SchedTypes
<1>14. PtInv'
  BY <1>0, <1>10 DEF PtInv
<1>20. ASSUME NEW p \in listed'
       PROVE  /\ Near(hf'[p[1]])
              /\ p \in listed \/ (p[1] \in us /\ NotNear(hf[p[1]]) /\ p[2] \in own[p[1]])
  <2>1. CASE p \in listed /\ Near(hf'[p[1]])
    BY <2>1
  <2>2. CASE /\ p \in us \X Aggrs /\ NotNear(hf[p[1]]) /\ Near(hf'[p[1]])
             /\ p[2] \in own[p[1]]
    <3>1. p[1] \in us
      BY <2>2
    <3> QED
      BY <2>2, <3>1
  <2> QED
    BY <1>3, <2>1, <2>2, Zenon
<1>15. ListedNear'
  <2>1. ASSUME NEW p \in listed' PROVE Near(hf'[p[1]]) /\ p[2] \in holds'[p[1]]
    <3>1. CASE p \in listed
      <4>1. p[1] \in Users /\ p[2] \in holds[p[1]]
        BY <1>0, <3>1 DEF SchedTypes, ListedNear
      <4>2. p[2] \in holds'[p[1]]
        BY <1>19, <4>1
      <4> QED
        BY <1>20, <4>2, Zenon
    <3>2. CASE p \notin listed
      BY <1>19, <1>20, <3>2, Zenon
    <3> QED
      BY <3>1, <3>2
  <2> QED
    BY <2>1, Zenon DEF ListedNear
<1>16. NearListed'
  <2>1. ASSUME NEW p \in listed'
        PROVE  Contains(users_pre_filtered'[p[2]], p[1])
    <3>1. p[1] \in Users /\ p[2] \in Aggrs
      BY <1>12
    <3>2. CASE p \in listed
      BY <1>0, <1>7, <1>8, <3>1, <3>2 DEF NearListed
    <3>3. CASE p \notin listed
      <4>1. p[1] \in us /\ NotNear(hf[p[1]]) /\ Near(hf'[p[1]]) /\ p[2] \in own[p[1]]
        BY <1>20, <3>3, Zenon
      <4>2. Contains(filtered, p[1])
        BY <1>5, <1>6, <4>1
      <4> QED
        BY <1>7, <1>8, <3>1, <4>1, <4>2
    <3> QED
      BY <3>2, <3>3
  <2> QED
    BY <2>1, Zenon DEF NearListed
<1>17. RemainingQueued'
  <2>1. PtRest(ptJob, users_pre_filtered) \subseteq PtRest(ptJob', users_pre_filtered')
    <3>1. CASE ptJob.busy /\ ptJob.attached
      <4> DEFINE a == ptJob.aggr
      <4>1. a \in Aggrs
        BY <1>0, <3>1 DEF PtInv
      <4>2. UniqueList(users_pre_filtered[a])
        BY <1>0, <4>1, ListsUnique
      <4>3. ToSet(Rest(users_pre_filtered[a])) \subseteq ToSet(Rest(new(a)))
        <5> HIDE DEF a
        <5> QED
          BY <1>7, <4>1, <4>2, RestGrows
      <4>4. /\ PtRest(ptJob, users_pre_filtered) = ToSet(Rest(users_pre_filtered[a]))
            /\ PtRest(ptJob', users_pre_filtered') = ToSet(Rest(new(a)))
        BY <1>8, <1>10, <3>1, <4>1 DEF PtRest
      <4> QED
        BY <4>3, <4>4
    <3>2. CASE ~(ptJob.busy /\ ptJob.attached)
      BY <1>10, <3>2 DEF PtRest
    <3> QED
      BY <3>1, <3>2
  <2>2. Scheduled \subseteq Scheduled'
    BY <1>2, <2>1, ScheduledIs
  <2>3. owed' \ dropped' \subseteq owed \ dropped
    BY <1>2
  <2> QED
    BY <1>0, <1>2, <2>2, <2>3 DEF RemainingQueued
<1>18. QueueOK(users_pending')
  BY <1>0, <1>2
<1> QED
  BY <1>9, <1>13, <1>14, <1>15, <1>16, <1>17, <1>18 DEF SchedInv

\* A message whose callback raises: the reserves stay, nothing else has changed.
LEMMA StepCallbackRaises ==
    ASSUME SchedInv, NEW us \in SUBSET Users, users_subscribe_callback_raises(us)
    PROVE  SchedInv'
<1>0. /\ SchedTypes /\ ListsOK(users_pre_filtered) /\ QueueOK(users_pending)
      /\ RemainingQueued /\ PtInv /\ ListedNear /\ NearListed
  BY DEF SchedInv
<1>1. UNCHANGED <<hf, users_pre_filtered, users_pending, ptJob, idleJob, ended, owed,
                  dropped, listed>>
  BY DEF users_subscribe_callback_raises
<1>2. /\ holds' \in [Users -> SUBSET Aggrs]
      /\ \A u \in Users : holds[u] \subseteq holds'[u]
  BY DEF users_subscribe_callback_raises, Extended
<1>3. Scheduled' = Scheduled
  BY <1>1, ScheduledIs
<1>4. ListedNear'
  <2>1. ASSUME NEW p \in listed PROVE p[2] \in holds'[p[1]]
    <3>1. p[1] \in Users /\ p[2] \in holds[p[1]]
      BY <1>0 DEF SchedTypes, ListedNear
    <3> QED
      BY <1>2, <3>1
  <2> QED
    BY <1>0, <1>1, <2>1 DEF ListedNear
<1>5. SchedTypes'
  BY <1>0, <1>1, <1>2 DEF SchedTypes
<1>6. PtInv' /\ NearListed' /\ RemainingQueued'
  BY <1>0, <1>1, <1>3 DEF PtInv, NearListed, RemainingQueued
<1> QED
  BY <1>0, <1>1, <1>4, <1>5, <1>6 DEF SchedInv

\* Every step keeps the invariant.
LEMMA StepSched == SchedInv /\ [Next]_vars => SchedInv'
<1> SUFFICES ASSUME SchedInv, [Next]_vars PROVE SchedInv'
  OBVIOUS
<1>1. CASE \E a \in Aggrs : pt_start(a) \/ pt_raises(a) \/ idle_prefilter(a)
  BY <1>1, StepPtStart, StepPtRaises, StepIdlePrefilter
<1>2. CASE pt_finish
  BY <1>2, StepPtFinish
<1>3. CASE idle_pending
  BY <1>3, StepIdlePending
<1>4. CASE idle_finish
  BY <1>4, StepIdleFinish
<1>5. CASE idle_raises
  BY <1>5, StepIdleRaises
<1>6. CASE idle_nothing
  BY <1>6, StepIdleNothing
<1>7. CASE idle_sample
  BY <1>7, StepIdleSample
<1>8. CASE on_message
  BY <1>8, StepOnMessage
<1>9. CASE \E us \in (SUBSET Users) \ {{}} : users_subscribe_callback(us)
  <2>1. PICK us \in (SUBSET Users) \ {{}} : users_subscribe_callback(us)
    BY <1>9
  <2>2. us \in SUBSET Users
    OBVIOUS
  <2> QED
    BY <2>1, <2>2, StepCallback
<1>11. CASE \E us \in (SUBSET Users) \ {{}} : users_subscribe_callback_raises(us)
  <2>1. PICK us \in (SUBSET Users) \ {{}} : users_subscribe_callback_raises(us)
    BY <1>11
  <2>2. us \in SUBSET Users
    OBVIOUS
  <2> QED
    BY <2>1, <2>2, StepCallbackRaises
<1>10. CASE UNCHANGED vars
  <2>0. /\ SchedTypes /\ ListsOK(users_pre_filtered) /\ QueueOK(users_pending)
        /\ RemainingQueued /\ PtInv /\ ListedNear /\ NearListed
    BY DEF SchedInv
  <2>1. UNCHANGED <<hf, holds, users_pre_filtered, users_pending, ptJob, idleJob, ended, owed,
                    dropped, listed>>
    BY <1>10 DEF vars
  <2>2. Scheduled' = Scheduled
    BY <2>1, ScheduledIs
  <2>3. SchedTypes' /\ PtInv' /\ ListedNear' /\ NearListed' /\ RemainingQueued'
    BY <2>0, <2>1, <2>2
       DEF SchedTypes, PtInv, ListedNear, NearListed, RemainingQueued
  <2> QED
    BY <2>0, <2>1, <2>3 DEF SchedInv
<1> QED
  BY <1>1, <1>2, <1>3, <1>4, <1>5, <1>6, <1>7, <1>8, <1>9, <1>10,
     <1>11 DEF Next

\* The invariant holds always.
LEMMA SchedAlways == Spec => []SchedInv
BY InitSched, StepSched, PTL DEF Spec

\* For every number of users and aggregators, every batch and however many signals
\* and messages: no pre-filtered list and no queued rest has a user twice, although
\* the log callback inserts into the list that pt is slicing (compound.py:388).
THEOREM NoUserTwiceCorrect == Spec => []NoUserTwice
<1>1. SchedInv => NoUserTwice
  BY DEF SchedInv, ListsOK, QueueOK, NoUserTwice
<1> QED
  BY <1>1, SchedAlways, PTL

\* A user whom a log brought into (1.0, 1.1) stays on the lists of the aggregators it
\* had then while its health factor is there, whichever task writes or rebuilds and
\* whatever reserves it gets meanwhile; about those it gets then nothing is claimed
\* (compound.py:375 leaves a user that is near already out).
THEOREM NearListedCorrect == Spec => []NearListed
<1>1. SchedInv => NearListed
  BY DEF SchedInv
<1> QED
  BY <1>1, SchedAlways, PTL

\* No user of a signal's list is lost between pt and the queue: it is computed, or
\* waits, unless a send raised (compound.py:1112-1147, 285-300).
THEOREM RemainingQueuedCorrect == Spec => []RemainingQueued
<1>1. SchedInv => RemainingQueued
  BY DEF SchedInv
<1> QED
  BY <1>1, SchedAlways, PTL

\* The list is one place further in front.
Nearer(i) == i > 1 /\ users_pending'[i - 1] = users_pending[i]

\* Every call of the idle task brings whoever waits one place nearer or computes it,
\* and nothing puts it back: pt appends, and logs do not touch the queue.
QueueAdvances ==
    ~ended' =>
        \A i \in 1..Len(users_pending) : \A u \in ToSet(users_pending[i]) \cap owed' :
            /\ IdleStep => Nearer(i)
            /\ Nearer(i) \/ users_pending'[i] = users_pending[i]

\* Taking the first list brings the others one place nearer.
LEMMA TakenNearer ==
    ASSUME QueueOK(users_pending), users_pending' = Taken,
           ToSet(get_data_from_queue) \cap owed' = {},
           NEW i \in 1..Len(users_pending), NEW u \in ToSet(users_pending[i]) \cap owed'
    PROVE  Nearer(i)
<1>1. users_pending \in Seq(Seq(Users)) /\ users_pending # <<>>
  BY DEF QueueOK
<1>2. users_pending' = Tail(users_pending) /\ get_data_from_queue = users_pending[1]
  BY <1>1 DEF Taken, get_data_from_queue
<1>3. i > 1
  BY <1>1, <1>2
<1>4. Tail(users_pending)[i - 1] = users_pending[i]
  BY <1>1, <1>3
<1> QED
  BY <1>2, <1>3, <1>4 DEF Nearer

\* Each step of the scheduler.
LEMMA StepAdvances == SchedInv /\ Next => QueueAdvances
<1> SUFFICES ASSUME SchedInv, Next, ~ended',
                    NEW i \in 1..Len(users_pending),
                    NEW u \in ToSet(users_pending[i]) \cap owed'
             PROVE  /\ IdleStep => Nearer(i)
                    /\ Nearer(i) \/ users_pending'[i] = users_pending[i]
  BY DEF QueueAdvances
<1>1. QueueOK(users_pending)
  BY DEF SchedInv
<1>2. ASSUME IdleStep PROVE Nearer(i)
  <2>1. CASE idle_pending
    <3>1. users_pending' = Taken /\ owed' = owed \ ToSet(get_data_from_queue)
      BY <2>1 DEF idle_pending
    <3> QED
      BY <1>1, <3>1, TakenNearer
  <2>2. CASE users_pending' = Taken /\ get_data_from_queue = <<>>
    BY <1>1, <2>2, TakenNearer DEF ToSet
  <2>3. CASE idle_nothing
    BY <2>2, <2>3 DEF idle_nothing
  <2>4. CASE idle_sample
    BY <2>2, <2>4 DEF idle_sample
  <2>5. ASSUME NEW a \in Aggrs, idle_prefilter(a) PROVE Nearer(i)
    BY <2>2, <2>5 DEF idle_prefilter
  <2> QED
    BY <1>2, <2>1, <2>3, <2>4, <2>5 DEF IdleStep
<1> DEFINE kept == users_pending'[i] = users_pending[i]
<1>3. users_pending' = users_pending => kept
  OBVIOUS
<1>4. ASSUME pt_finish PROVE kept
  <2>1. PICK list : list = Rest(pt_users)
    OBVIOUS
  <2>2. users_pending' = Append(users_pending, list)
    BY <1>4, <2>1 DEF pt_finish
  <2>3. users_pending \in Seq(Seq(Users))
    BY <1>1 DEF QueueOK
  <2> QED
    BY <2>2, <2>3
<1>5. ASSUME NEW a \in Aggrs, pt_start(a) \/ pt_raises(a) PROVE kept
  BY <1>3, <1>5 DEF pt_start, pt_raises
<1>6. ASSUME idle_finish \/ on_message PROVE kept
  BY <1>3, <1>6 DEF idle_finish, on_message
<1>7. ASSUME NEW us \in SUBSET Users,
              users_subscribe_callback(us) \/ users_subscribe_callback_raises(us)
      PROVE  kept
  BY <1>3, <1>7 DEF users_subscribe_callback, users_subscribe_callback_raises
<1>8. ~ idle_raises
  BY DEF idle_raises
<1>9. Nearer(i) \/ kept
  BY <1>2, <1>4, <1>5, <1>6, <1>7, <1>8 DEF Next, IdleStep
<1> QED
  BY <1>2, <1>9

\* With RemainingQueuedCorrect, a user that pt left over and that waits in the i-th
\* list of the queue is computed within i calls of the idle task, whatever signals,
\* logs and headers come between: the queue is first in, first out, and an empty list
\* costs one call (compound.py:290-300).
THEOREM QueueDrains == Spec => [][QueueAdvances]_vars
<1>1. SchedInv /\ [Next]_vars => [QueueAdvances]_vars
  BY StepAdvances
<1> QED
  BY <1>1, SchedAlways, PTL DEF Spec

-----------------------------------------------------------------------------
(* What multiples of a number reach modulo a length *)

\* A remainder and its quotient.
LEMMA DivMod ==
    ASSUME NEW a \in Int, NEW d \in Nat \ {0}
    PROVE  a % d \in 0..d - 1 /\ a \div d \in Int /\ a = d * (a \div d) + (a % d)
<1>1. a % d \in 0..d - 1
  OBVIOUS
<1>2. a \div d \in Int
  OBVIOUS
<1>3. a = d * (a \div d) + (a % d)
  OBVIOUS
<1> QED
  BY <1>1, <1>2, <1>3

\* There is one remainder.
LEMMA ModUnique ==
    ASSUME NEW a \in Int, NEW d \in Nat \ {0}, NEW q \in Int, NEW r \in 0..d - 1,
           a = d * q + r
    PROVE  a % d = r
<1> DEFINE p == a \div d
           s == a % d
<1>1. s \in 0..d - 1 /\ p \in Int /\ a = d * p + s
  BY DivMod
<1> HIDE DEF p, s
<1>2. CASE p = q
  <2>1. d * p = d * q
    BY <1>2
  <2> QED
    BY <1>1, <2>1 DEF s
<1>3. CASE p <= q - 1
  <2>1. d * (q - p - 1) \in Nat
    BY <1>1, <1>3, Z3
  <2>2. d * (q - p - 1) = d * q - d * p - d
    BY <1>1
  <2>3. d * q \in Int /\ d * p \in Int
    BY <1>1
  <2> QED
    BY <1>1, <2>1, <2>2, <2>3
<1>4. CASE q <= p - 1
  <2>1. d * (p - q - 1) \in Nat
    BY <1>1, <1>4, Z3
  <2>2. d * (p - q - 1) = d * p - d * q - d
    BY <1>1
  <2>3. d * q \in Int /\ d * p \in Int
    BY <1>1
  <2> QED
    BY <1>1, <2>1, <2>2, <2>3
<1> QED
  BY <1>1, <1>2, <1>3, <1>4

\* A multiple has no remainder, and nothing else has none.
LEMMA Multiple ==
    ASSUME NEW a \in Int, NEW d \in Nat \ {0}
    PROVE  a % d = 0 <=> \E k \in Int : a = d * k
<1>1. ASSUME a % d = 0 PROVE \E k \in Int : a = d * k
  <2> DEFINE k == a \div d
             r == a % d
  <2>1. k \in Int /\ a = d * k + r /\ r = 0
    BY <1>1, DivMod
  <2> HIDE DEF k, r
  <2>2. d * k \in Int
    BY <2>1
  <2>3. a = d * k
    BY <2>1, <2>2
  <2> QED
    BY <2>1, <2>3
<1>2. ASSUME NEW k \in Int, a = d * k PROVE a % d = 0
  <2>1. a = d * k + 0 /\ 0 \in 0..d - 1
    BY <1>2
  <2> QED
    BY <2>1, ModUnique
<1> QED
  BY <1>1, <1>2

\* n is a combination of a and b.
Combines(n, a, b) == \E x, y \in Int : n = a * x + b * y

\* So is what one combination leaves of another.
LEMMA RestCombines ==
    ASSUME NEW a \in Int, NEW b \in Int, NEW c \in Int, NEW d \in Nat \ {0},
           Combines(c, a, b), Combines(d, a, b)
    PROVE  Combines(c % d, a, b)
<1>1. PICK x \in Int, y \in Int : c = a * x + b * y
  BY DEF Combines
<1>2. PICK u \in Int, v \in Int : d = a * u + b * v
  BY DEF Combines
<1> DEFINE q == c \div d
<1>3. q \in Int /\ c = d * q + (c % d) /\ c % d \in Int
  <2>1. c % d \in 0..d - 1 /\ q \in Int /\ c = d * q + (c % d)
    BY DivMod, Zenon
  <2>2. \A r \in 0..d - 1 : r \in Int
    OBVIOUS
  <2> QED
    BY <2>1, <2>2, Zenon
<1> HIDE DEF q
<1>4. d * q = a * (u * q) + b * (v * q)
  <2>1. d * q = (a * u + b * v) * q
    BY <1>2
  <2> QED
    BY <1>3, <2>1, Z3
<1>5. c % d = a * (x - u * q) + b * (y - v * q)
  <2>1. a * (x - u * q) + b * (y - v * q) = (a * x + b * y) - (a * (u * q) + b * (v * q))
    BY <1>3, Z3
  <2>2. c % d = c - d * q
    <3> DEFINE r == c % d
               t == d * q
    <3>1. t \in Int /\ r \in Int /\ c = t + r
      BY <1>3
    <3> HIDE DEF r, t
    <3>2. r = c - t
      BY <3>1
    <3> QED
      BY <3>2 DEF r, t
  <2>3. (a * x + b * y) - d * q = a * (x - u * q) + b * (y - v * q)
    BY <1>4, <2>1, Zenon
  <2>4. c - d * q = (a * x + b * y) - d * q
    BY <1>1, Zenon
  <2> QED
    BY <2>2, <2>3, <2>4, Zenon
<1>6. x - u * q \in Int /\ y - v * q \in Int
  BY <1>3
<1> QED
  BY <1>5, <1>6 DEF Combines

\* What divides both divides a combination.
LEMMA DividesCombination ==
    ASSUME NEW a \in Int, NEW b \in Int, NEW n \in Int, Combines(n, a, b),
           NEW d \in Nat \ {0}, a % d = 0, b % d = 0
    PROVE  n % d = 0
<1>1. PICK x \in Int, y \in Int : n = a * x + b * y
  BY DEF Combines
<1>2. PICK k \in Int : a = d * k
  BY Multiple
<1>3. PICK l \in Int : b = d * l
  BY Multiple
<1>4. n = d * (k * x + l * y)
  <2>1. n = (d * k) * x + (d * l) * y
    BY <1>1, <1>2, <1>3
  <2> QED
    BY <2>1, Z3
<1>5. k * x + l * y \in Int
  OBVIOUS
<1> QED
  BY <1>4, <1>5, Multiple

\* The greatest common divisor is a combination of the two numbers: the least.
LEMMA GcdIs ==
    ASSUME NEW a \in Nat \ {0}, NEW b \in Nat \ {0}
    PROVE  /\ Gcd(a, b) \in Nat \ {0}
           /\ a % Gcd(a, b) = 0 /\ b % Gcd(a, b) = 0
           /\ Combines(Gcd(a, b), a, b)
<1> DEFINE T == {n \in Nat \ {0} : Combines(n, a, b)}
           S == {d \in 1..b : a % d = 0 /\ b % d = 0}
<1>1. Combines(a, a, b) /\ Combines(b, a, b)
  <2>1. a = a * 1 + b * 0 /\ b = a * 0 + b * 1
    OBVIOUS
  <2> QED
    BY <2>1 DEF Combines
<1>2. PICK g \in T : \A n \in T : g <= n
  <2>1. T \in SUBSET Nat /\ T # {}
    BY <1>1
  <2> HIDE DEF T
  <2> QED
    BY <2>1, NatMin
<1>3. ASSUME NEW c \in Nat \ {0}, Combines(c, a, b) PROVE c % g = 0
  <2>1. Combines(c % g, a, b)
    BY <1>2, <1>3, RestCombines
  <2>2. c % g \in 0..g - 1
    <3>1. g \in Nat \ {0} /\ c \in Int
      BY <1>2
    <3> QED
      BY <3>1, DivMod, Zenon
  <2>3. c % g \notin T
    BY <1>2, <2>2
  <2> QED
    BY <2>1, <2>2, <2>3
<1>4. a % g = 0 /\ b % g = 0
  BY <1>1, <1>3
<1>5. g \in S
  BY <1>1, <1>2, <1>4
<1>6. ASSUME NEW d \in S PROVE d <= g
  <2>3. /\ d \in Nat \ {0} /\ g \in Nat \ {0} /\ g \in Int /\ a \in Int /\ b \in Int
        /\ a % d = 0 /\ b % d = 0 /\ Combines(g, a, b)
    BY <1>2
  <2> HIDE DEF S, T
  <2>1. g % d = 0
    BY <2>3, DividesCombination, ZenonT(60)
  <2>2. PICK k \in Int : g = d * k
    BY <2>1, <2>3, Multiple, Zenon
  <2>4. k >= 1
    BY <2>2, <2>3, Z3
  <2>5. d * (k - 1) \in Nat
    BY <2>3, <2>4, Z3
  <2>6. d * (k - 1) = d * k - d
    BY <2>3
  <2> QED
    BY <2>2, <2>3, <2>5, <2>6
<1>7. Gcd(a, b) = g
  <2>1. \A x \in S : (\A y \in S : x >= y) => x = g
    <3>1. \A x \in S : x \in Int
      OBVIOUS
    <3> HIDE DEF S
    <3> QED
      BY <1>5, <1>6, <3>1
  <2>2. Gcd(a, b) = CHOOSE x \in S : \A y \in S : x >= y
    BY Zenon DEF Gcd, Max
  <2>3. \A y \in S : g >= y
    <3>1. \A y \in S : y \in Int /\ g \in Int
      BY <1>2
    <3> HIDE DEF S
    <3> QED
      BY <1>6, <3>1
  <2> HIDE DEF S
  <2> QED
    BY <1>5, <2>1, <2>2, <2>3, Zenon
<1> QED
  BY <1>2, <1>4, <1>7

\* One of len multiples of a, from the w-th on, is i beyond c.
Reaches(a, c, len, w, i) == \E m \in w..w + len - 1 : (a * m + c) % len = i

\* In as many turns as the length, from any on, a step reaches one residue class
\* modulo what it has in common with the length, and all of that.
LEMMA Cycle ==
    ASSUME NEW a \in Nat \ {0}, NEW len \in Nat \ {0}, NEW c \in Int, NEW w \in Nat,
           NEW i \in 0..len - 1
    PROVE  Reaches(a, c, len, w, i) <=> (i - c) % Gcd(a, len) = 0
<1> DEFINE g == Gcd(a, len)
<1>1. g \in Nat \ {0} /\ a % g = 0 /\ len % g = 0 /\ Combines(g, a, len)
  BY GcdIs
<1> HIDE DEF g
<1>2. ASSUME NEW m \in w..w + len - 1, (a * m + c) % len = i
      PROVE  (i - c) % g = 0
  <2> DEFINE q == (a * m + c) \div len
  <2>1. q \in Int /\ a * m + c = len * q + i
    <3>1. a * m + c \in Int
      OBVIOUS
    <3> QED
      BY <1>2, <3>1, DivMod
  <2> HIDE DEF q
  <2>2. i - c = a * m + len * (-q)
    <3>1. len * (-q) = -(len * q) /\ len * q \in Int /\ a * m \in Int
      BY <2>1
    <3> QED
      BY <2>1, <3>1
  <2>3. Combines(i - c, a, len)
    <3>1. m \in Int /\ -q \in Int
      BY <2>1
    <3> QED
      BY <2>2, <3>1, Zenon DEF Combines
  <2>4. i - c \in Int /\ a \in Int /\ len \in Int
    OBVIOUS
  <2> DEFINE e == i - c
  <2>5. Combines(e, a, len) /\ e \in Int
    BY <2>3, <2>4
  <2> HIDE DEF e
  <2>6. e % g = 0
    BY <1>1, <2>4, <2>5, DividesCombination
  <2> QED
    BY <2>6 DEF e
<1>3. ASSUME (i - c) % g = 0
      PROVE  \E m \in w..w + len - 1 : (a * m + c) % len = i
  <2>0. i - c \in Int
    OBVIOUS
  <2>1. PICK k \in Int : i - c = g * k
    BY <1>1, <1>3, <2>0, Multiple, Zenon
  <2>2. PICK x \in Int, y \in Int : g = a * x + len * y
    BY <1>1 DEF Combines
  <2> DEFINE z == x * k - w
             r == z % len
             p == z \div len
             m == w + r
  <2>3. z \in Int
    OBVIOUS
  <2>4. r \in 0..len - 1 /\ p \in Int /\ z = len * p + r
    <3> HIDE DEF z
    <3> QED
      BY <2>3, DivMod
  <2>5. m \in w..w + len - 1
    BY <2>4
  <2>6. m = x * k - len * p
    <3>1. x * k \in Int /\ len * p \in Int
      BY <2>4
    <3> HIDE DEF p, r
    <3> QED
      BY <2>4, <3>1
  <2> HIDE DEF z, r, p, m
  <2>7. i - c = a * (x * k) + len * (y * k)
    <3>1. i - c = (a * x + len * y) * k
      BY <2>1, <2>2
    <3> QED
      BY <3>1, Z3
  <2>8. a * m = a * (x * k) - len * (a * p)
    <3>1. a * m = a * (x * k - len * p)
      BY <2>6
    <3> QED
      BY <2>4, <3>1, Z3
  <2>9. a * m + c = len * (-(y * k) - a * p) + i
    <3>1. len * (-(y * k) - a * p) = -(len * (y * k)) - len * (a * p)
      BY <2>4, Z3
    <3>2. /\ a * (x * k) \in Int /\ len * (y * k) \in Int /\ len * (a * p) \in Int
          /\ a * m \in Int
      BY <2>4, <2>5
    <3> QED
      BY <2>7, <2>8, <3>1, <3>2
  <2>10. -(y * k) - a * p \in Int /\ a * m + c \in Int
    BY <2>4, <2>5
  <2>11. (a * m + c) % len = i
    <3> DEFINE v == a * m + c
               n == -(y * k) - a * p
    <3>1. v = len * n + i /\ n \in Int /\ v \in Int
      BY <2>9, <2>10
    <3> HIDE DEF v, n
    <3>2. v % len = i
      BY <3>1, ModUnique
    <3> QED
      BY <3>2 DEF v
  <2> QED
    BY <2>5, <2>11
<1> QED
  BY <1>2, <1>3 DEF g, Reaches

-----------------------------------------------------------------------------
(* The users and lists of a sequence of minutes *)

\* The slices cover the users.
LEMMA LengthCovers ==
    ASSUME NEW len \in Nat \ {0}
    PROVE  length(len) * Intervals >= len
<1> DEFINE n == len + Intervals - 1
           q == n \div Intervals
<1>0. Intervals \in Nat \ {0}
  BY RoundsAssumption
<1>1. n \in Int
  BY <1>0
<1>2. q \in Int /\ n % Intervals \in 0..Intervals - 1 /\ n = Intervals * q + (n % Intervals)
  <2> HIDE DEF n
  <2> QED
    BY <1>0, <1>1, DivMod
<1>3. q * Intervals = Intervals * q /\ Intervals * q \in Int
  <2> HIDE DEF q
  <2> QED
    BY <1>0, <1>2
<1>4. Intervals * q >= len
  <2> DEFINE rest == n % Intervals
             prod == Intervals * q
  <2>1. rest \in Int /\ rest <= Intervals - 1 /\ prod \in Int /\ n = prod + rest
    BY <1>0, <1>2, <1>3
  <2> HIDE DEF rest, prod
  <2> QED
    BY <1>0, <2>1 DEF prod
<1> QED
  BY <1>3, <1>4 DEF length

\* As the number of a block is beyond the slices, a slice is always a wrapped one.
LEMMA SliceStart ==
    ASSUME NEW len \in Nat \ {0}, NEW m \in Nat \ {0}
    PROVE  left(len, BlockOf(m, 1)) = ((Num * length(len)) * m + length(len)) % len
<1> DEFINE L == length(len)
           b == BlockOf(m, 1)
           at == L * b
<1>1. L \in Nat \ {0} /\ Num \in Nat \ {0} /\ Intervals \in Nat \ {0} /\ Intervals <= Num
  BY LengthPositive, RoundsAssumption
<1>2. L * Intervals >= len /\ L * Intervals \in Nat
  BY <1>1, LengthCovers
<1>3. b = Num * m + 1
  BY DEF BlockOf
<1>4. left(len, b) = IF at > len THEN at % len ELSE at
  BY Zenon DEF left
<1> HIDE DEF L, b
<1>5. b \in Nat /\ b >= Intervals + 1
  <2>1. Num * m \in Nat /\ Num * m >= Num
    BY <1>1, Z3
  <2> QED
    BY <1>1, <1>3, <2>1
<1>6. at > len /\ at \in Nat
  <2>1. L * (b - Intervals) >= 1
    BY <1>1, <1>5, Z3
  <2>2. L * (b - Intervals) = L * b - L * Intervals /\ L * b \in Nat
    BY <1>1, <1>5
  <2> QED
    BY <1>2, <2>1, <2>2
<1>7. at = (Num * L) * m + L
  BY <1>1, <1>3, Z3
<1> HIDE DEF at
<1>8. left(len, b) = at % len
  BY <1>4, <1>6
<1> QED
  BY <1>7, <1>8 DEF b, L

\* The users of switch 1, for any number of users and from any minute on.
LEMMA SampledIs ==
    ASSUME NEW len \in Nat \ {0}, NEW w \in Nat \ {0}
    PROVE  Sampled(len, w .. w + len - 1) = Reachable(len)
<1> DEFINE L == length(len)
           a == Num * L
           at(m) == (a * m + L) % len
           window == w .. w + len - 1
<1>1. L \in Nat \ {0} /\ a \in Nat \ {0}
  BY LengthPositive, RoundsAssumption, Z3
<1>2. ASSUME NEW m \in window
      PROVE  at(m) \in 0..len - 1 /\ left(len, BlockOf(m, 1)) = at(m)
  <2>1. m \in Nat \ {0}
    OBVIOUS
  <2>2. left(len, BlockOf(m, 1)) = at(m)
    BY <2>1, SliceStart
  <2>3. a * m + L \in Int
    BY <1>1, <2>1
  <2> QED
    BY <2>2, <2>3, DivMod
<1>3. ASSUME NEW p, NEW m \in window
      PROVE  p \in get_users_sampling(len, BlockOf(m, 1))
                 <=> p \in 0..len - 1 /\ at(m) <= p /\ p < at(m) + L
  <2> DEFINE s == left(len, BlockOf(m, 1))
  <2>1. get_users_sampling(len, BlockOf(m, 1))
            = s .. (IF s + L > len THEN len ELSE s + L) - 1
    BY DEF get_users_sampling, right
  <2>2. s \in 0..len - 1 /\ s = at(m)
    BY <1>2
  <2> HIDE DEF s, at, L
  <2>3. p \in s .. (IF s + L > len THEN len ELSE s + L) - 1
            <=> p \in 0..len - 1 /\ s <= p /\ p < s + L
    <3>1. CASE s + L > len
      BY <1>1, <2>2, <3>1
    <3>2. CASE ~(s + L > len)
      BY <1>1, <2>2, <3>2
    <3> QED
      BY <3>1, <3>2
  <2> QED
    BY <2>1, <2>2, <2>3
<1>4. ASSUME NEW s \in 0..len - 1
      PROVE  (\E m \in window : at(m) = s) <=> (s - L) % Gcd(a, len) = 0
  <2>1. L \in Int /\ w \in Nat
    BY <1>1
  <2>2. (\E m \in window : at(m) = s) <=> Reaches(a, L, len, w, s)
    BY Zenon DEF Reaches
  <2> HIDE DEF a, L, at, window
  <2>3. Reaches(a, L, len, w, s) <=> (s - L) % Gcd(a, len) = 0
    BY <1>1, <1>4, <2>1, Cycle, Zenon
  <2> QED
    BY <2>2, <2>3
<1>5. Reachable(len) =
          {p \in 0..len - 1 : \E s \in {s \in 0..len - 1 : (s - L) % Gcd(a, len) = 0} :
                                  s <= p /\ p < s + L}
  BY Zenon DEF Reachable
<1>6. Sampled(len, window) = UNION {get_users_sampling(len, BlockOf(m, 1)) : m \in window}
  BY Zenon DEF Sampled
<1> HIDE DEF at, a, L, window
<1>7. ASSUME NEW p
      PROVE  p \in Sampled(len, window) <=> p \in Reachable(len)
  <2>1. p \in Sampled(len, window)
            <=> \E m \in window : p \in 0..len - 1 /\ at(m) <= p /\ p < at(m) + L
    BY <1>3, <1>6
  <2>2. p \in Reachable(len)
            <=> \E s \in 0..len - 1 : /\ \E m \in window : at(m) = s
                                      /\ p \in 0..len - 1 /\ s <= p /\ p < s + L
    BY <1>4, <1>5
  <2> QED
    BY <1>2, <2>1, <2>2, Zenon
<1> QED
  BY <1>7 DEF window

\* The lists of switch 3.
LEMMA RefreshedIs ==
    ASSUME NEW len \in Nat \ {0}, NEW w \in Nat \ {0}
    PROVE  Refreshed(len, w .. w + len - 1)
               = {i \in 0..len - 1 : (i - 3) % Gcd(Num, len) = 0}
<1> DEFINE window == w .. w + len - 1
           at(m) == (Num * m + 3) % len
<1>1. Num \in Nat \ {0}
  BY RoundsAssumption
<1>2. ASSUME NEW i \in 0..len - 1
      PROVE  (\E m \in window : at(m) = i) <=> (i - 3) % Gcd(Num, len) = 0
  <2>1. 3 \in Int /\ w \in Nat
    OBVIOUS
  <2>2. (\E m \in window : at(m) = i) <=> Reaches(Num, 3, len, w, i)
    BY Zenon DEF Reaches
  <2> HIDE DEF at, window
  <2>3. Reaches(Num, 3, len, w, i) <=> (i - 3) % Gcd(Num, len) = 0
    BY <1>1, <1>2, <2>1, Cycle, Zenon
  <2> QED
    BY <2>2, <2>3
<1>3. ASSUME NEW m \in window PROVE at(m) \in 0..len - 1
  <2>1. Num * m + 3 \in Int
    BY <1>1
  <2> QED
    BY <2>1, DivMod
<1>4. Refreshed(len, window) = {at(m) : m \in window}
  BY Zenon DEF Refreshed, get_tokens_from_aggr_index, BlockOf
<1> HIDE DEF at, window
<1> QED
  BY <1>2, <1>3, <1>4 DEF window

-----------------------------------------------------------------------------
(* The minute of the block *)

BlockInv == minute \in Minutes /\ block_num \in Nat

\* The first minute is one of the bounded ones, and headers bring no other.
LEMMA BlockAlways == Spec => []BlockInv
<1>0. /\ Num \in Nat \ {0} /\ Num > 4 /\ FirstMinute \in Nat \ {0} /\ MaxMinutes \in Nat \ {0}
  BY RoundsAssumption
<1>1. ASSUME NEW m \in Minutes, NEW k \in 0..4
      PROVE  BlockOf(m, k) \in Nat /\ BlockOf(m, k) \div Num = m
  <2>1. m \in Nat
    BY <1>0 DEF Minutes
  <2> DEFINE b == Num * m + k
             q == b \div Num
  <2>2. b \in Int /\ b \in Nat /\ Num * m \in Int
    BY <1>0, <2>1
  <2>3. b % Num = k
    <3>1. k \in 0..Num - 1
      BY <1>0
    <3> HIDE DEF b
    <3>2. b = Num * m + k
      BY DEF b
    <3> QED
      BY <1>0, <2>1, <2>2, <3>1, <3>2, ModUnique
  <2>4. q \in Int /\ b = Num * q + k
    <3> HIDE DEF b
    <3> QED
      BY <1>0, <2>2, <2>3, DivMod DEF q
  <2> HIDE DEF q
  <2>5. Num * q = Num * m
    <3>1. Num * q \in Int
      BY <1>0, <2>4
    <3> QED
      BY <2>2, <2>4, <3>1
  <2>6. q = m
    BY <1>0, <2>1, <2>4, <2>5, Z3
  <2> QED
    BY <2>2, <2>6 DEF BlockOf, q
<1>2. Init => BlockInv
  <2> SUFFICES ASSUME Init PROVE BlockInv
    OBVIOUS
  <2>1. FirstMinute \in Minutes
    BY <1>0 DEF Minutes
  <2>2. block_num = BlockOf(FirstMinute, 0)
    BY <1>0 DEF Init, BlockOf
  <2>3. 0 \in 0..4
    OBVIOUS
  <2> QED
    BY <1>1, <2>1, <2>2, <2>3 DEF BlockInv, minute
<1>3. BlockInv /\ [Next]_vars => BlockInv'
  <2> SUFFICES ASSUME BlockInv, [Next]_vars PROVE BlockInv'
    OBVIOUS
  <2>1. CASE on_message
    <3>1. PICK m \in Minutes, k \in {1, 3, 4} : block_num' = BlockOf(m, k)
      BY <2>1 DEF on_message
    <3>2. k \in 0..4
      OBVIOUS
    <3> QED
      BY <1>1, <3>1, <3>2 DEF BlockInv, minute
  <2>2. CASE block_num' = block_num
    BY <2>2 DEF BlockInv, minute
  <2>3. on_message \/ block_num' = block_num
    BY DEF Next, vars, block, pt_start, pt_finish, pt_raises, idle_pending, idle_finish,
           idle_raises, idle_nothing, idle_sample, idle_prefilter, on_message,
           users_subscribe_callback, users_subscribe_callback_raises
  <2> QED
    BY <2>1, <2>2, <2>3
<1> QED
  BY <1>2, <1>3, PTL DEF Spec

\* For every number of users up to the bound, which may be any, every number of slices
\* and every length of a minute: from wherever the program is, the users that switch 1
\* computes are one residue class, and no more minutes add one (users.py:211).
THEOREM SampledCorrect == Spec => []SampledIsReachable
<1>1. BlockInv => SampledIsReachable
  <2> SUFFICES ASSUME BlockInv PROVE SampledFrom[minute]
    BY DEF SampledIsReachable
  <2>1. minute \in Minutes /\ minute \in Nat \ {0}
    BY RoundsAssumption DEF BlockInv, Minutes
  <2>2. ASSUME NEW len \in 1..MaxSize
        PROVE  Sampled(len, minute .. minute + len - 1) = Reachable(len)
    <3>1. len \in Nat \ {0}
      BY RoundsAssumption
    <3> QED
      BY <2>1, <3>1, SampledIs, Zenon
  <2> QED
    BY <2>1, <2>2, Zenon DEF SampledFrom
<1> QED
  BY <1>1, BlockAlways, PTL

\* The lists that switch 3 rebuilds are those of one residue class modulo what the
\* blocks of a minute and the aggregators have in common (signals.py:67).
THEOREM RefreshedCorrect == Spec => []RefreshedIsClass
<1>1. BlockInv => RefreshedIsClass
  <2> SUFFICES ASSUME BlockInv PROVE RefreshedFrom[minute]
    BY DEF RefreshedIsClass
  <2>1. minute \in Minutes /\ minute \in Nat \ {0}
    BY RoundsAssumption DEF BlockInv, Minutes
  <2>2. ASSUME NEW len \in 1..MaxSize
        PROVE  Refreshed(len, minute .. minute + len - 1)
                   = {i \in 0..len - 1 : (i - 3) % Gcd(Num, len) = 0}
    <3>1. len \in Nat \ {0}
      BY RoundsAssumption
    <3> QED
      BY <2>1, <3>1, RefreshedIs, Zenon
  <2> QED
    BY <2>1, <2>2, Zenon DEF RefreshedFrom
<1> QED
  BY <1>1, BlockAlways, PTL
=============================================================================
