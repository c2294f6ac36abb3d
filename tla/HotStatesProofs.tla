--------------------------- MODULE HotStatesProofs ---------------------------
(* The live balances, for any users, reserves, logs and deliveries.  Every   *)
(* operation of the code works on the entries of one user, so the lemmas are *)
(* about one entry; the steps put them together.                             *)
EXTENDS HotStates, TLAPS, SequenceTheorems

USE HotAssumption

-----------------------------------------------------------------------------
(* One entry *)

Indexed(c) == c.debt_amount > 0 => c.debt_interest > 0

InitKeys(u) ==
    {r \in Reserves : \/ InitBalances[u][r].col_amount # 0
                      \/ InitBalances[u][r].debt_amount # 0}

\* What the objects of a user are like, whatever was delivered: its dict has one
\* object per key, the full states of an unselected user are as they were until
\* a log mentions it, and an object nobody refers to is new.
EntryInv(u, s) ==
    /\ s \in Entry
    /\ s.ownKeys \cap s.aliasKeys = {}
    /\ s.kind = "shared" <=> u \in Selected
    /\ s.kind # "own" => s.ownKeys = {} /\ s.aliasKeys = {}
    /\ u \notin Selected => s.fullKeys = InitKeys(u)
    /\ s.kind = "absent" => s.full = InitBalances[u]
    /\ \A r \in Reserves \ s.ownKeys : s.own[r] = new_reserve
    /\ \A r \in Reserves : Indexed(s.full[r]) /\ Indexed(s.own[r])

\* A CompReserve as it is created.
LEMMA NewReserve == new_reserve \in Cell /\ Indexed(new_reserve)
BY DEF new_reserve, Cell, Indexed

\* A user the full states do not know has nothing there.
LEMMA UnknownHasNothing ==
    ASSUME NEW u \in Users \ Parent
    PROVE  InitKeys(u) = {} /\ u \notin Selected
BY DEF InitKeys, new_reserve

\* A dict's keys are reserves.
LEMMA KeysAreReserves ==
    ASSUME NEW s \in Entry
    PROVE  Keys(s) \subseteq Reserves
BY DEF Keys, Entry

\* check_user_and_reserve: the reserve becomes a key, with a new object if it
\* was none, and no other object is touched.
LEMMA CheckEntry ==
    ASSUME NEW u \in Users, NEW s, EntryInv(u, s), NEW r \in Reserves,
           NEW t, t = check_user_and_reserve(s, r)
    PROVE  /\ EntryInv(u, t)
           /\ t.kind # "absent"
           /\ Keys(t) = Keys(s) \cup {r}
           /\ Get(t, r) = IF IsNew(s, r) THEN new_reserve ELSE Get(s, r)
           /\ \A q \in Reserves \ {r} :
                 Get(t, q) = Get(s, q) /\ t.full[q] = s.full[q] /\ t.own[q] = s.own[q]
           /\ s.kind = "absent" =>
                 /\ t.kind = "own" /\ t.ownKeys = {r} /\ t.aliasKeys = {}
                 /\ t.full = s.full
<1>0. s \in Entry
  BY DEF EntryInv
<1>1. CASE ~IsNew(s, r)
  <2>1. t = s /\ r \in Keys(s) /\ s.kind # "absent"
    BY <1>1 DEF check_user_and_reserve, IsNew, Keys
  <2> QED
    BY <1>1, <2>1
<1>2. CASE IsNew(s, r) /\ s.kind = "shared"
  <2>1. t = [s EXCEPT !.fullKeys = @ \cup {r}, !.full[r] = new_reserve]
    BY <1>2 DEF check_user_and_reserve
  <2>2. /\ t \in Entry /\ t.kind = "shared"
        /\ t.fullKeys = s.fullKeys \cup {r}
        /\ t.full = [s.full EXCEPT ![r] = new_reserve]
        /\ t.own = s.own /\ t.ownKeys = s.ownKeys /\ t.aliasKeys = s.aliasKeys
    <3>1. t = [fullKeys |-> s.fullKeys \cup {r},
               full |-> [s.full EXCEPT ![r] = new_reserve],
               kind |-> s.kind, ownKeys |-> s.ownKeys, own |-> s.own,
               aliasKeys |-> s.aliasKeys]
      BY <1>0, <2>1 DEF Entry
    <3>2. [s.full EXCEPT ![r] = new_reserve] \in [Reserves -> Cell]
      BY <1>0, NewReserve DEF Entry
    <3>3. /\ s.fullKeys \cup {r} \in SUBSET Reserves /\ s.ownKeys \in SUBSET Reserves
          /\ s.aliasKeys \in SUBSET Reserves /\ s.own \in [Reserves -> Cell]
      BY <1>0 DEF Entry
    <3> QED
      BY <1>2, <3>1, <3>2, <3>3 DEF Entry
  <2>3. EntryInv(u, t)
    BY <1>0, <1>2, <2>2, NewReserve DEF EntryInv, Entry
  <2>4. Keys(t) = Keys(s) \cup {r}
    BY <1>2, <2>2 DEF Keys
  <2>5. t.full[r] = new_reserve /\ \A q \in Reserves \ {r} : t.full[q] = s.full[q]
    BY <1>0, <2>2 DEF Entry
  <2> QED
    BY <1>2, <2>2, <2>3, <2>4, <2>5 DEF Get, InFull
<1>3. CASE IsNew(s, r) /\ s.kind # "shared"
  <2>1. t = [s EXCEPT !.kind = "own", !.ownKeys = @ \cup {r}, !.own[r] = new_reserve]
    BY <1>3 DEF check_user_and_reserve
  <2>2. /\ t \in Entry /\ t.kind = "own"
        /\ t.ownKeys = s.ownKeys \cup {r}
        /\ t.own = [s.own EXCEPT ![r] = new_reserve]
        /\ t.full = s.full /\ t.fullKeys = s.fullKeys /\ t.aliasKeys = s.aliasKeys
    <3>1. t = [fullKeys |-> s.fullKeys, full |-> s.full, kind |-> "own",
               ownKeys |-> s.ownKeys \cup {r},
               own |-> [s.own EXCEPT ![r] = new_reserve],
               aliasKeys |-> s.aliasKeys]
      BY <1>0, <2>1 DEF Entry
    <3>2. [s.own EXCEPT ![r] = new_reserve] \in [Reserves -> Cell]
      BY <1>0, NewReserve DEF Entry
    <3>3. /\ s.ownKeys \cup {r} \in SUBSET Reserves /\ s.fullKeys \in SUBSET Reserves
          /\ s.aliasKeys \in SUBSET Reserves /\ s.full \in [Reserves -> Cell]
      BY <1>0 DEF Entry
    <3> QED
      BY <3>1, <3>2, <3>3 DEF Entry
  <2>3. t.own[r] = new_reserve /\ \A q \in Reserves \ {r} : t.own[q] = s.own[q]
    BY <1>0, <2>2 DEF Entry
  <2>4. r \notin s.aliasKeys /\ (s.kind = "absent" \/ s.kind = "own")
    BY <1>0, <1>3 DEF EntryInv, IsNew, Keys, Entry
  <2>5. Keys(s) = s.ownKeys \cup s.aliasKeys
    BY <2>4 DEF Keys, EntryInv
  <2>6. Keys(t) = Keys(s) \cup {r}
    BY <2>2, <2>5 DEF Keys
  <2>7. EntryInv(u, t)
    <3>1. t.ownKeys \cap t.aliasKeys = {}
      BY <2>2, <2>4 DEF EntryInv
    <3>2. \A q \in Reserves \ t.ownKeys : t.own[q] = new_reserve
      BY <2>2, <2>3 DEF EntryInv
    <3>3. \A q \in Reserves : Indexed(t.full[q]) /\ Indexed(t.own[q])
      BY <2>2, <2>3, NewReserve DEF EntryInv
    <3> QED
      BY <1>3, <2>2, <3>1, <3>2, <3>3 DEF EntryInv
  <2>8. \A q \in Reserves : InFull(t, q) = InFull(s, q)
    BY <1>3, <2>2 DEF InFull
  <2>9. ~InFull(s, r)
    BY <1>3, <2>4 DEF InFull
  <2>10. s.kind = "absent" => s.ownKeys = {} /\ s.aliasKeys = {}
    BY DEF EntryInv
  <2> QED
    BY <1>3, <2>2, <2>3, <2>6, <2>7, <2>8, <2>9, <2>10 DEF Get
<1> QED
  BY <1>1, <1>2, <1>3

\* A write through a dict reaches the one object it refers to.
LEMMA PutEntry ==
    ASSUME NEW u \in Users, NEW s, EntryInv(u, s), NEW r \in Keys(s),
           NEW c \in Cell, Indexed(c), NEW t, t = Put(s, r, c)
    PROVE  /\ EntryInv(u, t)
           /\ t.kind = s.kind /\ t.fullKeys = s.fullKeys
           /\ t.ownKeys = s.ownKeys /\ t.aliasKeys = s.aliasKeys
           /\ Keys(t) = Keys(s)
           /\ Get(t, r) = c
           /\ \A q \in Reserves \ {r} :
                 Get(t, q) = Get(s, q) /\ t.full[q] = s.full[q] /\ t.own[q] = s.own[q]
           /\ ~InFull(s, r) => t.full = s.full
<1>0. s \in Entry /\ r \in Reserves /\ s.kind # "absent"
  BY KeysAreReserves DEF EntryInv, Keys
<1>1. CASE InFull(s, r)
  <2>1. /\ t \in Entry /\ t.kind = s.kind /\ t.fullKeys = s.fullKeys
        /\ t.ownKeys = s.ownKeys /\ t.aliasKeys = s.aliasKeys /\ t.own = s.own
        /\ t.full = [s.full EXCEPT ![r] = c]
    BY <1>0, <1>1 DEF Put, Entry
  <2>2. t.full[r] = c /\ \A q \in Reserves \ {r} : t.full[q] = s.full[q]
    BY <1>0, <2>1 DEF Entry
  <2>3. EntryInv(u, t)
    BY <1>0, <2>1, <2>2 DEF EntryInv
  <2>4. Keys(t) = Keys(s) /\ \A q \in Reserves : InFull(t, q) = InFull(s, q)
    BY <2>1 DEF Keys, InFull
  <2> QED
    BY <1>0, <1>1, <2>1, <2>2, <2>3, <2>4 DEF Get
<1>2. CASE ~InFull(s, r)
  <2>1. /\ t \in Entry /\ t.kind = s.kind /\ t.fullKeys = s.fullKeys
        /\ t.ownKeys = s.ownKeys /\ t.aliasKeys = s.aliasKeys /\ t.full = s.full
        /\ t.own = [s.own EXCEPT ![r] = c]
    BY <1>0, <1>2 DEF Put, Entry
  <2>2. t.own[r] = c /\ \A q \in Reserves \ {r} : t.own[q] = s.own[q]
    BY <1>0, <2>1 DEF Entry
  <2>3. r \in s.ownKeys
    BY <1>0, <1>2 DEF InFull, Keys, Entry
  <2>4. EntryInv(u, t)
    BY <1>0, <2>1, <2>2, <2>3 DEF EntryInv
  <2>5. Keys(t) = Keys(s) /\ \A q \in Reserves : InFull(t, q) = InFull(s, q)
    BY <2>1 DEF Keys, InFull
  <2> QED
    BY <1>0, <1>2, <2>1, <2>2, <2>4, <2>5 DEF Get
<1> QED
  BY <1>1, <1>2

\* += adds the balances and keeps a debt's index.
LEMMA PlusCell ==
    ASSUME NEW c \in Cell, NEW d \in Cell, Indexed(c), Indexed(d)
    PROVE  /\ Plus(c, d) \in Cell /\ Indexed(Plus(c, d))
           /\ Plus(c, d).col_amount = c.col_amount + d.col_amount
           /\ Plus(c, d).debt_amount = c.debt_amount + d.debt_amount
           /\ Plus(c, d).debt_interest =
                 IF c.debt_interest = 0 THEN d.debt_interest ELSE c.debt_interest
<1>1. /\ c.col_amount \in Int /\ d.col_amount \in Int
      /\ c.debt_amount \in Nat /\ d.debt_amount \in Nat
      /\ c.debt_interest \in Nat /\ d.debt_interest \in Nat
      /\ c.is_col_liq \in {0, 1}
  BY DEF Cell
<1>2. /\ Plus(c, d) \in Cell
      /\ Plus(c, d).col_amount = c.col_amount + d.col_amount
      /\ Plus(c, d).debt_amount = c.debt_amount + d.debt_amount
      /\ Plus(c, d).debt_interest =
            IF c.debt_interest = 0 THEN d.debt_interest ELSE c.debt_interest
  <2> DEFINE x == c.col_amount + d.col_amount
             y == c.debt_amount + d.debt_amount
             z == IF c.debt_interest = 0 THEN d.debt_interest ELSE c.debt_interest
  <2>1. x \in Int /\ y \in Nat /\ z \in Nat
    BY <1>1
  <2>2. Plus(c, d) = [c EXCEPT !.col_amount = x, !.debt_amount = y, !.debt_interest = z]
    BY Zenon DEF Plus
  <2> HIDE DEF x, y, z
  <2>3. /\ Plus(c, d) \in Cell /\ Plus(c, d).col_amount = x
        /\ Plus(c, d).debt_amount = y /\ Plus(c, d).debt_interest = z
    BY <2>1, <2>2 DEF Cell
  <2> QED
    BY <2>3 DEF x, y, z
<1> QED
  BY <1>1, <1>2 DEF Indexed

\* merge leaves no reserve of the full states out; of a user just added it keeps
\* the new object and adds the old balance to it.
LEMMA MergeEntry ==
    ASSUME NEW u \in Users, NEW s, EntryInv(u, s), s.kind # "absent",
           NEW t, t = merge(s)
    PROVE  /\ EntryInv(u, t)
           /\ t.kind = s.kind /\ t.fullKeys = s.fullKeys
           /\ t.fullKeys \subseteq Keys(t)
           /\ \A r \in Reserves : s.kind = "own" /\ s.ownKeys = {r} /\ s.aliasKeys = {} =>
                 /\ Get(t, r) = IF r \in s.fullKeys THEN Plus(s.own[r], s.full[r])
                                ELSE s.own[r]
                 /\ \A q \in Reserves \ {r} :
                       Get(t, q) = IF q \in s.fullKeys THEN s.full[q] ELSE s.own[q]
<1> DEFINE mine == IF s.kind = "own" THEN s.ownKeys ELSE {}
           same == Keys(s) \ mine
           own == [r \in Reserves |-> IF r \in s.fullKeys \cap mine
                                      THEN Plus(s.own[r], s.full[r]) ELSE s.own[r]]
           full == [r \in Reserves |-> IF r \in s.fullKeys \cap same
                                       THEN Plus(s.full[r], s.full[r]) ELSE s.full[r]]
           alias == IF s.kind = "own" THEN s.aliasKeys \cup (s.fullKeys \ mine)
                    ELSE s.aliasKeys
<1>0. s \in Entry
  BY DEF EntryInv
<1>1. t = [fullKeys |-> s.fullKeys, full |-> full, kind |-> s.kind,
           ownKeys |-> s.ownKeys, own |-> own, aliasKeys |-> alias]
  BY <1>0 DEF merge, Entry
<1>2. /\ s.full \in [Reserves -> Cell] /\ s.own \in [Reserves -> Cell]
      /\ s.fullKeys \in SUBSET Reserves /\ s.ownKeys \in SUBSET Reserves
      /\ s.aliasKeys \in SUBSET Reserves /\ alias \in SUBSET Reserves
      /\ s.kind \in {"shared", "own"}
  BY <1>0 DEF Entry
<1>3. ASSUME NEW r \in Reserves
      PROVE  /\ own[r] \in Cell /\ Indexed(own[r])
             /\ full[r] \in Cell /\ Indexed(full[r])
  <2>1. /\ s.own[r] \in Cell /\ Indexed(s.own[r])
        /\ s.full[r] \in Cell /\ Indexed(s.full[r])
    BY <1>2 DEF EntryInv
  <2> QED
    BY <2>1, PlusCell
<1>4. own \in [Reserves -> Cell] /\ full \in [Reserves -> Cell]
  BY <1>3
<1>5. \A r \in Reserves \ s.ownKeys : own[r] = new_reserve
  BY DEF EntryInv
<1>6. s.ownKeys \cap alias = {}
  BY DEF EntryInv
<1>7. s.kind # "own" => alias = {} /\ s.ownKeys = {}
  BY DEF EntryInv
<1> HIDE DEF own, full, alias
<1>8. t \in Entry
  BY <1>1, <1>2, <1>4 DEF Entry
<1>9. /\ t.fullKeys = s.fullKeys /\ t.full = full /\ t.kind = s.kind
      /\ t.ownKeys = s.ownKeys /\ t.own = own /\ t.aliasKeys = alias
  BY <1>1
<1>10. EntryInv(u, t)
  BY <1>2, <1>3, <1>5, <1>6, <1>7, <1>8, <1>9 DEF EntryInv
<1>11. t.fullKeys \subseteq Keys(t)
  BY <1>2, <1>9 DEF alias, Keys
<1>12. ASSUME NEW r \in Reserves, s.kind = "own", s.ownKeys = {r}, s.aliasKeys = {}
       PROVE  /\ Get(t, r) = IF r \in s.fullKeys THEN Plus(s.own[r], s.full[r])
                             ELSE s.own[r]
              /\ \A q \in Reserves \ {r} :
                    Get(t, q) = IF q \in s.fullKeys THEN s.full[q] ELSE s.own[q]
  <2>1. mine = {r} /\ same = {} /\ alias = s.fullKeys \ {r}
    BY <1>12 DEF alias, Keys
  <2>2. full = s.full
    BY <1>2, <2>1 DEF full
  <2>3. \A q \in Reserves : own[q] = IF q \in s.fullKeys \cap {r}
                                     THEN Plus(s.own[q], s.full[q]) ELSE s.own[q]
    BY <2>1 DEF own
  <2>4. \A q \in Reserves : InFull(t, q) <=> q \in s.fullKeys \ {r}
    BY <1>9, <1>12, <2>1 DEF InFull
  <2> QED
    BY <1>9, <2>2, <2>3, <2>4 DEF Get
<1> QED
  BY <1>9, <1>10, <1>11, <1>12

\* getAssetsIn sets the flags of all that the dict refers to, and nothing else.
LEMMA FlagsEntry ==
    ASSUME NEW u \in Users, NEW s, EntryInv(u, s), s.kind # "absent",
           NEW m \in [Reserves -> Cell], NEW t, t = SetFlags(s, m)
    PROVE  /\ EntryInv(u, t)
           /\ t.kind = s.kind /\ t.fullKeys = s.fullKeys
           /\ Keys(t) = Keys(s)
           /\ \A r \in Reserves :
                 /\ Get(t, r).col_amount = Get(s, r).col_amount
                 /\ Get(t, r).debt_amount = Get(s, r).debt_amount
                 /\ Get(t, r).debt_interest = Get(s, r).debt_interest
           /\ \A r \in Keys(t) : Get(t, r).is_col_liq = m[r].is_col_liq
<1> DEFINE Asked(r, c) == [c EXCEPT !.is_col_liq = m[r].is_col_liq]
           own == [r \in Reserves |-> IF r \in Keys(s) /\ ~InFull(s, r)
                                      THEN Asked(r, s.own[r]) ELSE s.own[r]]
           full == [r \in Reserves |-> IF r \in Keys(s) /\ InFull(s, r)
                                       THEN Asked(r, s.full[r]) ELSE s.full[r]]
<1>0. s \in Entry
  BY DEF EntryInv
<1>1. t = [fullKeys |-> s.fullKeys, full |-> full, kind |-> s.kind,
           ownKeys |-> s.ownKeys, own |-> own, aliasKeys |-> s.aliasKeys]
  BY <1>0 DEF SetFlags, Entry
<1>2. /\ s.full \in [Reserves -> Cell] /\ s.own \in [Reserves -> Cell]
      /\ s.fullKeys \in SUBSET Reserves /\ s.ownKeys \in SUBSET Reserves
      /\ s.aliasKeys \in SUBSET Reserves /\ s.kind \in {"shared", "own"}
  BY <1>0 DEF Entry
<1>3. ASSUME NEW r \in Reserves, NEW c \in Cell, Indexed(c)
      PROVE  /\ Asked(r, c) \in Cell /\ Indexed(Asked(r, c))
             /\ Asked(r, c).col_amount = c.col_amount
             /\ Asked(r, c).debt_amount = c.debt_amount
             /\ Asked(r, c).debt_interest = c.debt_interest
             /\ Asked(r, c).is_col_liq = m[r].is_col_liq
  <2>1. m[r] \in Cell
    OBVIOUS
  <2> QED
    BY <1>3, <2>1 DEF Cell, Indexed
<1> HIDE DEF Asked
<1>4. ASSUME NEW r \in Reserves
      PROVE  /\ own[r] \in Cell /\ Indexed(own[r])
             /\ full[r] \in Cell /\ Indexed(full[r])
             /\ own[r].col_amount = s.own[r].col_amount
             /\ own[r].debt_amount = s.own[r].debt_amount
             /\ own[r].debt_interest = s.own[r].debt_interest
             /\ full[r].col_amount = s.full[r].col_amount
             /\ full[r].debt_amount = s.full[r].debt_amount
             /\ full[r].debt_interest = s.full[r].debt_interest
  <2>1. /\ s.own[r] \in Cell /\ Indexed(s.own[r])
        /\ s.full[r] \in Cell /\ Indexed(s.full[r])
    BY <1>2 DEF EntryInv
  <2> QED
    BY <1>3, <2>1
<1>5. own \in [Reserves -> Cell] /\ full \in [Reserves -> Cell]
  BY <1>4
<1>6. \A r \in Reserves \ s.ownKeys : own[r] = new_reserve
  <2>1. ASSUME NEW r \in Reserves \ s.ownKeys PROVE own[r] = s.own[r]
    BY <1>2 DEF Keys, InFull
  <2> QED
    BY <2>1 DEF EntryInv
<1>7. /\ \A r \in Reserves : r \in Keys(s) /\ ~InFull(s, r)
            => own[r].is_col_liq = m[r].is_col_liq
      /\ \A r \in Reserves : r \in Keys(s) /\ InFull(s, r)
            => full[r].is_col_liq = m[r].is_col_liq
  BY <1>2, <1>3 DEF EntryInv
<1> HIDE DEF own, full
<1>8. /\ t.fullKeys = s.fullKeys /\ t.full = full /\ t.kind = s.kind
      /\ t.ownKeys = s.ownKeys /\ t.own = own /\ t.aliasKeys = s.aliasKeys
      /\ t \in Entry
  BY <1>1, <1>2, <1>5 DEF Entry
<1>9. EntryInv(u, t)
  BY <1>4, <1>6, <1>8 DEF EntryInv
<1>10. Keys(t) = Keys(s) /\ \A r \in Reserves : InFull(t, r) = InFull(s, r)
  BY <1>8 DEF Keys, InFull
<1>11. Keys(t) \subseteq Reserves
  BY <1>8, KeysAreReserves
<1> QED
  BY <1>4, <1>7, <1>8, <1>9, <1>10, <1>11 DEF Get

-----------------------------------------------------------------------------
(* What a log does to one user *)

\* The balance to compare with the chain's: until a user is in the selection,
\* that of the full states.
View(s, r) == IF s.kind = "absent" THEN s.full[r] ELSE Get(s, r)

SameCol(c, d) == c.col_amount = d.col_amount

SameDebt(c, d) ==
    /\ c.debt_amount = d.debt_amount
    /\ c.debt_amount > 0 => c.debt_interest = d.debt_interest

\* One balance is written, and merged if the user or the reserve is new.
Handled(s, u, r, c) ==
    MergeNew(Put(check_user_and_reserve(s, r), r, c), u, IsNew(s, r))

\* Every object is a CompReserve whose debt has an index.
LEMMA GetCell ==
    ASSUME NEW u \in Users, NEW s, EntryInv(u, s), NEW r \in Reserves
    PROVE  /\ Get(s, r) \in Cell /\ Indexed(Get(s, r))
           /\ View(s, r) \in Cell /\ s.full[r] \in Cell /\ Indexed(s.full[r])
<1>1. s.full[r] \in Cell /\ s.own[r] \in Cell
  BY DEF EntryInv, Entry
<1> QED
  BY <1>1 DEF EntryInv, Get, View

\* Nobody has a balance of a reserve that is not among its keys.
LEMMA NoKeyNoBalance ==
    ASSUME NEW u \in Users, NEW s, EntryInv(u, s), NEW r \in Reserves,
           IsNew(s, r), s.kind # "shared",
           s.kind = "absent" => r \notin s.fullKeys
    PROVE  /\ SameCol(new_reserve, View(s, r))
           /\ SameDebt(new_reserve, View(s, r))
           /\ View(s, r).col_amount = 0 /\ View(s, r).debt_amount = 0
<1>1. CASE s.kind = "absent"
  <2>1. u \notin Selected /\ r \notin InitKeys(u) /\ View(s, r) = InitBalances[u][r]
    BY <1>1 DEF EntryInv, View
  <2> QED
    BY <2>1 DEF InitKeys, SameCol, SameDebt, new_reserve
<1>2. CASE s.kind = "own"
  <2>1. r \notin s.ownKeys /\ r \notin s.aliasKeys
    BY <1>2 DEF IsNew, Keys
  <2>2. View(s, r) = new_reserve
    BY <1>2, <2>1 DEF View, Get, InFull, EntryInv
  <2> QED
    BY <2>2 DEF SameCol, SameDebt, new_reserve
<1> QED
  BY <1>1, <1>2 DEF EntryInv, Entry

\* A log keeps what holds of every entry and completes the keys; unless it adds
\* a balance that is there already, it changes no other reserve's balance, and
\* this one's to what was written plus what the full states had.
LEMMA HandledEntry ==
    ASSUME NEW u \in Users, NEW s, EntryInv(u, s), NEW r \in Reserves,
           NEW c \in Cell, Indexed(c), NEW t, t = Handled(s, u, r, c)
    PROVE  /\ EntryInv(u, t) /\ t.kind # "absent"
           /\ s.kind = "absent" \/ s.fullKeys \subseteq Keys(s)
                 => t.fullKeys \subseteq Keys(t)
           /\ ~(IsNew(s, r) /\ u \in Parent /\ s.kind # "absent") =>
                 /\ \A q \in Reserves \ {r} :
                       SameCol(Get(t, q), View(s, q)) /\ SameDebt(Get(t, q), View(s, q))
                 /\ Get(t, r) = IF IsNew(s, r) /\ u \in Parent /\ r \in s.fullKeys
                                THEN Plus(c, s.full[r]) ELSE c
<1> DEFINE a == check_user_and_reserve(s, r)
           b == Put(a, r, c)
<1>1. /\ EntryInv(u, a) /\ a.kind # "absent"
      /\ Keys(a) = Keys(s) \cup {r}
      /\ \A q \in Reserves \ {r} :
            Get(a, q) = Get(s, q) /\ a.full[q] = s.full[q] /\ a.own[q] = s.own[q]
      /\ s.kind = "absent" =>
            a.kind = "own" /\ a.ownKeys = {r} /\ a.aliasKeys = {} /\ a.full = s.full
  BY CheckEntry
<1>2. t = IF IsNew(s, r) /\ u \in Parent THEN merge(b) ELSE b
  BY DEF Handled, MergeNew
<1> HIDE DEF a
<1>3. /\ EntryInv(u, b)
      /\ b.kind = a.kind /\ b.fullKeys = a.fullKeys
      /\ b.ownKeys = a.ownKeys /\ b.aliasKeys = a.aliasKeys
      /\ Keys(b) = Keys(a)
      /\ Get(b, r) = c
      /\ \A q \in Reserves \ {r} :
            Get(b, q) = Get(a, q) /\ b.full[q] = a.full[q] /\ b.own[q] = a.own[q]
      /\ ~InFull(a, r) => b.full = a.full
  <2>1. r \in Keys(a)
    BY <1>1
  <2>2. b = Put(a, r, c)
    OBVIOUS
  <2>3. EntryInv(u, a)
    BY <1>1
  <2> HIDE DEF b
  <2> QED
    BY <2>1, <2>2, <2>3, PutEntry
<1> HIDE DEF b
<1>4. CASE ~IsNew(s, r)
  <2>1. t = b /\ a = s /\ s.kind # "absent"
    BY <1>2, <1>4 DEF a, check_user_and_reserve, IsNew, Keys
  <2>2. \A q \in Reserves \ {r} : Get(t, q) = View(s, q)
    BY <1>3, <2>1 DEF View
  <2> QED
    BY <1>3, <1>4, <2>1, <2>2 DEF SameCol, SameDebt
<1>5. CASE IsNew(s, r) /\ u \notin Parent
  <2>1. t = b /\ u \notin Selected /\ InitKeys(u) = {}
    BY <1>2, <1>5, UnknownHasNothing
  <2>2. t.fullKeys = {} /\ t.kind # "absent"
    BY <1>1, <1>3, <2>1 DEF EntryInv
  <2>3. ASSUME NEW q \in Reserves \ {r}
        PROVE  SameCol(Get(t, q), View(s, q)) /\ SameDebt(Get(t, q), View(s, q))
    <3>1. Get(t, q) = Get(s, q)
      BY <1>1, <1>3, <2>1
    <3>2. CASE s.kind = "absent"
      <4>1. s.ownKeys = {} /\ s.aliasKeys = {} /\ Get(s, q) = new_reserve
        BY <3>2 DEF EntryInv, Get, InFull
      <4>2. IsNew(s, q) /\ q \notin s.fullKeys
        BY <2>1, <3>2 DEF IsNew, Keys, EntryInv
      <4> QED
        BY <3>1, <3>2, <4>1, <4>2, NoKeyNoBalance
    <3>3. CASE s.kind # "absent"
      BY <3>1, <3>3 DEF View, SameCol, SameDebt
    <3> QED
      BY <3>2, <3>3
  <2> QED
    BY <1>3, <1>5, <2>1, <2>2, <2>3
<1>6. CASE IsNew(s, r) /\ u \in Parent
  <2>1. t = merge(b) /\ b.kind # "absent"
    BY <1>1, <1>2, <1>3, <1>6
  <2>2. /\ EntryInv(u, t) /\ t.kind = b.kind /\ t.fullKeys = b.fullKeys
        /\ t.fullKeys \subseteq Keys(t)
        /\ \A p \in Reserves : b.kind = "own" /\ b.ownKeys = {p} /\ b.aliasKeys = {} =>
              /\ Get(t, p) = IF p \in b.fullKeys THEN Plus(b.own[p], b.full[p])
                             ELSE b.own[p]
              /\ \A q \in Reserves \ {p} :
                    Get(t, q) = IF q \in b.fullKeys THEN b.full[q] ELSE b.own[q]
    BY <1>3, <2>1, MergeEntry
  <2>3. ASSUME s.kind = "absent"
        PROVE  /\ \A q \in Reserves \ {r} :
                     SameCol(Get(t, q), View(s, q)) /\ SameDebt(Get(t, q), View(s, q))
               /\ Get(t, r) = IF r \in s.fullKeys THEN Plus(c, s.full[r]) ELSE c
    <3>1. /\ b.kind = "own" /\ b.ownKeys = {r} /\ b.aliasKeys = {}
          /\ ~InFull(a, r) /\ ~InFull(b, r)
      BY <1>1, <1>3, <2>3 DEF InFull
    <3>2. b.full = s.full /\ b.own[r] = c
      BY <1>1, <1>3, <2>3, <3>1 DEF Get
    <3>3. u \notin Selected /\ b.fullKeys = InitKeys(u) /\ s.fullKeys = InitKeys(u)
      BY <1>3, <2>3, <3>1 DEF EntryInv
    <3>4. ASSUME NEW q \in Reserves \ {r}
          PROVE  SameCol(Get(t, q), View(s, q)) /\ SameDebt(Get(t, q), View(s, q))
      <4>1. CASE q \in s.fullKeys
        <5>1. Get(t, q) = View(s, q)
          BY <2>2, <2>3, <3>1, <3>2, <3>3, <4>1 DEF View
        <5> QED
          BY <5>1 DEF SameCol, SameDebt
      <4>2. CASE q \notin s.fullKeys
        <5>1. q \notin s.ownKeys /\ IsNew(s, q)
          BY <2>3 DEF EntryInv, IsNew, Keys
        <5>2. Get(t, q) = b.own[q] /\ b.own[q] = s.own[q] /\ s.own[q] = new_reserve
          BY <1>1, <1>3, <2>2, <3>1, <3>3, <4>2, <5>1 DEF EntryInv
        <5> QED
          BY <2>3, <4>2, <5>1, <5>2, NoKeyNoBalance
      <4> QED
        BY <4>1, <4>2
    <3> QED
      BY <2>2, <3>1, <3>2, <3>3, <3>4
  <2> QED
    BY <1>6, <2>1, <2>2, <2>3
<1> QED
  BY <1>4, <1>5, <1>6

\* A balance as it is before a log writes it.
Before(s, r) == Get(check_user_and_reserve(s, r), r)

\* The object a log writes to, just created or not.
LEMMA BeforeCell ==
    ASSUME NEW u \in Users, NEW s, EntryInv(u, s), NEW r \in Reserves
    PROVE  /\ Before(s, r) \in Cell /\ Indexed(Before(s, r))
           /\ Before(s, r) = IF IsNew(s, r) THEN new_reserve ELSE Get(s, r)
           /\ ~IsNew(s, r) => s.kind # "absent"
<1>1. Before(s, r) = IF IsNew(s, r) THEN new_reserve ELSE Get(s, r)
  BY CheckEntry DEF Before
<1>2. ~IsNew(s, r) => s.kind # "absent"
  BY DEF IsNew, Keys
<1> QED
  BY <1>1, <1>2, GetCell, NewReserve

\* += on col_amount, and the two assignments of a debt log.
ColPlus(c, d) == [c EXCEPT !.col_amount = @ + d]

Indebted(c, d, i) == [c EXCEPT !.debt_amount = d, !.debt_interest = i]

\* A transfer changes the collateral of an object only.
LEMMA ColPlusCell ==
    ASSUME NEW c \in Cell, Indexed(c), NEW d \in Int
    PROVE  /\ ColPlus(c, d) \in Cell /\ Indexed(ColPlus(c, d))
           /\ ColPlus(c, d).col_amount = c.col_amount + d
           /\ ColPlus(c, d).debt_amount = c.debt_amount
           /\ ColPlus(c, d).debt_interest = c.debt_interest
<1> DEFINE x == c.col_amount + d
<1>1. x \in Int
  BY DEF Cell
<1>2. ColPlus(c, d) = [c EXCEPT !.col_amount = x]
  BY Zenon DEF ColPlus
<1> HIDE DEF x
<1>3. /\ ColPlus(c, d) \in Cell /\ ColPlus(c, d).col_amount = x
      /\ ColPlus(c, d).debt_amount = c.debt_amount
      /\ ColPlus(c, d).debt_interest = c.debt_interest
  BY <1>1, <1>2 DEF Cell
<1> QED
  BY <1>3 DEF x, Indexed

\* A debt log replaces the debt and its index.
LEMMA IndebtedCell ==
    ASSUME NEW c \in Cell, NEW d \in Nat, NEW i \in Nat \ {0}
    PROVE  /\ Indebted(c, d, i) \in Cell /\ Indexed(Indebted(c, d, i))
           /\ Indebted(c, d, i).col_amount = c.col_amount
           /\ Indebted(c, d, i).debt_amount = d
           /\ Indebted(c, d, i).debt_interest = i
<1>1. /\ Indebted(c, d, i) \in Cell
      /\ Indebted(c, d, i).col_amount = c.col_amount
      /\ Indebted(c, d, i).debt_amount = d
      /\ Indebted(c, d, i).debt_interest = i
  BY DEF Indebted, Cell
<1> QED
  BY <1>1 DEF Indexed

\* A transfer with another user: its amount, and no debt, is what changes.
LEMMA SentEntry ==
    ASSUME NEW u \in Users, NEW s, EntryInv(u, s), NEW r \in Reserves, NEW d \in Int,
           NEW t, t = Handled(s, u, r, ColPlus(Before(s, r), d)),
           ~(IsNew(s, r) /\ u \in Parent /\ s.kind # "absent"),
           NEW q \in Reserves
    PROVE  /\ Get(t, q).col_amount = View(s, q).col_amount + IF q = r THEN d ELSE 0
           /\ SameDebt(Get(t, q), View(s, q))
<1> DEFINE b == Before(s, r)
           c == ColPlus(b, d)
<1>1. /\ b \in Cell /\ Indexed(b) /\ b = IF IsNew(s, r) THEN new_reserve ELSE Get(s, r)
      /\ ~IsNew(s, r) => s.kind # "absent"
  BY BeforeCell
<1> HIDE DEF b
<1>2. /\ c \in Cell /\ Indexed(c) /\ c.col_amount = b.col_amount + d
      /\ c.debt_amount = b.debt_amount /\ c.debt_interest = b.debt_interest
  BY <1>1, ColPlusCell
<1>3. t = Handled(s, u, r, c)
  BY DEF b
<1> HIDE DEF c
<1>4. /\ \A p \in Reserves \ {r} :
            SameCol(Get(t, p), View(s, p)) /\ SameDebt(Get(t, p), View(s, p))
      /\ Get(t, r) = IF IsNew(s, r) /\ u \in Parent /\ r \in s.fullKeys
                     THEN Plus(c, s.full[r]) ELSE c
  BY <1>2, <1>3, HandledEntry
<1>5. View(s, q) \in Cell
  BY GetCell
<1>6. CASE q # r
  BY <1>4, <1>5, <1>6 DEF SameCol, Cell
<1>7. CASE q = r
  <2>1. CASE ~IsNew(s, r)
    <3>1. b = View(s, r) /\ Get(t, r) = c
      BY <1>1, <1>4, <2>1 DEF View
    <3> QED
      BY <1>2, <1>7, <3>1 DEF SameDebt
  <2>2. CASE IsNew(s, r) /\ u \in Parent /\ r \in s.fullKeys
    <3>1. s.kind = "absent" /\ View(s, r) = s.full[r] /\ b = new_reserve
      BY <1>1, <2>2 DEF View
    <3>2. s.full[r] \in Cell /\ Indexed(s.full[r])
      BY GetCell
    <3>3. c.col_amount = d /\ c.debt_amount = 0 /\ c.debt_interest = 0
      BY <1>2, <3>1 DEF new_reserve
    <3>4. Get(t, r) = Plus(c, s.full[r])
      BY <1>4, <2>2
    <3>5. /\ Get(t, r).col_amount = d + s.full[r].col_amount
          /\ Get(t, r).debt_amount = 0 + s.full[r].debt_amount
          /\ Get(t, r).debt_interest = s.full[r].debt_interest
      BY <1>2, <3>2, <3>3, <3>4, PlusCell
    <3> QED
      BY <1>7, <3>1, <3>2, <3>5 DEF SameDebt, Cell
  <2>3. CASE IsNew(s, r) /\ ~(u \in Parent /\ r \in s.fullKeys)
    <3>1. b = new_reserve /\ Get(t, r) = c
      BY <1>1, <1>4, <2>3
    <3>2. s.kind # "shared"
      BY <2>3 DEF EntryInv
    <3>3. s.kind = "absent" => r \notin s.fullKeys
      BY <2>3, UnknownHasNothing DEF EntryInv
    <3>4. View(s, r).col_amount = 0 /\ View(s, r).debt_amount = 0
      BY <2>3, <3>2, <3>3, NoKeyNoBalance
    <3>5. c.col_amount = 0 + d /\ c.debt_amount = 0
      BY <1>2, <3>1 DEF new_reserve
    <3> QED
      BY <1>7, <3>1, <3>4, <3>5 DEF SameDebt
  <2> QED
    BY <2>1, <2>2, <2>3
<1> QED
  BY <1>6, <1>7

\* A borrow or a repayment: the debt is what the log says.
LEMMA OwedEntry ==
    ASSUME NEW u \in Users, NEW s, EntryInv(u, s), NEW r \in Reserves,
           NEW d \in Nat, NEW i \in Nat \ {0},
           NEW t, t = Handled(s, u, r, Indebted(Before(s, r), d, i)),
           ~(IsNew(s, r) /\ u \in Parent /\ (s.kind # "absent" \/ r \in s.fullKeys)),
           NEW q \in Reserves
    PROVE  /\ SameCol(Get(t, q), View(s, q))
           /\ q # r => SameDebt(Get(t, q), View(s, q))
           /\ q = r => Get(t, q).debt_amount = d /\ Get(t, q).debt_interest = i
<1> DEFINE b == Before(s, r)
           c == Indebted(b, d, i)
<1>1. /\ b \in Cell /\ Indexed(b) /\ b = IF IsNew(s, r) THEN new_reserve ELSE Get(s, r)
      /\ ~IsNew(s, r) => s.kind # "absent"
  BY BeforeCell
<1> HIDE DEF b
<1>2. /\ c \in Cell /\ Indexed(c) /\ c.col_amount = b.col_amount
      /\ c.debt_amount = d /\ c.debt_interest = i
  BY <1>1, IndebtedCell
<1>3. t = Handled(s, u, r, c)
  BY DEF b
<1> HIDE DEF c
<1>4. /\ \A p \in Reserves \ {r} :
            SameCol(Get(t, p), View(s, p)) /\ SameDebt(Get(t, p), View(s, p))
      /\ Get(t, r) = c
  BY <1>2, <1>3, HandledEntry
<1>5. SameCol(c, View(s, r))
  <2>1. CASE ~IsNew(s, r)
    BY <1>1, <1>2, <2>1 DEF View, SameCol
  <2>2. CASE IsNew(s, r)
    <3>1. b = new_reserve /\ s.kind # "shared"
      BY <1>1, <2>2 DEF EntryInv
    <3>2. s.kind = "absent" => r \notin s.fullKeys
      BY <2>2, UnknownHasNothing DEF EntryInv
    <3> QED
      BY <1>2, <2>2, <3>1, <3>2, NoKeyNoBalance DEF SameCol
  <2> QED
    BY <2>1, <2>2
<1> QED
  BY <1>2, <1>4, <1>5

\* A transfer to oneself is never merged.
LEMMA SelfEntry ==
    ASSUME NEW u \in Users, NEW s, EntryInv(u, s), NEW r \in Reserves, NEW d \in Int,
           NEW t, t = AddCol(AddCol(check_user_and_reserve(s, r), r, -d), r, d)
    PROVE  /\ EntryInv(u, t) /\ t.kind # "absent"
           /\ ~(IsNew(s, r) /\ u \in Parent) =>
                 \A q \in Reserves :
                    SameCol(Get(t, q), View(s, q)) /\ SameDebt(Get(t, q), View(s, q))
<1> DEFINE a == check_user_and_reserve(s, r)
           b == AddCol(a, r, -d)
           c == ColPlus(Get(a, r), -d)
           e == ColPlus(Get(b, r), d)
<1>1. /\ EntryInv(u, a) /\ a.kind # "absent" /\ r \in Keys(a)
      /\ Get(a, r) = IF IsNew(s, r) THEN new_reserve ELSE Get(s, r)
      /\ \A q \in Reserves \ {r} :
            Get(a, q) = Get(s, q) /\ a.full[q] = s.full[q] /\ a.own[q] = s.own[q]
  BY CheckEntry
<1>2. b = Put(a, r, c) /\ t = Put(b, r, e)
  BY DEF AddCol, ColPlus
<1> HIDE DEF a
<1>3. Get(a, r) \in Cell /\ Indexed(Get(a, r)) /\ Get(a, r).col_amount \in Int
  BY <1>1, GetCell DEF Cell
<1>4. /\ c \in Cell /\ Indexed(c) /\ c.col_amount = Get(a, r).col_amount + (-d)
      /\ c.debt_amount = Get(a, r).debt_amount
      /\ c.debt_interest = Get(a, r).debt_interest
  BY <1>3, ColPlusCell
<1> HIDE DEF b, c
<1>5. /\ EntryInv(u, b) /\ b.kind = a.kind /\ Keys(b) = Keys(a) /\ Get(b, r) = c
      /\ \A q \in Reserves \ {r} : Get(b, q) = Get(a, q)
  BY <1>1, <1>2, <1>4, PutEntry
<1>6. /\ e \in Cell /\ Indexed(e) /\ e.col_amount = Get(a, r).col_amount
      /\ e.debt_amount = Get(a, r).debt_amount
      /\ e.debt_interest = Get(a, r).debt_interest
  <2>1. e = ColPlus(c, d)
    BY <1>5
  <2> HIDE DEF e
  <2>2. /\ e \in Cell /\ Indexed(e) /\ e.col_amount = c.col_amount + d
        /\ e.debt_amount = c.debt_amount /\ e.debt_interest = c.debt_interest
    BY <1>4, <2>1, ColPlusCell
  <2> QED
    BY <1>3, <1>4, <2>2
<1> HIDE DEF e
<1>7. /\ EntryInv(u, t) /\ t.kind = b.kind /\ Get(t, r) = e
      /\ \A q \in Reserves \ {r} : Get(t, q) = Get(b, q)
  BY <1>1, <1>2, <1>5, <1>6, PutEntry
<1>8. ASSUME ~(IsNew(s, r) /\ u \in Parent), NEW q \in Reserves
      PROVE  SameCol(Get(t, q), View(s, q)) /\ SameDebt(Get(t, q), View(s, q))
  <2>1. CASE IsNew(s, r)
    <3>1. u \notin Parent /\ s.kind # "shared" /\ s.fullKeys = {}
      BY <1>8, <2>1, UnknownHasNothing DEF EntryInv
    <3>2. CASE q = r
      <4>1. SameCol(new_reserve, View(s, r)) /\ SameDebt(new_reserve, View(s, r))
        BY <2>1, <3>1, NoKeyNoBalance
      <4>2. Get(a, r) = new_reserve
        BY <1>1, <2>1
      <4> QED
        BY <1>6, <1>7, <3>2, <4>1, <4>2 DEF SameCol, SameDebt
    <3>3. CASE q # r
      <4>1. Get(t, q) = Get(s, q)
        BY <1>1, <1>5, <1>7, <3>3
      <4>2. CASE s.kind = "absent"
        <5>1. IsNew(s, q) /\ Get(s, q) = new_reserve
          BY <4>2 DEF IsNew, Keys, EntryInv, Get, InFull
        <5> QED
          BY <3>1, <4>1, <5>1, NoKeyNoBalance
      <4>3. CASE s.kind # "absent"
        BY <4>1, <4>3 DEF View, SameCol, SameDebt
      <4> QED
        BY <4>2, <4>3
    <3> QED
      BY <3>2, <3>3
  <2>2. CASE ~IsNew(s, r)
    <3>1. s.kind # "absent"
      BY <2>2 DEF IsNew, Keys
    <3>2. SameCol(Get(t, q), Get(s, q)) /\ SameDebt(Get(t, q), Get(s, q))
      BY <1>1, <1>5, <1>6, <1>7, <2>2 DEF SameCol, SameDebt
    <3> QED
      BY <3>1, <3>2 DEF View
  <2> QED
    BY <2>1, <2>2
<1> QED
  BY <1>1, <1>5, <1>7, <1>8

-----------------------------------------------------------------------------
(* What a log does to all users *)

Log ==
    [type : {"Transfer"}, from : Users, to : Users, reserve : Reserves, amount : Nat]
        \cup [type : {"Debt"}, borrower : Users, reserve : Reserves, debt : Nat,
              index : Nat \ {0}]
        \cup [type : {"Market"}]

\* The fields of a log, by its type.
LEMMA LogTypes ==
    ASSUME NEW l \in Log
    PROVE  /\ l.type \in {"Transfer", "Debt", "Market"}
           /\ l.type = "Transfer" => /\ l.from \in Users /\ l.to \in Users
                                     /\ l.reserve \in Reserves /\ l.amount \in Nat
           /\ l.type = "Debt" => /\ l.borrower \in Users /\ l.reserve \in Reserves
                                 /\ l.debt \in Nat /\ l.index \in Nat \ {0}
BY DEF Log

\* What a log adds to a balance.
Delta(l, u, r) ==
    IF l.type = "Transfer" /\ r = l.reserve
    THEN (IF u = l.to THEN l.amount ELSE 0) - (IF u = l.from THEN l.amount ELSE 0)
    ELSE 0

Mentioned(l) == {u \in Users : \E r \in Reserves : <<u, r>> \in Moved(l) \cup Owed(l)}

\* The users that a log makes dirty.
Wrong(h, l) ==
    {u \in Users : \E r \in Reserves :
        <<u, r>> \in Moved(l) \cup Owed(l) /\ MergesWrong(h[u], u, r, l)}

ToItself(l) == l.type = "Transfer" /\ l.from = l.to

HeapInv(h) == h \in [Users -> Entry] /\ \A u \in Users : EntryInv(u, h[u])

\* How the entry of a mentioned user relates to the one before.
Follows(s, t, u, l, wrong) ==
    /\ EntryInv(u, t) /\ t.kind # "absent"
    /\ ~ToItself(l) /\ (s.kind = "absent" \/ s.fullKeys \subseteq Keys(s))
          => t.fullKeys \subseteq Keys(t)
    /\ ~wrong => \A r \in Reserves :
          /\ Get(t, r).col_amount = View(s, r).col_amount + Delta(l, u, r)
          /\ <<u, r>> \notin Owed(l) => SameDebt(Get(t, r), View(s, r))
          /\ <<u, r>> \in Owed(l) =>
                Get(t, r).debt_amount = l.debt /\ Get(t, r).debt_interest = l.index

\* Borrow and RepayBorrow, on the entries of all users.
LEMMA DebtLog ==
    ASSUME NEW h, HeapInv(h), NEW l \in Log, l.type = "Debt",
           NEW g, g = update_debt(h, l)
    PROVE  /\ g \in [Users -> Entry]
           /\ \A u \in Users : u \notin Mentioned(l) => g[u] = h[u]
           /\ \A u \in Mentioned(l) : Follows(h[u], g[u], u, l, u \in Wrong(h, l))
<1> DEFINE b == l.borrower
           r == l.reserve
           s == h[b]
           c == Indebted(Before(s, r), l.debt, l.index)
<1>1. b \in Users /\ r \in Reserves /\ l.debt \in Nat /\ l.index \in Nat \ {0}
  BY LogTypes
<1>2. EntryInv(b, s) /\ h \in [Users -> Entry]
  BY <1>1 DEF HeapInv
<1>3. g = [h EXCEPT ![b] = Handled(s, b, r, c)]
  BY DEF update_debt, Handled, SetDebt, Indebted, Before
<1>4. Mentioned(l) = {b} /\ Owed(l) = {<<b, r>>} /\ Moved(l) = {}
  BY <1>1 DEF Mentioned, Moved, Owed
<1>5. Before(s, r) \in Cell
  BY <1>1, <1>2, BeforeCell
<1>6. c \in Cell /\ Indexed(c)
  BY <1>1, <1>5, IndebtedCell
<1> DEFINE t == Handled(s, b, r, c)
<1> HIDE DEF b, r, s
<1>7. ~ToItself(l)
  BY DEF ToItself
<1>8. Follows(s, t, b, l, b \in Wrong(h, l))
  <2>1. /\ EntryInv(b, t) /\ t.kind # "absent"
        /\ s.kind = "absent" \/ s.fullKeys \subseteq Keys(s)
              => t.fullKeys \subseteq Keys(t)
    <3> HIDE DEF c
    <3> QED
      BY <1>1, <1>2, <1>6, HandledEntry
  <2>2. ASSUME b \notin Wrong(h, l), NEW q \in Reserves
        PROVE  /\ Get(t, q).col_amount = View(s, q).col_amount + Delta(l, b, q)
               /\ <<b, q>> \notin Owed(l) => SameDebt(Get(t, q), View(s, q))
               /\ <<b, q>> \in Owed(l) =>
                     Get(t, q).debt_amount = l.debt /\ Get(t, q).debt_interest = l.index
    <3>1. ~MergesWrong(s, b, r, l)
      BY <1>1, <1>4, <2>2 DEF Wrong, s
    <3>2. ~(IsNew(s, r) /\ b \in Parent /\ (s.kind # "absent" \/ r \in s.fullKeys))
      BY <3>1 DEF MergesWrong
    <3>3. /\ SameCol(Get(t, q), View(s, q))
          /\ q # r => SameDebt(Get(t, q), View(s, q))
          /\ q = r => Get(t, q).debt_amount = l.debt /\ Get(t, q).debt_interest = l.index
      BY <1>1, <1>2, <3>2, OwedEntry
    <3>4. Delta(l, b, q) = 0 /\ View(s, q).col_amount \in Int
      BY <1>1, <1>2, GetCell DEF Delta, Cell
    <3> QED
      BY <1>4, <3>3, <3>4 DEF SameCol
  <2> HIDE DEF t
  <2> QED
    BY <1>7, <2>1, <2>2 DEF Follows
<1>9. g \in [Users -> Entry] /\ g[b] = t /\ \A u \in Users \ {b} : g[u] = h[u]
  <2>1. t \in Entry
    BY <1>8 DEF Follows, EntryInv
  <2> HIDE DEF t
  <2> QED
    BY <1>1, <1>2, <1>3, <2>1 DEF t
<1> QED
  BY <1>4, <1>8, <1>9 DEF s

\* A transfer to oneself, on the entries of all users.
LEMMA SelfLog ==
    ASSUME NEW h, HeapInv(h), NEW l \in Log, ToItself(l),
           NEW g, g = update_transfer(h, l)
    PROVE  /\ g \in [Users -> Entry]
           /\ \A u \in Users : u \notin Mentioned(l) => g[u] = h[u]
           /\ \A u \in Mentioned(l) : Follows(h[u], g[u], u, l, u \in Wrong(h, l))
<1> DEFINE b == l.from
           r == l.reserve
           s == h[b]
           t == AddCol(AddCol(check_user_and_reserve(s, r), r, -l.amount), r, l.amount)
<1>1. b \in Users /\ r \in Reserves /\ l.amount \in Int /\ l.to = b /\ l.type = "Transfer"
  BY LogTypes DEF ToItself
<1>2. EntryInv(b, s) /\ h \in [Users -> Entry]
  BY <1>1 DEF HeapInv
<1>3. Mentioned(l) = {b} /\ Owed(l) = {} /\ <<b, r>> \in Moved(l)
  <2>1. Moved(l) = {b} \X {r} /\ Owed(l) = {}
    BY <1>1 DEF Moved, Owed
  <2>2. \A u, q : <<u, q>> \in Moved(l) <=> u = b /\ q = r
    BY <2>1
  <2> QED
    BY <1>1, <2>1, <2>2, ZenonT(60) DEF Mentioned
<1>4. EntryInv(b, t) /\ t.kind # "absent"
  BY <1>1, <1>2, SelfEntry
<1>5. g = [h EXCEPT ![b] = t]
  <2> DEFINE h1 == [h EXCEPT ![b] = check_user_and_reserve(@, r)]
             h2 == [h1 EXCEPT ![b] = check_user_and_reserve(@, r)]
             h3 == [h2 EXCEPT ![b] = AddCol(@, r, -l.amount)]
             h4 == [h3 EXCEPT ![b] = AddCol(@, r, l.amount)]
             h5 == [h4 EXCEPT ![b] = MergeNew(@, b, IsNew(h[b], r) /\ l.from # l.to)]
             h6 == [h5 EXCEPT ![b] = MergeNew(@, b, IsNew(h1[b], r))]
             a == check_user_and_reserve(s, r)
  <2>1. g = h6
    BY <1>1, Zenon DEF update_transfer
  <2>2. h1 = [h EXCEPT ![b] = a] /\ h1[b] = a
    BY <1>1, <1>2
  <2>3. /\ EntryInv(b, a) /\ r \in Keys(a)
    BY <1>1, <1>2, CheckEntry
  <2>4. ~IsNew(h1[b], r) /\ check_user_and_reserve(a, r) = a
    BY <2>2, <2>3 DEF IsNew, check_user_and_reserve
  <2> HIDE DEF a
  <2>5. h2 = [h EXCEPT ![b] = a]
    BY <1>1, <1>2, <2>2, <2>4
  <2>6. h3 = [h EXCEPT ![b] = AddCol(a, r, -l.amount)]
    BY <1>1, <1>2, <2>5
  <2>7. h4 = [h EXCEPT ![b] = AddCol(AddCol(a, r, -l.amount), r, l.amount)]
    BY <1>1, <1>2, <2>6
  <2>8. h5 = h4
    BY <1>1, <1>2, <2>7 DEF MergeNew
  <2>9. h6 = h5
    BY <1>1, <1>2, <2>4, <2>7, <2>8 DEF MergeNew
  <2> QED
    BY <2>1, <2>7, <2>8, <2>9 DEF a
<1>6. ASSUME b \notin Wrong(h, l), NEW q \in Reserves
      PROVE  /\ Get(t, q).col_amount = View(s, q).col_amount + Delta(l, b, q)
             /\ SameDebt(Get(t, q), View(s, q))
  <2>1. ~MergesWrong(s, b, r, l)
    BY <1>1, <1>3, <1>6 DEF Wrong
  <2>2. ~(IsNew(s, r) /\ b \in Parent)
    BY <1>1, <2>1 DEF MergesWrong
  <2>3. SameCol(Get(t, q), View(s, q)) /\ SameDebt(Get(t, q), View(s, q))
    BY <1>1, <1>2, <2>2, SelfEntry
  <2>4. Delta(l, b, q) = 0 /\ View(s, q).col_amount \in Int
    BY <1>1, <1>2, GetCell DEF Delta, Cell
  <2> QED
    BY <2>3, <2>4 DEF SameCol
<1> HIDE DEF t
<1>7. Follows(s, t, b, l, b \in Wrong(h, l))
  BY <1>3, <1>4, <1>6 DEF Follows
<1>8. g \in [Users -> Entry] /\ g[b] = t /\ \A u \in Users \ {b} : g[u] = h[u]
  <2>1. t \in Entry
    BY <1>4 DEF EntryInv
  <2> QED
    BY <1>1, <1>2, <1>5, <2>1
<1> QED
  BY <1>3, <1>7, <1>8

\* A transfer between two users: their six writes, in the code's order, come to
\* one per user.
LEMMA TransferLog ==
    ASSUME NEW h, HeapInv(h), NEW l \in Log, l.type = "Transfer", l.from # l.to,
           NEW g, g = update_transfer(h, l)
    PROVE  /\ g \in [Users -> Entry]
           /\ \A u \in Users : u \notin Mentioned(l) => g[u] = h[u]
           /\ \A u \in Mentioned(l) : Follows(h[u], g[u], u, l, u \in Wrong(h, l))
<1> DEFINE f == l.from
           t == l.to
           r == l.reserve
           a == l.amount
           Done(u, d) == Handled(h[u], u, r, ColPlus(Before(h[u], r), d))
<1>1. f \in Users /\ t \in Users /\ r \in Reserves /\ a \in Int /\ -a \in Int /\ f # t
  BY LogTypes
<1>2. h \in [Users -> Entry] /\ \A u \in Users : EntryInv(u, h[u])
  BY DEF HeapInv
<1>3. /\ Owed(l) = {} /\ Mentioned(l) = {f, t}
      /\ <<f, r>> \in Moved(l) /\ <<t, r>> \in Moved(l)
  <2>1. Moved(l) = {f, t} \X {r} /\ Owed(l) = {}
    BY DEF Moved, Owed
  <2>2. \A u, q : <<u, q>> \in Moved(l) <=> (u = f \/ u = t) /\ q = r
    BY <2>1
  <2>3. \A u : u \in Mentioned(l) <=> u = f \/ u = t
    BY <1>1, <2>1, <2>2 DEF Mentioned
  <2> QED
    BY <2>1, <2>2, <2>3
<1>4. g = [h EXCEPT ![f] = Done(f, -a), ![t] = Done(t, a)]
  <2> DEFINE h1 == [h EXCEPT ![f] = check_user_and_reserve(@, r)]
             h2 == [h1 EXCEPT ![t] = check_user_and_reserve(@, r)]
             h3 == [h2 EXCEPT ![f] = AddCol(@, r, -a)]
             h4 == [h3 EXCEPT ![t] = AddCol(@, r, a)]
             h5 == [h4 EXCEPT ![f] = MergeNew(@, f, IsNew(h[f], r) /\ f # t)]
             h6 == [h5 EXCEPT ![t] = MergeNew(@, t, IsNew(h1[t], r))]
             cf == check_user_and_reserve(h[f], r)
             ct == check_user_and_reserve(h[t], r)
             pf == AddCol(cf, r, -a)
             pt == AddCol(ct, r, a)
             mf == MergeNew(pf, f, IsNew(h[f], r))
             mt == MergeNew(pt, t, IsNew(h[t], r))
  <2>1. g = h6
    BY Zenon DEF update_transfer
  <2>2. h1 = [h EXCEPT ![f] = cf] /\ h1[t] = h[t]
    BY <1>1, <1>2
  <2>3. h2 = [h EXCEPT ![f] = cf, ![t] = ct]
    BY <1>1, <1>2, <2>2
  <2> HIDE DEF cf, ct
  <2>4. h3 = [h EXCEPT ![f] = pf, ![t] = ct]
    BY <1>1, <1>2, <2>3
  <2>5. h4 = [h EXCEPT ![f] = pf, ![t] = pt]
    BY <1>1, <1>2, <2>4
  <2> HIDE DEF pf, pt
  <2>6. h5 = [h EXCEPT ![f] = mf, ![t] = pt]
    <3>1. (IsNew(h[f], r) /\ f # t) = IsNew(h[f], r)
      BY <1>1 DEF IsNew
    <3>2. h4[f] = pf
      BY <1>1, <1>2, <2>5
    <3>3. MergeNew(h4[f], f, IsNew(h[f], r) /\ f # t) = mf
      BY <3>1, <3>2
    <3> HIDE DEF mf
    <3>4. h5 = [h4 EXCEPT ![f] = mf]
      BY <3>3
    <3> QED
      BY <1>1, <1>2, <2>5, <3>4, ZenonT(60)
  <2>7. h6 = [h EXCEPT ![f] = mf, ![t] = mt]
    BY <1>1, <1>2, <2>2, <2>6
  <2>8. mf = Done(f, -a) /\ mt = Done(t, a)
    BY Zenon DEF pf, pt, cf, ct, Handled, AddCol, ColPlus, Before
  <2> QED
    BY <2>1, <2>7, <2>8
<1>5. ASSUME NEW u \in {f, t}, NEW d \in Int,
             \A q \in Reserves : Delta(l, u, q) = IF q = r THEN d ELSE 0
      PROVE  Follows(h[u], Done(u, d), u, l, u \in Wrong(h, l))
  <2> DEFINE s == h[u]
             w == Done(u, d)
             c == ColPlus(Before(s, r), d)
  <2>1. u \in Users /\ EntryInv(u, s) /\ <<u, r>> \in Moved(l)
    BY <1>1, <1>2, <1>3
  <2>2. c \in Cell /\ Indexed(c)
    BY <1>1, <2>1, BeforeCell, ColPlusCell
  <2>3. w = Handled(s, u, r, c)
    OBVIOUS
  <2>4. /\ EntryInv(u, w) /\ w.kind # "absent"
        /\ s.kind = "absent" \/ s.fullKeys \subseteq Keys(s)
              => w.fullKeys \subseteq Keys(w)
    <3> HIDE DEF c, w, s
    <3> QED
      BY <1>1, <2>1, <2>2, <2>3, HandledEntry
  <2>5. ASSUME u \notin Wrong(h, l), NEW q \in Reserves
        PROVE  /\ Get(w, q).col_amount = View(s, q).col_amount + Delta(l, u, q)
               /\ SameDebt(Get(w, q), View(s, q))
    <3>1. ~MergesWrong(s, u, r, l)
      BY <1>1, <2>1, <2>5 DEF Wrong
    <3>2. ~(IsNew(s, r) /\ u \in Parent /\ s.kind # "absent")
      BY <3>1 DEF MergesWrong
    <3> HIDE DEF s
    <3>3. /\ Get(w, q).col_amount = View(s, q).col_amount + IF q = r THEN d ELSE 0
          /\ SameDebt(Get(w, q), View(s, q))
      BY <1>1, <2>1, <2>3, <3>2, SentEntry
    <3> QED
      BY <1>5, <3>3
  <2>6. ~ToItself(l)
    BY DEF ToItself
  <2> HIDE DEF w
  <2>7. Follows(s, w, u, l, u \in Wrong(h, l))
    BY <1>3, <2>4, <2>5, <2>6 DEF Follows
  <2> QED
    BY <2>7 DEF w
<1>6. /\ \A q \in Reserves : Delta(l, f, q) = IF q = r THEN -a ELSE 0
      /\ \A q \in Reserves : Delta(l, t, q) = IF q = r THEN a ELSE 0
  BY <1>1 DEF Delta
<1>7. /\ Follows(h[f], Done(f, -a), f, l, f \in Wrong(h, l))
      /\ Follows(h[t], Done(t, a), t, l, t \in Wrong(h, l))
  BY <1>1, <1>5, <1>6
<1>8. Done(f, -a) \in Entry /\ Done(t, a) \in Entry
  BY <1>7 DEF Follows, EntryInv
<1> HIDE DEF Done
<1>9. /\ g \in [Users -> Entry] /\ g[f] = Done(f, -a) /\ g[t] = Done(t, a)
      /\ \A u \in Users \ {f, t} : g[u] = h[u]
  BY <1>1, <1>2, <1>4, <1>8, SMTT(30)
<1> QED
  BY <1>3, <1>7, <1>9

\* A log changes the entries of the users it mentions, each as above.
LEMMA UpdateEntries ==
    ASSUME NEW h, HeapInv(h), NEW l \in Log, l.type # "Market",
           NEW g, g = update(h, l)
    PROVE  /\ HeapInv(g)
           /\ \A u \in Users : u \notin Mentioned(l) => g[u] = h[u]
           /\ \A u \in Mentioned(l) : Follows(h[u], g[u], u, l, u \in Wrong(h, l))
<1>1. /\ g \in [Users -> Entry]
      /\ \A u \in Users : u \notin Mentioned(l) => g[u] = h[u]
      /\ \A u \in Mentioned(l) : Follows(h[u], g[u], u, l, u \in Wrong(h, l))
  <2>1. CASE l.type = "Debt"
    <3>1. g = update_debt(h, l)
      BY <2>1 DEF update
    <3> QED
      BY <2>1, <3>1, DebtLog
  <2>2. CASE ToItself(l)
    <3>1. g = update_transfer(h, l)
      BY <2>2 DEF update, ToItself
    <3> QED
      BY <2>2, <3>1, SelfLog
  <2>3. CASE l.type = "Transfer" /\ l.from # l.to
    <3>1. g = update_transfer(h, l)
      BY <2>3 DEF update
    <3> QED
      BY <2>3, <3>1, TransferLog
  <2> QED
    BY <2>1, <2>2, <2>3, LogTypes DEF ToItself
<1>2. \A u \in Users : EntryInv(u, g[u])
  BY <1>1 DEF Follows, HeapInv
<1> QED
  BY <1>1, <1>2 DEF HeapInv

-----------------------------------------------------------------------------
(* The chain *)

Ledger == [Users -> [Reserves -> Cell]]

\* How a balance follows from the one before, by the log of the block.
Mined(l, was, is, u, r) ==
    /\ is.col_amount = was.col_amount + Delta(l, u, r)
    /\ <<u, r>> \notin Owed(l) =>
          is.debt_amount = was.debt_amount /\ is.debt_interest = was.debt_interest
    /\ <<u, r>> \in Owed(l) =>
          is.debt_amount = l.debt /\ is.debt_interest = l.index

Extends(l, was, is) ==
    \A u \in Users, r \in Reserves : Mined(l, was[u][r], is[u][r], u, r)

\* The balances after block n of a chain.
At(bs, n) == IF n = 0 THEN InitBalances ELSE bs[n]

\* Every block's balances follow from the last.
Links(ls, bs, m) ==
    \A n \in 1..m : \A u \in Users, r \in Reserves :
        Mined(ls[n], At(bs, n - 1)[u][r], At(bs, n)[u][r], u, r)

\* Over a stretch of blocks without a transfer, or a debt, of a user's reserve
\* that balance stays.
Stretches(ls, bs, m) ==
    \A i, j \in 0..m : \A u \in Users, r \in Reserves : i <= j =>
        /\ (\A k \in i + 1 .. j : <<u, r>> \notin Moved(ls[k])) =>
              At(bs, i)[u][r].col_amount = At(bs, j)[u][r].col_amount
        /\ (\A k \in i + 1 .. j : <<u, r>> \notin Owed(ls[k])) =>
              /\ At(bs, i)[u][r].debt_amount = At(bs, j)[u][r].debt_amount
              /\ At(bs, i)[u][r].debt_interest = At(bs, j)[u][r].debt_interest

Chain(ls, bs) ==
    /\ ls \in Seq(Log)
    /\ bs \in Seq(Ledger)
    /\ Len(ls) = Len(bs) /\ Len(bs) <= MaxBlocks
    /\ Links(ls, bs, Len(bs))
    /\ Stretches(ls, bs, Len(bs))

\* Every block of the chain has a balance for each user and reserve.
LEMMA LedgerCells ==
    ASSUME NEW bs \in Seq(Ledger), NEW n \in 0..Len(bs)
    PROVE  /\ At(bs, n) \in Ledger
           /\ \A u \in Users, r \in Reserves :
                 /\ At(bs, n)[u][r] \in Cell
                 /\ At(bs, n)[u][r].col_amount \in Int
                 /\ At(bs, n)[u][r].is_col_liq \in {0, 1}
<1>1. n # 0 => n \in 1..Len(bs)
  BY LenProperties
<1>2. At(bs, n) \in Ledger
  BY <1>1, ElementOfSeq DEF At, Ledger
<1>3. ASSUME NEW u \in Users, NEW r \in Reserves
      PROVE  At(bs, n)[u][r] \in Cell
  BY <1>2 DEF Ledger
<1> QED
  BY <1>2, <1>3 DEF Cell

\* What a log moves is an amount, or its negation.
LEMMA DeltaType ==
    ASSUME NEW l \in Log, NEW u, NEW r
    PROVE  Delta(l, u, r) \in Int
BY LogTypes DEF Delta

\* A log moves nothing of the pairs it does not name.
LEMMA NoDelta ==
    ASSUME NEW l \in Log, NEW u, NEW r, <<u, r>> \notin Moved(l)
    PROVE  Delta(l, u, r) = 0
<1>1. CASE l.type = "Transfer"
  <2>1. Moved(l) = {l.from, l.to} \X {l.reserve}
    BY <1>1 DEF Moved
  <2>2. r = l.reserve => u # l.from /\ u # l.to
    BY <2>1
  <2> QED
    BY <1>1, <2>2 DEF Delta
<1>2. CASE l.type # "Transfer"
  BY <1>2 DEF Delta
<1> QED
  BY <1>1, <1>2

Longer(ls, bs, ls1, bs1) ==
    /\ Len(bs1) = Len(bs) + 1
    /\ \A n \in 0..Len(bs) : At(bs1, n) = At(bs, n)
    /\ \A n \in 1..Len(ls) : ls1[n] = ls[n]

\* A mined block extends the chain.
LEMMA ChainStep ==
    ASSUME NEW ls, NEW bs, Chain(ls, bs), NEW l \in Log, NEW b \in Ledger,
           Len(ls) < MaxBlocks, NEW ls1, NEW bs1,
           ls1 = Append(ls, l), bs1 = Append(bs, b), Extends(l, At(bs, Len(bs)), b)
    PROVE  Chain(ls1, bs1) /\ Longer(ls, bs, ls1, bs1)
<1> DEFINE m == Len(bs)
<1>1. /\ m \in Nat /\ ls \in Seq(Log) /\ bs \in Seq(Ledger) /\ Len(ls) = m
      /\ MaxBlocks \in Nat
  BY DEF Chain
<1>2. /\ ls1 \in Seq(Log) /\ bs1 \in Seq(Ledger)
      /\ Len(ls1) = m + 1 /\ Len(bs1) = m + 1
      /\ ls1[m + 1] = l /\ bs1[m + 1] = b
      /\ \A n \in 1..m : ls1[n] = ls[n] /\ bs1[n] = bs[n]
  BY <1>1, AppendProperties
<1> HIDE DEF m
<1>3. /\ \A n \in 0..m : At(bs1, n) = At(bs, n)
      /\ At(bs1, m + 1) = b
  BY <1>1, <1>2 DEF At
<1>4. ASSUME NEW n \in 1..m + 1, NEW u \in Users, NEW r \in Reserves
      PROVE  Mined(ls1[n], At(bs1, n - 1)[u][r], At(bs1, n)[u][r], u, r)
  <2>1. CASE n = m + 1
    <3>1. n - 1 = m /\ m \in 0..m
      BY <1>1, <2>1
    <3>2. At(bs1, n - 1) = At(bs, m) /\ At(bs1, n) = b /\ ls1[n] = l
      BY <1>2, <1>3, <2>1, <3>1
    <3> QED
      BY <3>2 DEF m, Extends
  <2>2. CASE n # m + 1
    <3>1. n \in 1..m /\ n \in 0..m /\ n - 1 \in 0..m
      BY <1>1, <2>2
    <3>2. Mined(ls[n], At(bs, n - 1)[u][r], At(bs, n)[u][r], u, r)
      BY <3>1 DEF Chain, Links, m
    <3> QED
      BY <1>2, <1>3, <3>1, <3>2
  <2> QED
    BY <2>1, <2>2
<1>5. ASSUME NEW i \in 0..m + 1, NEW j \in 0..m + 1, NEW u \in Users, NEW r \in Reserves,
             i <= j
      PROVE  /\ (\A k \in i + 1 .. j : <<u, r>> \notin Moved(ls1[k])) =>
                   At(bs1, i)[u][r].col_amount = At(bs1, j)[u][r].col_amount
             /\ (\A k \in i + 1 .. j : <<u, r>> \notin Owed(ls1[k])) =>
                   /\ At(bs1, i)[u][r].debt_amount = At(bs1, j)[u][r].debt_amount
                   /\ At(bs1, i)[u][r].debt_interest = At(bs1, j)[u][r].debt_interest
  <2>1. CASE i = j
    BY <2>1
  <2>2. CASE i < j /\ j # m + 1
    <3>1. i \in 0..m /\ j \in 0..m /\ \A k \in i + 1 .. j : k \in 1..m
      BY <1>1, <2>2
    <3>2. \A k \in i + 1 .. j : ls1[k] = ls[k]
      BY <1>2, <3>1
    <3>3. At(bs1, i) = At(bs, i) /\ At(bs1, j) = At(bs, j)
      BY <1>3, <3>1
    <3>4. /\ (\A k \in i + 1 .. j : <<u, r>> \notin Moved(ls[k])) =>
                At(bs, i)[u][r].col_amount = At(bs, j)[u][r].col_amount
          /\ (\A k \in i + 1 .. j : <<u, r>> \notin Owed(ls[k])) =>
                /\ At(bs, i)[u][r].debt_amount = At(bs, j)[u][r].debt_amount
                /\ At(bs, i)[u][r].debt_interest = At(bs, j)[u][r].debt_interest
      BY <1>5, <3>1 DEF Chain, Stretches, m
    <3> QED
      BY <3>2, <3>3, <3>4
  <2>3. CASE i < j /\ j = m + 1
    <3>1. i \in 0..m /\ m \in 0..m /\ i <= m /\ m + 1 \in i + 1 .. j
          /\ \A k \in i + 1 .. m : k \in 1..m /\ k \in i + 1 .. j
      BY <1>1, <2>3
    <3>2. \A k \in i + 1 .. m : ls1[k] = ls[k]
      BY <1>2, <3>1
    <3>3. At(bs1, i) = At(bs, i) /\ At(bs1, j) = b /\ ls1[m + 1] = l
      BY <1>2, <1>3, <2>3, <3>1
    <3>4. /\ (\A k \in i + 1 .. m : <<u, r>> \notin Moved(ls[k])) =>
                At(bs, i)[u][r].col_amount = At(bs, m)[u][r].col_amount
          /\ (\A k \in i + 1 .. m : <<u, r>> \notin Owed(ls[k])) =>
                /\ At(bs, i)[u][r].debt_amount = At(bs, m)[u][r].debt_amount
                /\ At(bs, i)[u][r].debt_interest = At(bs, m)[u][r].debt_interest
      BY <3>1 DEF Chain, Stretches, m
    <3>5. Mined(l, At(bs, m)[u][r], b[u][r], u, r)
      BY DEF m, Extends
    <3>6. At(bs, m)[u][r].col_amount \in Int
      BY <1>1, <3>1, LedgerCells DEF m
    <3>7. <<u, r>> \notin Moved(l) => b[u][r].col_amount = At(bs, m)[u][r].col_amount
      BY <3>5, <3>6, NoDelta DEF Mined
    <3>8. <<u, r>> \notin Owed(l) =>
             /\ b[u][r].debt_amount = At(bs, m)[u][r].debt_amount
             /\ b[u][r].debt_interest = At(bs, m)[u][r].debt_interest
      BY <3>5 DEF Mined
    <3>9. ASSUME \A k \in i + 1 .. j : <<u, r>> \notin Moved(ls1[k])
          PROVE  At(bs1, i)[u][r].col_amount = At(bs1, j)[u][r].col_amount
      <4>1. \A k \in i + 1 .. m : <<u, r>> \notin Moved(ls[k])
        BY <3>1, <3>2, <3>9
      <4>2. <<u, r>> \notin Moved(l)
        BY <3>1, <3>3, <3>9
      <4> QED
        BY <3>3, <3>4, <3>7, <4>1, <4>2
    <3>10. ASSUME \A k \in i + 1 .. j : <<u, r>> \notin Owed(ls1[k])
           PROVE  /\ At(bs1, i)[u][r].debt_amount = At(bs1, j)[u][r].debt_amount
                  /\ At(bs1, i)[u][r].debt_interest = At(bs1, j)[u][r].debt_interest
      <4>1. \A k \in i + 1 .. m : <<u, r>> \notin Owed(ls[k])
        BY <3>1, <3>2, <3>10
      <4>2. <<u, r>> \notin Owed(l)
        BY <3>1, <3>3, <3>10
      <4> QED
        BY <3>3, <3>4, <3>8, <4>1, <4>2
    <3> QED
      BY <3>9, <3>10
  <2>4. i = j \/ i < j
    BY <1>1, <1>5
  <2> QED
    BY <2>1, <2>2, <2>3, <2>4
<1>6. Chain(ls1, bs1)
  <2>1. m + 1 <= MaxBlocks
    BY <1>1
  <2>2. Links(ls1, bs1, m + 1)
    BY <1>4 DEF Links
  <2>3. Stretches(ls1, bs1, m + 1)
    BY <1>5, Zenon DEF Stretches
  <2>4. Len(bs1) = m + 1 /\ Len(ls1) = Len(bs1) /\ Len(bs1) <= MaxBlocks
    BY <1>2, <2>1
  <2> QED
    BY <1>2, <2>2, <2>3, <2>4 DEF Chain
<1> QED
  BY <1>1, <1>2, <1>3, <1>6 DEF m, Longer

\* external: the balances after a transfer, a debt and a market entered or left.
Sent(b, f, t, r, a) ==
    LET sent == [b EXCEPT ![f][r].col_amount = @ - a]
    IN  [sent EXCEPT ![t][r].col_amount = @ + a]

Lent(b, u, r, d, i) == [b EXCEPT ![u][r].debt_amount = d, ![u][r].debt_interest = i]

Entered(b, u, r) == [b EXCEPT ![u][r].is_col_liq = 1 - @]

Replaced(b, u, r, c) == [b EXCEPT ![u] = [b[u] EXCEPT ![r] = c]]

\* One balance of the ledger is replaced.
LEMMA LedgerPut ==
    ASSUME NEW b \in Ledger, NEW u \in Users, NEW r \in Reserves, NEW c \in Cell,
           NEW e, e = Replaced(b, u, r, c)
    PROVE  /\ e \in Ledger
           /\ e[u][r] = c
           /\ \A v \in Users, q \in Reserves :
                 v # u \/ q # r => e[v][q] = b[v][q]
<1>1. b[u] \in [Reserves -> Cell]
  BY DEF Ledger
<1> DEFINE m == [b[u] EXCEPT ![r] = c]
<1>2. m \in [Reserves -> Cell] /\ m[r] = c /\ \A q \in Reserves \ {r} : m[q] = b[u][q]
  BY <1>1
<1>3. e = [b EXCEPT ![u] = m]
  BY DEF Replaced
<1> HIDE DEF m
<1>4. /\ e \in Ledger /\ e[u] = m
      /\ \A v \in Users \ {u} : e[v] = b[v]
  BY <1>2, <1>3 DEF Ledger
<1> QED
  BY <1>2, <1>4

\* external: a transfer's block is one of the chain.
LEMMA MinedTransfer ==
    ASSUME NEW b \in Ledger, NEW f \in Users, NEW t \in Users, NEW r \in Reserves,
           NEW a \in Nat, NEW l,
           l = [type |-> "Transfer", from |-> f, to |-> t, reserve |-> r, amount |-> a],
           NEW e,
           e = Sent(b, f, t, r, a)
    PROVE  l \in Log /\ e \in Ledger /\ Extends(l, b, e)
<1> DEFINE x == b[f][r].col_amount - a
           c == [b[f][r] EXCEPT !.col_amount = x]
           d == Replaced(b, f, r, c)
           y == d[t][r].col_amount + a
           z == [d[t][r] EXCEPT !.col_amount = y]
<1>1. l \in Log
  BY DEF Log
<1>2. e = Replaced(d, t, r, z)
  BY DEF Replaced, Sent
<1>3. b[f][r] \in Cell /\ x \in Int
  BY DEF Ledger, Cell
<1> HIDE DEF x
<1>4. /\ c \in Cell /\ c.col_amount = x /\ c.debt_amount = b[f][r].debt_amount
      /\ c.debt_interest = b[f][r].debt_interest
  BY <1>3 DEF Cell
<1> HIDE DEF c
<1>5. /\ d \in Ledger /\ d[f][r] = c
      /\ \A v \in Users, q \in Reserves : v # f \/ q # r => d[v][q] = b[v][q]
  BY <1>4, LedgerPut
<1> HIDE DEF d
<1>6. d[t][r] \in Cell /\ y \in Int
  BY <1>5 DEF Ledger, Cell
<1> HIDE DEF y
<1>7. /\ z \in Cell /\ z.col_amount = y /\ z.debt_amount = d[t][r].debt_amount
      /\ z.debt_interest = d[t][r].debt_interest
  BY <1>6 DEF Cell
<1> HIDE DEF z
<1>8. /\ e \in Ledger /\ e[t][r] = z
      /\ \A v \in Users, q \in Reserves : v # t \/ q # r => e[v][q] = d[v][q]
  <2> DEFINE n == Replaced(d, t, r, z)
  <2>1. /\ n \in Ledger /\ n[t][r] = z
        /\ \A v \in Users, q \in Reserves : v # t \/ q # r => n[v][q] = d[v][q]
    BY <1>5, <1>7, LedgerPut
  <2> HIDE DEF n
  <2> QED
    BY <1>2, <2>1 DEF n
<1>9. Owed(l) = {}
  BY DEF Owed
<1>10. ASSUME NEW u \in Users, NEW q \in Reserves
       PROVE  Mined(l, b[u][q], e[u][q], u, q)
  <2>1. b[u][q].col_amount \in Int
    BY DEF Ledger, Cell
  <2>2. /\ e[u][q].debt_amount = b[u][q].debt_amount
        /\ e[u][q].debt_interest = b[u][q].debt_interest
    BY <1>4, <1>5, <1>7, <1>8
  <2>3. Delta(l, u, q) = IF q = r THEN (IF u = t THEN a ELSE 0) - (IF u = f THEN a ELSE 0)
                         ELSE 0
    BY DEF Delta
  <2>4. CASE q # r
    <3>1. e[u][q] = b[u][q]
      BY <1>5, <1>8, <2>4
    <3> QED
      BY <1>9, <2>1, <2>2, <2>3, <2>4, <3>1 DEF Mined
  <2>5. CASE q = r /\ u # t /\ u # f
    <3>1. e[u][q] = b[u][q]
      BY <1>5, <1>8, <2>5
    <3> QED
      BY <1>9, <2>1, <2>2, <2>3, <2>5, <3>1 DEF Mined
  <2>6. CASE q = r /\ u # t /\ u = f
    <3>1. e[u][q].col_amount = b[u][q].col_amount - a
      BY <1>4, <1>5, <1>8, <2>6 DEF x
    <3> QED
      BY <1>9, <2>1, <2>2, <2>3, <2>6, <3>1 DEF Mined
  <2>7. CASE q = r /\ u = t /\ u # f
    <3>1. e[u][q].col_amount = b[u][q].col_amount + a
      BY <1>5, <1>7, <1>8, <2>7 DEF y
    <3> QED
      BY <1>9, <2>1, <2>2, <2>3, <2>7, <3>1 DEF Mined
  <2>8. CASE q = r /\ u = t /\ u = f
    <3>1. e[u][q].col_amount = (b[u][q].col_amount - a) + a
      BY <1>4, <1>5, <1>7, <1>8, <2>8 DEF x, y
    <3> QED
      BY <1>9, <2>1, <2>2, <2>3, <2>8, <3>1 DEF Mined
  <2> QED
    BY <2>4, <2>5, <2>6, <2>7, <2>8
<1> QED
  BY <1>1, <1>8, <1>10 DEF Extends

\* external: so is a debt's.
LEMMA MinedDebt ==
    ASSUME NEW b \in Ledger, NEW w \in Users, NEW r \in Reserves,
           NEW d \in Nat, NEW i \in Nat \ {0}, NEW l,
           l = [type |-> "Debt", borrower |-> w, reserve |-> r, debt |-> d, index |-> i],
           NEW e, e = Lent(b, w, r, d, i)
    PROVE  l \in Log /\ e \in Ledger /\ Extends(l, b, e)
<1> DEFINE c == [b[w][r] EXCEPT !.debt_amount = d, !.debt_interest = i]
<1>1. l \in Log
  BY DEF Log
<1>2. e = Replaced(b, w, r, c)
  BY DEF Replaced, Lent, Ledger
<1>3. b[w][r] \in Cell
  BY DEF Ledger
<1>4. /\ c \in Cell /\ c.col_amount = b[w][r].col_amount /\ c.debt_amount = d
      /\ c.debt_interest = i
  BY <1>3 DEF Cell
<1> HIDE DEF c
<1>5. /\ e \in Ledger /\ e[w][r] = c
      /\ \A v \in Users, q \in Reserves : v # w \/ q # r => e[v][q] = b[v][q]
  <2> DEFINE n == Replaced(b, w, r, c)
  <2>1. /\ n \in Ledger /\ n[w][r] = c
        /\ \A v \in Users, q \in Reserves : v # w \/ q # r => n[v][q] = b[v][q]
    BY <1>4, LedgerPut
  <2> HIDE DEF n
  <2> QED
    BY <1>2, <2>1 DEF n
<1>6. Owed(l) = {<<w, r>>} /\ \A u, q : Delta(l, u, q) = 0
  BY DEF Owed, Delta
<1>7. l.debt = d /\ l.index = i
  OBVIOUS
<1>8. ASSUME NEW u \in Users, NEW q \in Reserves
      PROVE  Mined(l, b[u][q], e[u][q], u, q)
  <2>1. b[u][q].col_amount \in Int
    BY DEF Ledger, Cell
  <2>2. CASE u = w /\ q = r
    BY <1>4, <1>5, <1>6, <1>7, <2>1, <2>2 DEF Mined
  <2>3. CASE u # w \/ q # r
    BY <1>5, <1>6, <2>1, <2>3 DEF Mined
  <2> QED
    BY <2>2, <2>3
<1> QED
  BY <1>1, <1>5, <1>8 DEF Extends

\* external: entering or leaving a market moves nothing.
LEMMA MinedMarket ==
    ASSUME NEW b \in Ledger, NEW w \in Users, NEW r \in Reserves,
           NEW l, l = [type |-> "Market"],
           NEW e, e = Entered(b, w, r)
    PROVE  l \in Log /\ e \in Ledger /\ Extends(l, b, e)
<1> DEFINE x == 1 - b[w][r].is_col_liq
           c == [b[w][r] EXCEPT !.is_col_liq = x]
<1>1. l \in Log
  BY DEF Log
<1>2. e = Replaced(b, w, r, c)
  BY DEF Replaced, Entered
<1>3. b[w][r] \in Cell /\ x \in {0, 1}
  BY DEF Ledger, Cell
<1> HIDE DEF x
<1>4. /\ c \in Cell /\ c.col_amount = b[w][r].col_amount
      /\ c.debt_amount = b[w][r].debt_amount /\ c.debt_interest = b[w][r].debt_interest
  BY <1>3 DEF Cell
<1> HIDE DEF c
<1>5. /\ e \in Ledger /\ e[w][r] = c
      /\ \A v \in Users, q \in Reserves : v # w \/ q # r => e[v][q] = b[v][q]
  <2> DEFINE n == Replaced(b, w, r, c)
  <2>1. /\ n \in Ledger /\ n[w][r] = c
        /\ \A v \in Users, q \in Reserves : v # w \/ q # r => n[v][q] = b[v][q]
    BY <1>4, LedgerPut
  <2> HIDE DEF n
  <2> QED
    BY <1>2, <2>1 DEF n
<1>6. Owed(l) = {} /\ \A u, q : Delta(l, u, q) = 0
  BY DEF Owed, Delta
<1>7. ASSUME NEW u \in Users, NEW q \in Reserves
      PROVE  Mined(l, b[u][q], e[u][q], u, q)
  <2>1. b[u][q].col_amount \in Int
    BY DEF Ledger, Cell
  <2> QED
    BY <1>4, <1>5, <1>6, <2>1 DEF Mined
<1> QED
  BY <1>1, <1>5, <1>7 DEF Extends

-----------------------------------------------------------------------------
(* One delivery *)

\* The users asked for are among those the log mentions, and all of them are
\* when every answer comes.
LEMMA AskedAreMentioned ==
    ASSUME NEW l \in Log, l.type # "Market", NEW k \in 0..Len(UsersOf(l)),
           NEW u \in {UsersOf(l)[i] : i \in 1..k}
    PROVE  u \in Mentioned(l)
<1>1. CASE l.type = "Debt"
  <2>1. UsersOf(l) = <<l.borrower>>
    BY <1>1 DEF UsersOf
  <2>2. k \in 0..1
    BY <2>1
  <2>3. u = l.borrower
    BY <2>1, <2>2
  <2>4. <<u, l.reserve>> \in Owed(l)
    BY <1>1, <2>3 DEF Owed
  <2> QED
    BY <1>1, <2>3, <2>4, LogTypes DEF Mentioned
<1>2. CASE l.type = "Transfer"
  <2>1. UsersOf(l) = <<l.from>> \/ UsersOf(l) = <<l.from, l.to>>
    BY <1>2 DEF UsersOf
  <2>2. u = l.from \/ u = l.to
    BY <2>1
  <2>3. Moved(l) = {l.from, l.to} \X {l.reserve}
    BY <1>2 DEF Moved
  <2>4. <<u, l.reserve>> \in Moved(l)
    BY <2>2, <2>3
  <2> QED
    BY <1>2, <2>2, <2>4, LogTypes DEF Mentioned
<1> QED
  BY <1>1, <1>2, LogTypes

\* A delivery: the entries of the mentioned users follow, the others stay, and
\* the flags of those getAssetsIn answered for are the head's.
LEMMA AppliedEntries ==
    ASSUME HeapInv(heap), NEW l \in Log, l.type # "Market", Latest \in Ledger,
           NEW us \in SUBSET Mentioned(l),
           NEW h, h = update_then_reload(heap, l, us)
    PROVE  /\ HeapInv(h)
           /\ \A u \in Users : u \notin Mentioned(l) => h[u] = heap[u]
           /\ \A u \in Mentioned(l) : Follows(heap[u], h[u], u, l, u \in Wrong(heap, l))
           /\ \A u \in us : \A r \in Keys(h[u]) :
                 Get(h[u], r).is_col_liq = Latest[u][r].is_col_liq
<1> DEFINE g == update(heap, l)
<1>1. /\ HeapInv(g)
      /\ \A u \in Users : u \notin Mentioned(l) => g[u] = heap[u]
      /\ \A u \in Mentioned(l) : Follows(heap[u], g[u], u, l, u \in Wrong(heap, l))
  BY UpdateEntries
<1>2. h = [u \in Users |-> IF u \in us THEN SetFlags(g[u], Latest[u]) ELSE g[u]]
  BY Zenon DEF update_then_reload, reload_and_extend_states
<1> HIDE DEF g
<1>3. Mentioned(l) \subseteq Users
  BY DEF Mentioned
<1>4. ASSUME NEW u \in us
      PROVE  /\ EntryInv(u, h[u])
             /\ Follows(heap[u], h[u], u, l, u \in Wrong(heap, l))
             /\ \A r \in Keys(h[u]) : Get(h[u], r).is_col_liq = Latest[u][r].is_col_liq
  <2> DEFINE s == g[u]
             t == h[u]
             m == Latest[u]
  <2>1. u \in Users /\ u \in Mentioned(l)
    BY <1>3
  <2>2. t = SetFlags(s, m)
    BY <1>2, <2>1
  <2>3. Follows(heap[u], s, u, l, u \in Wrong(heap, l))
    BY <1>1, <2>1
  <2>4. EntryInv(u, s) /\ s.kind # "absent"
    BY <2>3 DEF Follows
  <2>5. m \in [Reserves -> Cell]
    BY <2>1 DEF Ledger
  <2> HIDE DEF s, t, m
  <2>6. /\ EntryInv(u, t)
        /\ t.kind = s.kind /\ t.fullKeys = s.fullKeys
        /\ Keys(t) = Keys(s)
        /\ \A r \in Reserves :
              /\ Get(t, r).col_amount = Get(s, r).col_amount
              /\ Get(t, r).debt_amount = Get(s, r).debt_amount
              /\ Get(t, r).debt_interest = Get(s, r).debt_interest
        /\ \A r \in Keys(t) : Get(t, r).is_col_liq = m[r].is_col_liq
    BY <2>1, <2>2, <2>4, <2>5, FlagsEntry
  <2>7. Follows(heap[u], t, u, l, u \in Wrong(heap, l))
    BY <2>3, <2>4, <2>6 DEF Follows, SameDebt
  <2> QED
    BY <2>6, <2>7 DEF t, m
<1>5. ASSUME NEW u \in Users, u \notin us
      PROVE  h[u] = g[u]
  BY <1>2, <1>5
<1>6. HeapInv(h)
  <2>1. \A u \in Users : EntryInv(u, h[u])
    BY <1>1, <1>4, <1>5 DEF HeapInv
  <2>2. \A u \in Users : h[u] \in Entry
    BY <2>1 DEF EntryInv
  <2>3. h = [u \in Users |-> h[u]]
    BY <1>2
  <2> QED
    BY <2>1, <2>2, <2>3 DEF HeapInv
<1>7. \A u \in Users : u \notin Mentioned(l) => h[u] = heap[u]
  BY <1>1, <1>5
<1>8. \A u \in Mentioned(l) : Follows(heap[u], h[u], u, l, u \in Wrong(heap, l))
  BY <1>1, <1>3, <1>4, <1>5
<1> QED
  BY <1>4, <1>6, <1>7, <1>8

-----------------------------------------------------------------------------
(* The inductive invariant *)

Counted ==
    /\ last_update \in 0..Len(logs)
    /\ deliveries \in 0..MaxDeliveries
    /\ dirty \subseteq Users
    /\ colOff \subseteq Users \X Reserves
    /\ debtOff \subseteq Users \X Reserves
    /\ asOf \in [Users -> -1..Len(ledger)]

KeysInv ==
    \A u \in Users : \/ heap[u].kind = "absent"
                     \/ SentToItself(u)
                     \/ heap[u].fullKeys \subseteq Keys(heap[u])

FlagsInv ==
    \A u \in Users : heap[u].kind # "absent" /\ asOf[u] # -1 =>
        \A r \in Keys(heap[u]) :
            Get(heap[u], r).is_col_liq = At(ledger, asOf[u])[u][r].is_col_liq

\* BalancesHeal, also for the users the selection does not have yet: of these it
\* speaks of the full states, which are merged when a log mentions the user.
HealInv ==
    \A u \in Users \ dirty, r \in Reserves :
        /\ <<u, r>> \notin colOff =>
              SameCol(View(heap[u], r), At(ledger, last_update)[u][r])
        /\ <<u, r>> \notin debtOff =>
              SameDebt(View(heap[u], r), At(ledger, last_update)[u][r])

HotInv ==
    /\ HeapInv(heap)
    /\ Chain(logs, ledger)
    /\ Counted
    /\ KeysInv
    /\ FlagsInv
    /\ HealInv

\* The model's names for a block's balances.
LEMMA LedgerIsAt ==
    ASSUME NEW n
    PROVE  LedgerAt(n) = At(ledger, n) /\ Latest = At(ledger, Len(ledger))
BY DEF LedgerAt, At, Latest

\* The selection as it is made: the entries are typed, and the users' debts have
\* an index in the full states already.
LEMMA InitHot == Init => HotInv
<1> SUFFICES ASSUME Init PROVE HotInv
  OBVIOUS
<1>1. ASSUME NEW u \in Users
      PROVE  /\ EntryInv(u, heap[u]) /\ heap[u].full = InitBalances[u]
             /\ heap[u].kind = IF u \in Selected THEN "shared" ELSE "absent"
  <2> DEFINE s == heap[u]
             own == [r \in Reserves |-> new_reserve]
             kind == IF u \in Selected THEN "shared" ELSE "absent"
  <2>1. s = [fullKeys |-> InitKeys(u), full |-> InitBalances[u], kind |-> kind,
             ownKeys |-> {}, own |-> own, aliasKeys |-> {}]
    BY DEF Init, InitKeys
  <2>2. /\ own \in [Reserves -> Cell] /\ InitBalances[u] \in [Reserves -> Cell]
        /\ InitKeys(u) \in SUBSET Reserves /\ kind \in {"absent", "shared", "own"}
        /\ \A r \in Reserves : own[r] = new_reserve
    BY NewReserve DEF InitKeys
  <2>3. \A r \in Reserves : Indexed(InitBalances[u][r]) /\ Indexed(new_reserve)
    BY NewReserve DEF Indexed
  <2>4. /\ s.fullKeys = InitKeys(u) /\ s.full = InitBalances[u] /\ s.kind = kind
        /\ s.ownKeys = {} /\ s.own = own /\ s.aliasKeys = {}
    <3> HIDE DEF own, kind, s
    <3> QED
      BY <2>1
  <2>5. s \in Entry
    <3> HIDE DEF own, kind, s
    <3> QED
      BY <2>1, <2>2 DEF Entry
  <2>6. kind # "own" /\ (kind = "shared" <=> u \in Selected)
    OBVIOUS
  <2>7. EntryInv(u, s)
    <3> HIDE DEF own, kind, s
    <3> QED
      BY <2>2, <2>3, <2>4, <2>5, <2>6 DEF EntryInv
  <2> QED
    BY <2>4, <2>7
<1>2. HeapInv(heap)
  <2>1. heap = [u \in Users |-> heap[u]]
    BY DEF Init
  <2> QED
    BY <1>1, <2>1 DEF HeapInv, EntryInv
<1>3. Chain(logs, ledger)
  <2>1. /\ logs = <<>> /\ ledger = <<>> /\ Len(logs) = 0 /\ Len(ledger) = 0
        /\ logs \in Seq(Log) /\ ledger \in Seq(Ledger)
    BY EmptySeq DEF Init
  <2>2. Links(logs, ledger, 0)
    BY DEF Links
  <2>3. Stretches(logs, ledger, 0)
    BY DEF Stretches
  <2> QED
    BY <2>1, <2>2, <2>3 DEF Chain
<1>4. Len(logs) = 0 /\ Len(ledger) = 0
  BY DEF Init
<1>5. Counted
  BY <1>4 DEF Counted, Init
<1>6. KeysInv
  BY <1>1 DEF KeysInv, Keys
<1>7. ASSUME NEW u \in Users, NEW r \in Reserves
      PROVE  /\ View(heap[u], r) = InitBalances[u][r]
             /\ heap[u].kind # "absent" => Get(heap[u], r) = InitBalances[u][r]
             /\ At(ledger, 0)[u][r] = InitBalances[u][r]
  BY <1>1 DEF View, Get, InFull, At
<1>8. FlagsInv
  <2>1. \A u \in Users : asOf[u] = 0 /\ Keys(heap[u]) \subseteq Reserves
    BY <1>1, KeysAreReserves DEF Init, EntryInv
  <2> QED
    BY <1>7, <2>1 DEF FlagsInv
<1>9. HealInv
  <2>1. last_update = 0
    BY DEF Init
  <2> QED
    BY <1>7, <2>1 DEF HealInv, SameCol, SameDebt
<1> QED
  BY <1>2, <1>3, <1>5, <1>6, <1>8, <1>9 DEF HotInv

\* A block is mined: nothing the bot has changes, and what is said of earlier
\* blocks stays true.
LEMMA MineHot ==
    ASSUME HotInv, NEW l \in Log, NEW b \in Ledger, Len(logs) < MaxBlocks,
           logs' = Append(logs, l), ledger' = Append(ledger, b),
           Extends(l, Latest, b),
           UNCHANGED <<heap, last_update, deliveries, dirty, colOff, debtOff, asOf>>
    PROVE  HotInv'
<1>1. /\ Chain(logs', ledger')
      /\ Len(ledger') = Len(ledger) + 1
      /\ \A n \in 0..Len(ledger) : At(ledger', n) = At(ledger, n)
      /\ \A n \in 1..Len(logs) : logs'[n] = logs[n]
  <2>1. Latest = At(ledger, Len(ledger))
    BY LedgerIsAt
  <2>2. Extends(l, At(ledger, Len(ledger)), b)
    BY <2>1
  <2>3. Chain(logs, ledger)
    BY DEF HotInv
  <2>4. Chain(logs', ledger') /\ Longer(logs, ledger, logs', ledger')
    BY <2>2, <2>3, ChainStep, Zenon
  <2> QED
    BY <2>4 DEF Longer
<1>2. /\ Len(logs) = Len(ledger) /\ Len(logs') = Len(ledger')
      /\ Len(ledger) \in Nat
  BY <1>1, LenProperties DEF HotInv, Chain
<1>3. /\ heap' = heap /\ last_update' = last_update /\ deliveries' = deliveries
      /\ dirty' = dirty /\ colOff' = colOff /\ debtOff' = debtOff /\ asOf' = asOf
  OBVIOUS
<1>4. Counted'
  BY <1>1, <1>2, <1>3 DEF HotInv, Counted
<1>5. KeysInv'
  <2>1. ASSUME NEW u \in Users, SentToItself(u)
        PROVE  SentToItself(u)'
    <3>1. PICK i \in 1..Len(logs) :
             logs[i].type = "Transfer" /\ logs[i].from = u /\ logs[i].to = u
      BY <2>1 DEF SentToItself
    <3>2. logs'[i] = logs[i] /\ i \in 1..Len(logs')
      BY <1>1, <1>2
    <3> QED
      BY <3>1, <3>2 DEF SentToItself
  <2> QED
    BY <1>3, <2>1 DEF HotInv, KeysInv
<1>6. FlagsInv'
  <2>1. \A u \in Users : asOf[u] # -1 => asOf[u] \in 0..Len(ledger)
    BY <1>2 DEF HotInv, Counted
  <2>2. \A u \in Users : asOf[u] # -1 => At(ledger', asOf[u]) = At(ledger, asOf[u])
    BY <1>1, <2>1
  <2>3. FlagsInv
    BY DEF HotInv
  <2> QED
    BY <1>3, <2>2, <2>3 DEF FlagsInv
<1>7. HealInv'
  <2>1. last_update \in 0..Len(ledger)
    BY <1>2 DEF HotInv, Counted
  <2>2. At(ledger', last_update') = At(ledger, last_update)
    BY <1>1, <1>3, <2>1
  <2> QED
    BY <1>3, <2>2 DEF HotInv, HealInv
<1> QED
  BY <1>1, <1>3, <1>4, <1>5, <1>6, <1>7 DEF HotInv

\* One balance over a delivery.  From last_update to the block before the
\* delivered one nothing of it was lost; the log itself does to it what the chain
\* did, or, delivered again, nothing.
LEMMA HealStep ==
    ASSUME NEW ls, NEW bs, Chain(ls, bs), NEW m \in 0..Len(bs), NEW n \in 1..Len(bs),
           m <= n, NEW u \in Users, NEW r \in Reserves,
           NEW s, NEW t, EntryInv(u, s), EntryInv(u, t),
           \/ /\ View(t, r).col_amount = View(s, r).col_amount + Delta(ls[n], u, r)
              /\ <<u, r>> \notin Owed(ls[n]) => SameDebt(View(t, r), View(s, r))
              /\ <<u, r>> \in Owed(ls[n]) => /\ View(t, r).debt_amount = ls[n].debt
                                             /\ View(t, r).debt_interest = ls[n].index
           \/ /\ t = s
              /\ <<u, r>> \notin Moved(ls[n])
              /\ <<u, r>> \notin Owed(ls[n])
    PROVE  /\ /\ SameCol(View(s, r), At(bs, m)[u][r])
              /\ \A k \in m + 1 .. n - 1 : <<u, r>> \notin Moved(ls[k])
              /\ m = n => <<u, r>> \notin Moved(ls[n])
              => SameCol(View(t, r), At(bs, n)[u][r])
           /\ <<u, r>> \in Owed(ls[n]) => SameDebt(View(t, r), At(bs, n)[u][r])
           /\ /\ SameDebt(View(s, r), At(bs, m)[u][r])
              /\ \A k \in m + 1 .. n - 1 : <<u, r>> \notin Owed(ls[k])
              /\ <<u, r>> \notin Owed(ls[n])
              => SameDebt(View(t, r), At(bs, n)[u][r])
<1> DEFINE l == ls[n]
           p == n - 1
           x == At(bs, p)[u][r]
           y == At(bs, n)[u][r]
           z == At(bs, m)[u][r]
<1>1. /\ ls \in Seq(Log) /\ bs \in Seq(Ledger) /\ Len(ls) = Len(bs)
      /\ Len(bs) \in Nat /\ Links(ls, bs, Len(bs)) /\ Stretches(ls, bs, Len(bs))
  BY LenProperties DEF Chain
<1>2. l \in Log /\ p \in 0..Len(bs) /\ n \in 0..Len(bs) /\ p + 1 = n
  BY <1>1, ElementOfSeq
<1>3. Mined(l, x, y, u, r)
  BY <1>1 DEF Links
<1>4. x.col_amount \in Int /\ y.col_amount \in Int
  BY <1>1, <1>2, LedgerCells
<1>5. View(s, r) \in Cell /\ View(t, r) \in Cell
  BY GetCell
<1>6. View(s, r).col_amount \in Int
  BY <1>5 DEF Cell
<1>7. /\ View(t, r).col_amount = View(s, r).col_amount + Delta(l, u, r)
      /\ <<u, r>> \notin Owed(l) => SameDebt(View(t, r), View(s, r))
      /\ <<u, r>> \in Owed(l) =>
            View(t, r).debt_amount = l.debt /\ View(t, r).debt_interest = l.index
  <2>1. CASE t = s /\ <<u, r>> \notin Moved(l) /\ <<u, r>> \notin Owed(l)
    <3>1. Delta(l, u, r) = 0
      BY <1>2, <2>1, NoDelta
    <3> QED
      BY <1>6, <2>1, <3>1 DEF SameDebt
  <2> QED
    BY <2>1
<1>8. Delta(l, u, r) \in Int /\ (<<u, r>> \notin Moved(l) => Delta(l, u, r) = 0)
  BY <1>2, DeltaType, NoDelta
<1>9. m < n =>
         /\ (\A k \in m + 1 .. p : <<u, r>> \notin Moved(ls[k])) =>
               z.col_amount = x.col_amount
         /\ (\A k \in m + 1 .. p : <<u, r>> \notin Owed(ls[k])) =>
               z.debt_amount = x.debt_amount /\ z.debt_interest = x.debt_interest
  <2> SUFFICES ASSUME m < n
               PROVE  /\ (\A k \in m + 1 .. p : <<u, r>> \notin Moved(ls[k])) =>
                            z.col_amount = x.col_amount
                      /\ (\A k \in m + 1 .. p : <<u, r>> \notin Owed(ls[k])) =>
                            /\ z.debt_amount = x.debt_amount
                            /\ z.debt_interest = x.debt_interest
    OBVIOUS
  <2>1. m <= p
    BY <1>2
  <2> HIDE DEF p
  <2>2. Stretches(ls, bs, Len(bs)) /\ p \in 0..Len(bs)
    BY <1>1, <1>2
  <2> QED
    BY <2>1, <2>2, ZenonT(60) DEF Stretches
<1>10. m < n \/ m = n
  BY <1>2
<1>11. <<u, r>> \in Owed(l) => SameDebt(View(t, r), y)
  BY <1>3, <1>7 DEF Mined, SameDebt
<1>12. ASSUME SameCol(View(s, r), z),
              \A k \in m + 1 .. p : <<u, r>> \notin Moved(ls[k]),
              m = n => <<u, r>> \notin Moved(l)
       PROVE  SameCol(View(t, r), y)
  <2>1. CASE m < n
    <3>1. View(s, r).col_amount = x.col_amount
      BY <1>9, <1>12, <2>1 DEF SameCol
    <3> QED
      BY <1>3, <1>7, <3>1 DEF Mined, SameCol
  <2>2. CASE m = n
    <3>1. z = y /\ Delta(l, u, r) = 0
      BY <1>8, <1>12, <2>2
    <3> QED
      BY <1>6, <1>7, <1>12, <3>1 DEF SameCol
  <2> QED
    BY <1>10, <2>1, <2>2
<1>13. ASSUME SameDebt(View(s, r), z),
              \A k \in m + 1 .. p : <<u, r>> \notin Owed(ls[k]),
              <<u, r>> \notin Owed(l)
       PROVE  SameDebt(View(t, r), y)
  <2>1. SameDebt(View(t, r), View(s, r))
    BY <1>7, <1>13
  <2>2. CASE m < n
    <3>1. z.debt_amount = y.debt_amount /\ z.debt_interest = y.debt_interest
      BY <1>3, <1>9, <1>13, <2>2 DEF Mined
    <3> QED
      BY <1>13, <2>1, <3>1 DEF SameDebt
  <2>3. CASE m = n
    BY <1>13, <2>1, <2>3 DEF SameDebt
  <2> QED
    BY <1>10, <2>2, <2>3
<1> QED
  BY <1>11, <1>12, <1>13

\* A delivery, answered or not.
LEMMA ApplyHot ==
    ASSUME HotInv, NEW n \in 1..Len(logs), ~(n < last_update),
           logs[n].type # "Market", NEW k \in 0..Len(UsersOf(logs[n])), Applied(n, k)
    PROVE  HotInv'
<1> DEFINE l == logs[n]
           us == {UsersOf(l)[i] : i \in 1..k}
           skipped == UNION {Moved(logs[i]) : i \in last_update + 1 .. n - 1}
           missed == UNION {Owed(logs[i]) : i \in last_update + 1 .. n - 1}
           again == IF n = last_update THEN Moved(l) ELSE {}
<1>1. /\ HeapInv(heap) /\ Chain(logs, ledger) /\ Counted
      /\ logs \in Seq(Log) /\ ledger \in Seq(Ledger)
      /\ Len(logs) = Len(ledger) /\ Len(ledger) \in Nat
  BY LenProperties DEF HotInv, Chain
<1>2. l \in Log /\ last_update \in 0..Len(ledger) /\ n \in 1..Len(ledger)
      /\ last_update <= n
  BY <1>1, ElementOfSeq DEF Counted
<1>3. us \in SUBSET Mentioned(l) /\ Mentioned(l) \subseteq Users
  BY <1>2, AskedAreMentioned DEF Mentioned
<1>4. /\ deliveries < MaxDeliveries /\ deliveries' = deliveries + 1
      /\ heap' = update_then_reload(heap, l, us)
      /\ last_update' = n
      /\ dirty' = dirty \cup Wrong(heap, l)
      /\ colOff' = colOff \cup skipped \cup again
      /\ debtOff' = (debtOff \cup missed) \ Owed(l)
      /\ logs' = logs /\ ledger' = ledger
  BY Zenon DEF Applied, Wrong
<1>5. asOf' = [u \in Users |-> CASE u \in us -> Len(ledger)
                                [] u \in Mentioned(l) /\ u \notin us -> -1
                                [] OTHER -> asOf[u]]
  <2>1. asOf' = [u \in Users |->
           CASE u \in us -> Len(ledger)
             [] \E r \in Reserves :
                   <<u, r>> \in (Moved(l) \cup Owed(l)) /\ u \notin us -> -1
             [] OTHER -> asOf[u]]
    BY Zenon DEF Applied
  <2>2. \A u \in Users :
           (\E r \in Reserves : <<u, r>> \in (Moved(l) \cup Owed(l)) /\ u \notin us)
             <=> u \in Mentioned(l) /\ u \notin us
    BY DEF Mentioned
  <2> HIDE DEF us, l
  <2> QED
    BY <2>1, <2>2
<1>6. Latest \in Ledger
  BY <1>1, LedgerIsAt, LedgerCells
<1>7. /\ HeapInv(heap')
      /\ \A u \in Users : u \notin Mentioned(l) => heap'[u] = heap[u]
      /\ \A u \in Mentioned(l) :
            Follows(heap[u], heap'[u], u, l, u \in Wrong(heap, l))
      /\ \A u \in us : \A r \in Keys(heap'[u]) :
            Get(heap'[u], r).is_col_liq = Latest[u][r].is_col_liq
  <2> HIDE DEF us, l
  <2>1. l.type # "Market"
    BY DEF l
  <2> QED
    BY <1>1, <1>2, <1>3, <1>4, <1>6, <2>1, AppliedEntries
<1> HIDE DEF us, skipped, missed, again
<1>8. ASSUME NEW i \in 1..Len(logs)
      PROVE  Moved(logs[i]) \subseteq Users \X Reserves /\ Owed(logs[i]) \subseteq Users \X Reserves
  <2>1. logs[i] \in Log
    BY <1>1, ElementOfSeq
  <2> QED
    BY <2>1, LogTypes DEF Moved, Owed
<1>9. Counted'
  <2>1. \A i \in last_update + 1 .. n - 1 : i \in 1..Len(logs)
    BY <1>1, <1>2
  <2>2. skipped \subseteq Users \X Reserves
    BY <1>8, <2>1 DEF skipped
  <2>3. missed \subseteq Users \X Reserves
    BY <1>8, <2>1 DEF missed
  <2>4. again \subseteq Users \X Reserves
    BY <1>8 DEF again
  <2>5. asOf' \in [Users -> -1..Len(ledger)]
    <3>1. Len(ledger) \in -1..Len(ledger) /\ -1 \in -1..Len(ledger)
      BY <1>1
    <3>2. \A u \in Users : asOf[u] \in -1..Len(ledger)
      BY <1>1 DEF Counted
    <3> HIDE DEF l
    <3> QED
      BY <1>5, <3>1, <3>2
  <2>6. dirty' \subseteq Users
    BY <1>1, <1>4 DEF Counted, Wrong
  <2>7. colOff' \subseteq Users \X Reserves /\ debtOff' \subseteq Users \X Reserves
    BY <1>1, <1>4, <2>2, <2>3, <2>4 DEF Counted
  <2>8. deliveries' \in 0..MaxDeliveries /\ last_update' \in 0..Len(logs')
    BY <1>1, <1>2, <1>4 DEF Counted
  <2> QED
    BY <1>4, <2>5, <2>6, <2>7, <2>8 DEF Counted
<1>10. KeysInv'
  <2> SUFFICES ASSUME NEW u \in Users, heap'[u].kind # "absent", ~SentToItself(u)
               PROVE  heap'[u].fullKeys \subseteq Keys(heap'[u])
    BY <1>4 DEF KeysInv, SentToItself
  <2>1. heap[u].kind = "absent" \/ heap[u].fullKeys \subseteq Keys(heap[u])
    BY DEF HotInv, KeysInv
  <2>2. CASE u \notin Mentioned(l)
    BY <1>7, <2>1, <2>2
  <2>3. CASE u \in Mentioned(l)
    <3>1. ~ToItself(l)
      <4>1. ASSUME ToItself(l)
            PROVE  l.from = u /\ l.to = u
        <5>1. Moved(l) = {l.from} \X {l.reserve} /\ Owed(l) = {}
          BY <4>1 DEF ToItself, Moved, Owed
        <5> QED
          BY <2>3, <4>1, <5>1 DEF Mentioned, ToItself
      <4> QED
        BY <4>1 DEF SentToItself, ToItself
    <3>2. Follows(heap[u], heap'[u], u, l, u \in Wrong(heap, l))
      BY <1>7, <2>3
    <3> QED
      BY <2>1, <3>1, <3>2 DEF Follows
  <2> QED
    BY <2>2, <2>3
<1>11. FlagsInv'
  <2> SUFFICES ASSUME NEW u \in Users, heap'[u].kind # "absent", asOf'[u] # -1,
                      NEW r \in Keys(heap'[u])
               PROVE  Get(heap'[u], r).is_col_liq = At(ledger', asOf'[u])[u][r].is_col_liq
    BY DEF FlagsInv
  <2>1. CASE u \in us
    <3>1. asOf'[u] = Len(ledger)
      BY <1>5, <2>1
    <3>2. At(ledger', asOf'[u]) = Latest
      BY <1>4, <3>1, LedgerIsAt
    <3> QED
      BY <1>7, <2>1, <3>2
  <2>2. CASE u \in Mentioned(l) /\ u \notin us
    BY <1>5, <2>2
  <2>3. CASE u \notin Mentioned(l) /\ u \notin us
    <3>1. asOf'[u] = asOf[u] /\ heap'[u] = heap[u]
      BY <1>5, <1>7, <2>3
    <3> QED
      BY <1>4, <3>1 DEF HotInv, FlagsInv
  <2> QED
    BY <1>3, <2>1, <2>2, <2>3
<1>12. HealInv'
  <2> SUFFICES ASSUME NEW u \in Users \ dirty', NEW r \in Reserves
               PROVE  /\ <<u, r>> \notin colOff' =>
                            SameCol(View(heap'[u], r), At(ledger, n)[u][r])
                      /\ <<u, r>> \notin debtOff' =>
                            SameDebt(View(heap'[u], r), At(ledger, n)[u][r])
    BY <1>4 DEF HealInv
  <2> DEFINE s == heap[u]
             t == heap'[u]
             m == last_update
  <2>1. u \in Users /\ u \notin dirty /\ u \notin Wrong(heap, l)
    BY <1>4
  <2>2. EntryInv(u, s) /\ EntryInv(u, t)
    BY <1>1, <1>7, <2>1 DEF HeapInv
  <2>3. \/ /\ View(t, r).col_amount = View(s, r).col_amount + Delta(l, u, r)
           /\ <<u, r>> \notin Owed(l) => SameDebt(View(t, r), View(s, r))
           /\ <<u, r>> \in Owed(l) => /\ View(t, r).debt_amount = l.debt
                                      /\ View(t, r).debt_interest = l.index
        \/ t = s /\ <<u, r>> \notin Moved(l) /\ <<u, r>> \notin Owed(l)
    <3>1. CASE u \in Mentioned(l)
      <4>1. Follows(s, t, u, l, u \in Wrong(heap, l))
        BY <1>7, <3>1
      <4>2. View(t, r) = Get(t, r)
        BY <4>1 DEF Follows, View
      <4> QED
        BY <2>1, <4>1, <4>2 DEF Follows
    <3>2. CASE u \notin Mentioned(l)
      BY <1>7, <2>1, <3>2 DEF Mentioned
    <3> QED
      BY <3>1, <3>2
  <2>4. /\ <<u, r>> \notin colOff => SameCol(View(s, r), At(ledger, m)[u][r])
        /\ <<u, r>> \notin debtOff => SameDebt(View(s, r), At(ledger, m)[u][r])
    BY <2>1 DEF HotInv, HealInv
  <2>5. /\ <<u, r>> \notin skipped =>
              \A i \in m + 1 .. n - 1 : <<u, r>> \notin Moved(logs[i])
        /\ <<u, r>> \notin missed =>
              \A i \in m + 1 .. n - 1 : <<u, r>> \notin Owed(logs[i])
        /\ <<u, r>> \notin again => (m = n => <<u, r>> \notin Moved(l))
    BY DEF skipped, missed, again
  <2> HIDE DEF s, t, m
  <2>6. /\ /\ SameCol(View(s, r), At(ledger, m)[u][r])
           /\ \A i \in m + 1 .. n - 1 : <<u, r>> \notin Moved(logs[i])
           /\ m = n => <<u, r>> \notin Moved(l)
           => SameCol(View(t, r), At(ledger, n)[u][r])
        /\ <<u, r>> \in Owed(l) => SameDebt(View(t, r), At(ledger, n)[u][r])
        /\ /\ SameDebt(View(s, r), At(ledger, m)[u][r])
           /\ \A i \in m + 1 .. n - 1 : <<u, r>> \notin Owed(logs[i])
           /\ <<u, r>> \notin Owed(l)
           => SameDebt(View(t, r), At(ledger, n)[u][r])
    <3>1. m \in 0..Len(ledger) /\ m <= n
      BY <1>2 DEF m
    <3> QED
      BY <1>1, <1>2, <2>1, <2>2, <2>3, <3>1, HealStep
  <2>7. <<u, r>> \notin colOff' => SameCol(View(t, r), At(ledger, n)[u][r])
    BY <1>4, <2>4, <2>5, <2>6
  <2>8. <<u, r>> \notin debtOff' => SameDebt(View(t, r), At(ledger, n)[u][r])
    BY <1>4, <2>4, <2>5, <2>6
  <2> QED
    BY <2>7, <2>8 DEF t
<1> QED
  BY <1>1, <1>4, <1>7, <1>9, <1>10, <1>11, <1>12 DEF HotInv

\* Every step keeps the invariant.
LEMMA StepHot == HotInv /\ [Next]_vars => HotInv'
<1> SUFFICES ASSUME HotInv, [Next]_vars PROVE HotInv'
  OBVIOUS
<1>0. /\ Latest \in Ledger
      /\ Len(logs) = Len(ledger) /\ Len(logs) \in Nat
  BY LenProperties, LedgerIsAt, LedgerCells DEF HotInv, Chain
<1>1. ASSUME NEW f \in Users, NEW t \in Users, NEW r \in Reserves, NEW a \in Amounts,
             MineTransfer(f, t, r, a)
      PROVE  HotInv'
  <2> DEFINE l == [type |-> "Transfer", from |-> f, to |-> t, reserve |-> r, amount |-> a]
             b == Sent(Latest, f, t, r, a)
  <2>1. /\ Len(logs) < MaxBlocks /\ logs' = Append(logs, l)
        /\ ledger' = Append(ledger, b)
        /\ UNCHANGED <<heap, last_update, deliveries, dirty, colOff, debtOff, asOf>>
    BY <1>1, Zenon DEF MineTransfer, Sent
  <2> HIDE DEF b
  <2>2. a \in Nat /\ b = Sent(Latest, f, t, r, a)
    BY DEF b
  <2>3. l \in Log /\ b \in Ledger /\ Extends(l, Latest, b)
    BY <1>0, <2>2, MinedTransfer
  <2> HIDE DEF l
  <2> QED
    BY <2>1, <2>3, MineHot
<1>2. ASSUME NEW u \in Users, NEW r \in Reserves, NEW d \in Debts, MineDebt(u, r, d)
      PROVE  HotInv'
  <2> DEFINE i == Len(logs) + 2
             l == [type |-> "Debt", borrower |-> u, reserve |-> r, debt |-> d, index |-> i]
             b == Lent(Latest, u, r, d, i)
  <2>1. /\ Len(logs) < MaxBlocks /\ logs' = Append(logs, l)
        /\ ledger' = Append(ledger, b)
        /\ UNCHANGED <<heap, last_update, deliveries, dirty, colOff, debtOff, asOf>>
    BY <1>2, Zenon DEF MineDebt, Lent
  <2>2. i \in Nat \ {0} /\ d \in Nat
    BY <1>0
  <2> HIDE DEF i
  <2>3. b = Lent(Latest, u, r, d, i)
    OBVIOUS
  <2> HIDE DEF b
  <2>4. l \in Log /\ b \in Ledger /\ Extends(l, Latest, b)
    BY <1>0, <2>2, <2>3, MinedDebt
  <2> HIDE DEF l
  <2> QED
    BY <2>1, <2>4, MineHot
<1>3. ASSUME NEW u \in Users, NEW r \in Reserves, MineMarket(u, r)
      PROVE  HotInv'
  <2> DEFINE l == [type |-> "Market"]
             b == Entered(Latest, u, r)
  <2>1. /\ Len(logs) < MaxBlocks /\ logs' = Append(logs, l)
        /\ ledger' = Append(ledger, b)
        /\ UNCHANGED <<heap, last_update, deliveries, dirty, colOff, debtOff, asOf>>
    BY <1>3, Zenon DEF MineMarket, Entered
  <2>2. b = Entered(Latest, u, r)
    OBVIOUS
  <2> HIDE DEF b
  <2>3. l \in Log /\ b \in Ledger /\ Extends(l, Latest, b)
    BY <1>0, <2>2, MinedMarket
  <2> HIDE DEF l
  <2> QED
    BY <2>1, <2>3, MineHot
<1>4. ASSUME NEW n \in 1..MaxBlocks, users_subscribe_callback(n)
      PROVE  HotInv'
  <2>1. Len(UsersOf(logs[n])) \in 0..Len(UsersOf(logs[n]))
    BY DEF UsersOf
  <2> QED
    BY <1>4, <2>1, ApplyHot DEF users_subscribe_callback
<1>5. ASSUME NEW n \in 1..MaxBlocks, users_subscribe_callback_raises(n)
      PROVE  HotInv'
  <2>1. PICK k \in 0..Len(UsersOf(logs[n])) - 1 : Applied(n, k)
    BY <1>5 DEF users_subscribe_callback_raises
  <2>2. k \in 0..Len(UsersOf(logs[n]))
    BY DEF UsersOf
  <2> QED
    BY <1>5, <2>1, <2>2, ApplyHot DEF users_subscribe_callback_raises
<1>6. CASE UNCHANGED vars
  BY <1>6 DEF vars, HotInv, HeapInv, Counted, KeysInv, FlagsInv, HealInv, SentToItself
<1> QED
  BY <1>1, <1>2, <1>3, <1>4, <1>5, <1>6 DEF Next

\* The invariant holds throughout.
LEMMA HotInvariant == Spec => []HotInv
BY InitHot, StepHot, PTL DEF Spec

-----------------------------------------------------------------------------
(* The theorems *)

\* The objects, the chain's balances and the counters keep their types; a dict
\* refers to one object per reserve.
THEOREM TypeCorrect == Spec => []TypeOK
<1>1. HotInv => TypeOK
  <2> SUFFICES ASSUME HotInv PROVE TypeOK
    OBVIOUS
  <2>1. heap \in [Users -> Entry] /\ \A u \in Users : heap[u].ownKeys \cap heap[u].aliasKeys = {}
    BY DEF HotInv, HeapInv, EntryInv
  <2>2. ledger \in Seq([Users -> [Reserves -> Cell]]) /\ Len(logs) = Len(ledger)
    BY DEF HotInv, Chain, Ledger
  <2>3. asOf \in [Users -> -1..MaxBlocks]
    <3>1. -1..Len(ledger) \subseteq -1..MaxBlocks
      BY LenProperties DEF HotInv, Chain
    <3> QED
      BY <3>1 DEF HotInv, Counted
  <2> QED
    BY <2>1, <2>2, <2>3 DEF HotInv, Counted, TypeOK
<1> QED
  BY <1>1, HotInvariant, PTL

\* Whatever is lost, repeated or late, no reserve of a user the selection has is
\* missing from it, unless the user sent tokens to itself.
THEOREM KeysCorrect == Spec => []KeysComplete
<1>1. HotInv => KeysComplete
  BY DEF HotInv, KeysInv, KeysComplete, Known
<1> QED
  BY <1>1, HotInvariant, PTL

\* A debt of the selection always has an index to divide by.
THEOREM IndexCorrect == Spec => []DebtHasIndex
<1>1. HotInv => DebtHasIndex
  <2> SUFFICES ASSUME HotInv, NEW u \in Users, NEW r \in Keys(heap[u])
               PROVE  Indexed(Get(heap[u], r))
    BY DEF DebtHasIndex, Indexed, Known
  <2>1. EntryInv(u, heap[u])
    BY DEF HotInv, HeapInv
  <2>2. r \in Reserves
    BY <2>1, KeysAreReserves DEF EntryInv
  <2> QED
    BY <2>1, <2>2, GetCell
<1> QED
  BY <1>1, HotInvariant, PTL

\* The collateral flags of a user are all of one block, as long as getAssetsIn
\* answered for its last log.
THEOREM FlagsCorrect == Spec => []FlagsOfOneBlock
<1>1. HotInv => FlagsOfOneBlock
  <2> SUFFICES ASSUME HotInv, NEW u \in Known, asOf[u] # -1, NEW r \in Keys(heap[u])
               PROVE  Get(heap[u], r).is_col_liq = LedgerAt(asOf[u])[u][r].is_col_liq
    BY DEF FlagsOfOneBlock
  <2>1. LedgerAt(asOf[u]) = At(ledger, asOf[u])
    BY LedgerIsAt
  <2> QED
    BY <2>1 DEF HotInv, FlagsInv, Known
<1> QED
  BY <1>1, HotInvariant, PTL

\* A balance that was merged right, and of which no log was lost or repeated, is
\* the chain's at last_update; a debt heals with the next log that comes through.
THEOREM HealCorrect == Spec => []BalancesHeal
<1>1. HotInv => BalancesHeal
  <2> SUFFICES ASSUME HotInv, NEW u \in Known \ dirty, NEW r \in Reserves
               PROVE  LET here  == Get(heap[u], r)
                          there == LedgerAt(last_update)[u][r]
                      IN  /\ <<u, r>> \notin colOff => here.col_amount = there.col_amount
                          /\ <<u, r>> \notin debtOff =>
                                /\ here.debt_amount = there.debt_amount
                                /\ here.debt_amount > 0 =>
                                      here.debt_interest = there.debt_interest
    BY Zenon DEF BalancesHeal
  <2>1. LedgerAt(last_update) = At(ledger, last_update)
    BY LedgerIsAt
  <2>2. View(heap[u], r) = Get(heap[u], r)
    BY DEF Known, View
  <2>3. /\ <<u, r>> \notin colOff =>
              SameCol(View(heap[u], r), At(ledger, last_update)[u][r])
        /\ <<u, r>> \notin debtOff =>
              SameDebt(View(heap[u], r), At(ledger, last_update)[u][r])
    BY DEF HotInv, HealInv, Known
  <2> QED
    BY <2>1, <2>2, <2>3 DEF SameCol, SameDebt
<1> QED
  BY <1>1, HotInvariant, PTL
=============================================================================
