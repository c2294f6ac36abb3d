----------------------------- MODULE HotStates ------------------------------
(***************************************************************************)
(* The balances the live bot works with: HighProfitSates, a selection of   *)
(* the users of the full States it was made from, and what its update does *)
(* with the logs of a block (configs/users.py).  The selection shares its  *)
(* UserStates objects with the full states; a user that was not selected   *)
(* gets an object of its own when a log mentions it, into which the full   *)
(* states are merged.  Which object a balance lives in is part of the      *)
(* model: `full' are the CompReserve objects of the full states, `own'     *)
(* those made since, and an own dict may also refer to objects of `full'.  *)
(* The node may skip blocks, deliver the last one again, or an old one.    *)
(***************************************************************************)
EXTENDS Integers, Sequences

CONSTANTS
    Users,          \* accounts, the ctoken contracts among them
    Contracts,      \* ctokens: what they hand out on a mint they do not hold
    Reserves,
    Parent,         \* users the full states know
    Selected,       \* those whose debt_volume exceeds debt_desired
    InitBalances,   \* per user and reserve, when the selection is made
    Amounts,        \* what a transfer may move
    Debts,          \* what accountBorrows may be
    MaxBlocks,      \* bound: the model's last block
    MaxDeliveries   \* bound: the logs the bot applies

\* CompReserve.
Cell == [col_amount : Int, is_col_liq : {0, 1},
         debt_amount : Nat, debt_interest : Nat]

new_reserve == [col_amount |-> 0, is_col_liq |-> 0,
                debt_amount |-> 0, debt_interest |-> 0]

ASSUME HotAssumption ==
    /\ Contracts \subseteq Users
    /\ Parent \subseteq Users
    /\ Selected \subseteq Parent
    /\ InitBalances \in [Users -> [Reserves -> Cell]]
    /\ \A u \in Users \ Parent, r \in Reserves :
          InitBalances[u][r] = new_reserve
    /\ \A u \in Users, r \in Reserves :
          InitBalances[u][r].debt_amount > 0
              => InitBalances[u][r].debt_interest > 0
    /\ Amounts \subseteq Nat
    /\ Debts \subseteq Nat
    /\ MaxBlocks \in Nat
    /\ MaxDeliveries \in Nat

VARIABLES
    logs,           \* external: the log of each block
    ledger,         \* external: the balances after each block
    heap,           \* the objects, and who refers to which
    last_update,    \* states.last_update
    deliveries,     \* history: the logs applied so far
    dirty,          \* history: users whose merge went wrong
    colOff,         \* history: <<user, reserve>> with a transfer lost or repeated
    debtOff,        \* history: <<user, reserve>> whose last debt log was lost
    asOf            \* history: the block is_col_liq is of, -1 if mixed

vars == <<logs, ledger, heap, last_update, deliveries, dirty, colOff, debtOff, asOf>>

\* What a user's two entries, in the full states and in the selection, refer to.
Entry ==
    [fullKeys : SUBSET Reserves, full : [Reserves -> Cell],
     kind : {"absent", "shared", "own"},
     ownKeys : SUBSET Reserves, own : [Reserves -> Cell],
     aliasKeys : SUBSET Reserves]

-----------------------------------------------------------------------------
(* self.users_states[u].reserves: its keys, and its objects *)

Keys(s) ==
    CASE s.kind = "absent" -> {}
      [] s.kind = "shared" -> s.fullKeys
      [] OTHER -> s.ownKeys \cup s.aliasKeys

InFull(s, r) == s.kind = "shared" \/ r \in s.aliasKeys

Get(s, r) == IF InFull(s, r) THEN s.full[r] ELSE s.own[r]

Put(s, r, c) ==
    IF InFull(s, r) THEN [s EXCEPT !.full[r] = c] ELSE [s EXCEPT !.own[r] = c]

\* Change type 2: the user or the reserve is new to the selection.
IsNew(s, r) == r \notin Keys(s)

check_user_and_reserve(s, r) ==
    IF ~IsNew(s, r) THEN s
    ELSE IF s.kind = "shared"
         THEN [s EXCEPT !.fullKeys = @ \cup {r}, !.full[r] = new_reserve]
         ELSE [s EXCEPT !.kind = "own", !.ownKeys = @ \cup {r}, !.own[r] = new_reserve]

plus_without_interest(c, d) ==
    [c EXCEPT !.col_amount = @ + d.col_amount, !.debt_amount = @ + d.debt_amount]

\* += on a CompReserve, field by field; is_col_liq "will update later".
Plus(c, d) ==
    [c EXCEPT !.col_amount = @ + d.col_amount, !.debt_amount = @ + d.debt_amount,
              !.debt_interest = IF @ = 0 THEN d.debt_interest ELSE @]

merge_present_keys(s) ==
    [s EXCEPT !.own = [r \in Reserves |->
        IF r \in s.fullKeys \cap s.ownKeys THEN Plus(s.own[r], s.full[r]) ELSE s.own[r]]]

merge_replaces(s) ==
    IF s.kind = "own" THEN [s EXCEPT !.aliasKeys = @ \cup s.fullKeys] ELSE s

\* The loop over old_states.reserves.  A value that the selection refers to
\* itself, as all of a selected user's are, is added to itself.
merge(s) ==
    LET mine == IF s.kind = "own" THEN s.ownKeys ELSE {}
        same == Keys(s) \ mine
    IN  [s EXCEPT
          !.own = [r \in Reserves |->
              IF r \in s.fullKeys \cap mine
              THEN Plus(s.own[r], s.full[r]) ELSE s.own[r]],
          !.full = [r \in Reserves |->
              IF r \in s.fullKeys \cap same
              THEN Plus(s.full[r], s.full[r]) ELSE s.full[r]],
          !.aliasKeys = IF s.kind = "own" THEN @ \cup (s.fullKeys \ mine) ELSE @]

\* merge for a user that a log is new to and the full states know.
MergeNew(s, u, fresh) == IF fresh /\ u \in Parent THEN merge(s) ELSE s

AddCol(s, r, d) == Put(s, r, [Get(s, r) EXCEPT !.col_amount = @ + d])

SetDebt(s, r, d, i) ==
    Put(s, r, [Get(s, r) EXCEPT !.debt_amount = d, !.debt_interest = i])

\* Transfer, which comes with every mint, redeem and seizure as well.
update_transfer(h, l) ==
    LET r  == l.reserve
        h1 == [h EXCEPT ![l.from] = check_user_and_reserve(@, r)]
        h2 == [h1 EXCEPT ![l.to] = check_user_and_reserve(@, r)]
        h3 == [h2 EXCEPT ![l.from] = AddCol(@, r, -l.amount)]
        h4 == [h3 EXCEPT ![l.to] = AddCol(@, r, l.amount)]
        h5 == [h4 EXCEPT ![l.from] =
                  MergeNew(@, l.from, IsNew(h[l.from], r) /\ l.from # l.to)]
    IN  [h5 EXCEPT ![l.to] = MergeNew(@, l.to, IsNew(h1[l.to], r))]

\* Borrow and RepayBorrow: both carry the new debt, and the AccrueInterest log
\* before them in the block has set borrow_index.
update_debt(h, l) ==
    LET u == l.borrower
        r == l.reserve
        s == SetDebt(check_user_and_reserve(h[u], r), r, l.debt, l.index)
    IN  [h EXCEPT ![u] = MergeNew(s, u, IsNew(@, r))]

update(h, l) ==
    IF l.type = "Transfer" THEN update_transfer(h, l) ELSE update_debt(h, l)

\* external: the balances after a block, and at the head.
LedgerAt(n) == IF n = 0 THEN InitBalances ELSE ledger[n]

Latest == LedgerAt(Len(ledger))

\* is_col_liq of the reserves a dict refers to, from the markets entered.
SetFlags(s, markets) ==
    LET Asked(r, c) == [c EXCEPT !.is_col_liq = markets[r].is_col_liq]
    IN  [s EXCEPT
          !.full = [r \in Reserves |->
              IF r \in Keys(s) /\ InFull(s, r) THEN Asked(r, @[r]) ELSE @[r]],
          !.own = [r \in Reserves |->
              IF r \in Keys(s) /\ ~InFull(s, r) THEN Asked(r, @[r]) ELSE @[r]]]

\* getAssetsIn asks the node for its head, whatever block the log is from.
reload_and_extend_states(h, us) ==
    [u \in Users |-> IF u \in us THEN SetFlags(h[u], Latest[u]) ELSE h[u]]

reload_then_update(h, l, us) == update(reload_and_extend_states(h, us), l)

\* The two loops of users_subscribe_callback.
update_then_reload(h, l, us) == reload_and_extend_states(update(h, l), us)

-----------------------------------------------------------------------------
(* The pairs of a user and a reserve that a log is about *)

Moved(l) ==
    IF l.type = "Transfer" THEN {l.from, l.to} \X {l.reserve} ELSE {}

Owed(l) == IF l.type = "Debt" THEN {<<l.borrower, l.reserve>>} ELSE {}

\* users_lst, in its order.
UsersOf(l) ==
    CASE l.type = "Debt" -> <<l.borrower>>
      [] l.type = "Transfer" /\ l.from = l.to -> <<l.from>>
      [] OTHER -> <<l.from, l.to>>

\* Where the merge goes wrong: a user that was known already has the full
\* states' balances, and gets them again; a user's first debt log replaces a
\* debt that is then added again; a transfer to oneself reports the second
\* change type, "already exist", and is not merged at all.
MergesWrong(s, u, r, l) ==
    /\ IsNew(s, r)
    /\ u \in Parent
    /\ \/ s.kind # "absent"
       \/ l.type = "Debt" /\ r \in s.fullKeys
       \/ l.type = "Transfer" /\ l.from = l.to

-----------------------------------------------------------------------------
Init ==
    /\ logs = <<>>
    /\ ledger = <<>>
    /\ heap = [u \in Users |->
          [fullKeys |-> {r \in Reserves : \/ InitBalances[u][r].col_amount # 0
                                         \/ InitBalances[u][r].debt_amount # 0},
           full |-> InitBalances[u],
           kind |-> IF u \in Selected THEN "shared" ELSE "absent",
           ownKeys |-> {},
           own |-> [r \in Reserves |-> new_reserve],
           aliasKeys |-> {}]]
    /\ last_update = 0
    /\ deliveries = 0
    /\ dirty = {}
    /\ colOff = {}
    /\ debtOff = {}
    /\ asOf = [u \in Users |-> 0]

\* external: tokens move; a holder has what it sends, a contract issues it.
MineTransfer(f, t, r, a) ==
    /\ Len(logs) < MaxBlocks
    /\ f \in Contracts \/ Latest[f][r].col_amount >= a
    /\ logs' = Append(logs, [type |-> "Transfer", from |-> f, to |-> t,
                             reserve |-> r, amount |-> a])
    /\ ledger' = Append(ledger,
          LET sent == [Latest EXCEPT ![f][r].col_amount = @ - a]
          IN  [sent EXCEPT ![t][r].col_amount = @ + a])
    /\ UNCHANGED <<heap, last_update, deliveries, dirty, colOff, debtOff, asOf>>

\* external: interest accrues and a debt changes; the block number stands for
\* the index, which only grows.
MineDebt(u, r, d) ==
    /\ Len(logs) < MaxBlocks
    /\ u \notin Contracts
    /\ LET index == Len(logs) + 2 IN
          /\ logs' = Append(logs, [type |-> "Debt", borrower |-> u, reserve |-> r,
                                   debt |-> d, index |-> index])
          /\ ledger' = Append(ledger, [Latest EXCEPT ![u][r].debt_amount = d,
                                                    ![u][r].debt_interest = index])
    /\ UNCHANGED <<heap, last_update, deliveries, dirty, colOff, debtOff, asOf>>

\* external: an account enters or leaves a market, an event nobody subscribed to.
MineMarket(u, r) ==
    /\ Len(logs) < MaxBlocks
    /\ u \notin Contracts
    /\ logs' = Append(logs, [type |-> "Market"])
    /\ ledger' = Append(ledger, [Latest EXCEPT ![u][r].is_col_liq = 1 - @])
    /\ UNCHANGED <<heap, last_update, deliveries, dirty, colOff, debtOff, asOf>>

\* The log of block n is applied, and k of its users' getAssetsIn are answered.
Applied(n, k) ==
    LET l == logs[n]
        skipped == UNION {Moved(logs[i]) : i \in last_update + 1 .. n - 1}
        missed  == UNION {Owed(logs[i]) : i \in last_update + 1 .. n - 1}
        again   == IF n = last_update THEN Moved(l) ELSE {}
        us      == {UsersOf(l)[i] : i \in 1..k}
    IN  /\ deliveries < MaxDeliveries
        /\ deliveries' = deliveries + 1
        /\ heap' = update_then_reload(heap, l, us)
        /\ last_update' = n
        /\ dirty' = dirty \cup {u \in Users : \E r \in Reserves :
                        <<u, r>> \in Moved(l) \cup Owed(l)
                            /\ MergesWrong(heap[u], u, r, l)}
        /\ colOff' = colOff \cup skipped \cup again
        /\ debtOff' = (debtOff \cup missed) \ Owed(l)
        /\ asOf' = [u \in Users |->
                        CASE u \in us -> Len(ledger)
                          [] \E r \in Reserves :
                                <<u, r>> \in (Moved(l) \cup Owed(l)) /\ u \notin us -> -1
                          [] OTHER -> asOf[u]]
        /\ UNCHANGED <<logs, ledger>>

users_subscribe_callback_any(n) ==
    /\ n \in 1..Len(logs)
    /\ logs[n].type # "Market"
    /\ Applied(n, Len(UsersOf(logs[n])))

\* The balances' part of users_subscribe_callback.  The node may deliver any
\* block; "logs out of date", those before last_update, are dropped, which is a
\* stuttering step.
users_subscribe_callback(n) ==
    /\ n \in 1..Len(logs)
    /\ ~(n < last_update)
    /\ logs[n].type # "Market"
    /\ Applied(n, Len(UsersOf(logs[n])))

\* getAssetsIn raises for one of the users: the balances and last_update are
\* written by then, the users after it are not asked for.
users_subscribe_callback_raises(n) ==
    /\ n \in 1..Len(logs)
    /\ ~(n < last_update)
    /\ logs[n].type # "Market"
    /\ \E k \in 0..Len(UsersOf(logs[n])) - 1 : Applied(n, k)

Next ==
    \/ \E f \in Users, t \in Users, r \in Reserves, a \in Amounts :
          MineTransfer(f, t, r, a)
    \/ \E u \in Users, r \in Reserves, d \in Debts : MineDebt(u, r, d)
    \/ \E u \in Users, r \in Reserves : MineMarket(u, r)
    \/ \E n \in 1..MaxBlocks : users_subscribe_callback(n)
    \/ \E n \in 1..MaxBlocks : users_subscribe_callback_raises(n)

Spec == Init /\ [][Next]_vars

-----------------------------------------------------------------------------
(* Properties *)

\* Types of the objects and of the chain's balances; a dict refers to one object
\* per reserve.
TypeOK ==
    /\ heap \in [Users -> Entry]
    /\ \A u \in Users : heap[u].ownKeys \cap heap[u].aliasKeys = {}
    /\ ledger \in Seq([Users -> [Reserves -> Cell]])
    /\ Len(logs) = Len(ledger)
    /\ last_update \in 0..Len(logs)
    /\ deliveries \in 0..MaxDeliveries
    /\ dirty \subseteq Users
    /\ colOff \subseteq Users \X Reserves
    /\ debtOff \subseteq Users \X Reserves
    /\ asOf \in [Users -> -1..MaxBlocks]

Known == {u \in Users : heap[u].kind # "absent"}

\* external: u sent tokens to itself in some block.
SentToItself(u) ==
    \E i \in 1..Len(logs) :
        logs[i].type = "Transfer" /\ logs[i].from = u /\ logs[i].to = u

\* Whatever is lost, repeated or late, a user of the selection has every reserve
\* the full states know of it: the health factor and the liquidation pairs of
\* compound.py leave none out.  Only a transfer to oneself escapes the merge.
KeysComplete ==
    \A u \in Known : ~SentToItself(u) => heap[u].fullKeys \subseteq Keys(heap[u])

\* Unless the merge of a user went wrong, its balance is the chain's at
\* last_update: its collateral as long as no transfer of it was lost or
\* repeated; its debt from the first debt log on that came through, whatever
\* was lost, repeated or delivered late before.
BalancesHeal ==
    \A u \in Known \ dirty, r \in Reserves :
        LET here  == Get(heap[u], r)
            there == LedgerAt(last_update)[u][r]
        IN  /\ <<u, r>> \notin colOff => here.col_amount = there.col_amount
            /\ <<u, r>> \notin debtOff =>
                  /\ here.debt_amount = there.debt_amount
                  /\ here.debt_amount > 0 =>
                        here.debt_interest = there.debt_interest

\* All the collateral flags of a user are those of one block, the head when its
\* last log was handled, and none is left over from a merge or from a reserve
\* just added: as long as getAssetsIn answered for that log.
FlagsOfOneBlock ==
    \A u \in Known : asOf[u] # -1 =>
        \A r \in Keys(heap[u]) :
            Get(heap[u], r).is_col_liq = LedgerAt(asOf[u])[u][r].is_col_liq

\* A debt always has the index it was taken at, merged or not:
\* liquidation_simulation divides by it (compound.py:641).
DebtHasIndex ==
    \A u \in Known : \A r \in Keys(heap[u]) :
        Get(heap[u], r).debt_amount > 0 => Get(heap[u], r).debt_interest > 0

\* users.py:465 says that a newly updated user's balance is incomplete, "thus
\* we need to read from full states": after that, with every block delivered
\* once and in order, it is the chain's.  It is not: the merge adds the full
\* states' balance to one that has it already.
MergedIsComplete ==
    colOff = {} /\ debtOff = {} =>
        \A u \in Known : \A r \in Keys(heap[u]) :
            /\ Get(heap[u], r).col_amount = LedgerAt(last_update)[u][r].col_amount
            /\ Get(heap[u], r).debt_amount = LedgerAt(last_update)[u][r].debt_amount
=============================================================================
