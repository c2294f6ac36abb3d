------------------------------- MODULE Sender -------------------------------
(***************************************************************************)
(* From liquidatable users to bundles: liquidation_start with its record   *)
(* users_to_liquidate (compound.py), the signing of one transaction per    *)
(* account (tx.py), BnB48Sender (transaction/send.py), the receipts and    *)
(* what a header corrects.  A task (pt, the idle task, or pre_set before   *)
(* the subscriptions start) goes through its users one by one and sends;   *)
(* nothing else runs meanwhile, the wait of send_transactions is its last  *)
(* statement.                                                              *)
(*                                                                         *)
(* Profits are in units of what a bundle must pay at least.  A liquidation *)
(* that costs more gas than it earns, or has no route, has profit -1.      *)
(***************************************************************************)
EXTENDS Integers, Sequences, FiniteSets, SequencesExt

CONSTANTS
    Users,
    Debts,          \* ctokens a user may owe
    Amounts,        \* repay amounts
    Profits,
    Accounts,       \* a sequence: one transaction is signed by each
    Top,            \* the liquidations of a batch that are sent
    Floor,          \* the profit whose half buys bnb_gas_price
    MaxReceipts,    \* failed receipts that set the lock
    MaxRaises,      \* exceptions that end the task of the pending transactions
    MaxBatches,     \* bound: batches in a behaviour
    MaxMined        \* bound: transactions of an account mined from elsewhere

ASSUME SenderAssumption ==
    /\ Amounts \subseteq Nat \ {0}
    /\ Profits \subseteq Int
    /\ Accounts \in Seq(STRING) /\ IsInjective(Accounts)
    /\ Top \in Nat \ {0}
    /\ Floor \in Nat \ {0}
    /\ MaxReceipts \in Nat \ {0}
    /\ MaxRaises \in Nat \ {0}
    /\ MaxBatches \in Nat
    /\ MaxMined \in Nat

Signers == {Accounts[i] : i \in 1..Len(Accounts)}

VARIABLES
    task,               \* who computes: "none", "pt", "idle" or "pre_set"
    seen,               \* the users it has been through
    tasks,              \* the transactions it has signed, in order
    users_to_liquidate, \* 0 for no entry, else the amount
    nonce,              \* acc.nonce of the accounts
    mined,              \* external: their transactions on chain
    bnb_nonce,          \* bnb48.acc.nonce, relative to the count on chain
    funded,             \* the balance at the last header buys bnb_gas_price
    counter,            \* failed receipts
    lock,
    raises,             \* exceptions in get_pending_transactions_light
    ended,
    batches,            \* history: batches so far
    base,               \* history: nonce at the last header
    used,               \* history: nonces signed since
    lastSigned,         \* history: the amount signed last, 0 for none
    other,              \* history: <<user, debt>> with another amount seen since
    repeated,           \* history: <<user, debt>> signed again without that
    bundle              \* history: the transactions of the last send

loop == <<task, seen, tasks>>
chain == <<nonce, mined, bnb_nonce, funded, base, used>>
record == <<users_to_liquidate, lastSigned, other, repeated>>
control == <<counter, lock, raises, ended>>
history == <<batches, bundle>>
vars == <<loop, chain, record, control, history>>

-----------------------------------------------------------------------------
(* liquidation_start *)

\* abs(debt_to_cover/prev_debt_to_cover-1) < 0.1
Close(amount, prev) ==
    10 * (IF amount < prev THEN prev - amount ELSE amount - prev) < prev

is_user_liquidated(u, d, amount) ==
    users_to_liquidate[<<u, d>>] # 0 /\ Close(amount, users_to_liquidate[<<u, d>>])

not_recorded(u, d, amount) == UNCHANGED users_to_liquidate

set_user_liquidated(u, d, amount) ==
    users_to_liquidate' = [users_to_liquidate EXCEPT ![<<u, d>>] = amount]

sign_same_nonce(u, profit) ==
    /\ tasks' = tasks \o [i \in 1..Len(Accounts) |->
          [index |-> u, signer |-> Accounts[i], nonce |-> nonce[Accounts[i]],
           profit |-> profit]]
    /\ used' = [a \in Signers |-> Append(used[a], nonce[a])]
    /\ nonce' = [a \in Signers |-> base[a] + 1]

\* One transaction per account, each with the next nonce of its account.
sign_sending_tx_to_tasks(u, profit) ==
    /\ tasks' = tasks \o [i \in 1..Len(Accounts) |->
          [index |-> u, signer |-> Accounts[i], nonce |-> nonce[Accounts[i]],
           profit |-> profit]]
    /\ used' = [a \in Signers |-> Append(used[a], nonce[a])]
    /\ nonce' = [a \in Signers |-> nonce[a] + 1]

\* "user is liquidated"
liquidation_suppressed(u, d, amount) ==
    /\ task # "none"
    /\ u \notin seen
    /\ is_user_liquidated(u, d, amount)
    /\ seen' = seen \cup {u}
    /\ UNCHANGED <<task, tasks, chain, record, control, history>>

\* Not profitable or without a route: an entry with another amount has been
\* replaced by then.
liquidation_abandoned(u, d, amount) ==
    /\ task # "none"
    /\ u \notin seen
    /\ ~is_user_liquidated(u, d, amount)
    /\ seen' = seen \cup {u}
    /\ users_to_liquidate' = [users_to_liquidate EXCEPT
          ![<<u, d>>] = IF @ = 0 THEN 0 ELSE amount]
    /\ other' = IF users_to_liquidate[<<u, d>>] = 0 THEN other ELSE other \cup {<<u, d>>}
    /\ UNCHANGED <<task, tasks, chain, lastSigned, repeated, control, history>>

liquidation_start(u, d, amount, profit) ==
    /\ task # "none"
    /\ u \notin seen
    /\ profit >= 0
    /\ ~is_user_liquidated(u, d, amount)
    /\ seen' = seen \cup {u}
    /\ set_user_liquidated(u, d, amount)
    /\ sign_sending_tx_to_tasks(u, profit)
    /\ lastSigned' = [lastSigned EXCEPT ![<<u, d>>] = amount]
    /\ other' = other \ {<<u, d>>}
    /\ repeated' = IF /\ lastSigned[<<u, d>>] # 0
                      /\ Close(amount, lastSigned[<<u, d>>])
                      /\ <<u, d>> \notin other
                   THEN repeated \cup {<<u, d>>} ELSE repeated
    /\ UNCHANGED <<task, mined, bnb_nonce, funded, base, control, history>>

-----------------------------------------------------------------------------
(* BnB48Sender *)

all_signers(results) == 1..Len(results)

\* The loop with `dedup': the positions of the first result of each liquidation.
results_new(results) ==
    {i \in 1..Len(results) : \A j \in 1..i - 1 : results[j].index # results[i].index}

\* sorted(results_new, reverse=True)[:2]: by profit, and equal profits by the
\* bytes of the signed transactions, which may order them either way.
sorted_txs_liq(results) ==
    LET Descending(o) == \A i, j \in 1..Len(o) :
            i < j => results[o[i]].profit >= results[o[j]].profit
        Best(o) == [k \in 1..(IF Len(o) < Top THEN Len(o) ELSE Top) |-> results[o[k]]]
    IN  {Best(o) : o \in {q \in SetToSeqs(results_new(results)) : Descending(q)}}

\* profits, the sum over the transactions of a bundle.
profits(txs) == FoldLeft(LAMBDA sum, t : sum + t.profit, 0, txs)

\* x returns without a word when the bundle would pay too little.
Pays(profit) == funded /\ profit >= Floor

\* Whether one of the calls of x goes on to build its bundle: the one with the
\* signal, or one of the others, of which the first has the largest profit.
Reaches(signal, top) ==
    \/ signal /\ Pays(profits(top))
    \/ top # <<>> /\ Pays(Head(top).profit)

EndLoop == task' = "none" /\ seen' = {} /\ tasks' = <<>>

\* send_transactions with nothing that pays: the nonce moves on all the same,
\* once per transaction and once more.  With the lock an empty batch returns first.
send_transactions == \E top \in sorted_txs_liq(tasks) :
    /\ task \in {"pt", "idle"}
    /\ ~Reaches(task = "pt", top)
    /\ bnb_nonce' = IF lock /\ tasks = <<>> THEN bnb_nonce
                    ELSE bnb_nonce + Len(top) + 1
    /\ bundle' = top
    /\ EndLoop
    /\ UNCHANGED <<nonce, mined, funded, base, used, record, control, batches>>

\* send_transactions with something that pays: create_self_transfer takes a nonce,
\* then `tx_mev + txs' adds a list to a string and raises.  The pending task
\* connects anew, until it has had enough; the idle task ends the program.
send_raises == \E top \in sorted_txs_liq(tasks) :
    /\ task \in {"pt", "idle"}
    /\ Reaches(task = "pt", top)
    /\ bnb_nonce' = bnb_nonce + 1
    /\ bundle' = top
    /\ raises' = IF task = "pt" THEN raises + 1 ELSE raises
    /\ ended' = (task = "idle" \/ raises' >= MaxRaises)
    /\ EndLoop
    /\ UNCHANGED <<nonce, mined, funded, base, used, record, counter, lock, batches>>

\* WsSender, in pre_set: its send_tx_task only sleeps.
send_pre_set ==
    /\ task = "pre_set"
    /\ EndLoop
    /\ UNCHANGED <<chain, record, control, history>>

-----------------------------------------------------------------------------
Init ==
    /\ task = "pre_set" /\ seen = {} /\ tasks = <<>>
    /\ users_to_liquidate = [k \in Users \X Debts |-> 0]
    /\ mined = [a \in Signers |-> 0]
    /\ nonce = mined
    /\ base = mined
    /\ used = [a \in Signers |-> <<>>]
    /\ bnb_nonce = 0
    /\ funded \in BOOLEAN
    /\ counter = 0 /\ lock = FALSE
    /\ raises = 0 /\ ended = FALSE
    /\ batches = 0
    /\ lastSigned = [k \in Users \X Debts |-> 0]
    /\ other = {}
    /\ repeated = {}
    /\ bundle = <<>>

\* pt or the idle task has health factors and goes through the users below 1.
signal_simulate_health_factor(t) ==
    /\ task = "none" /\ ~ended
    /\ batches < MaxBatches
    /\ batches' = batches + 1
    /\ task' = t
    /\ UNCHANGED <<seen, tasks, chain, record, control, bundle>>

one_receipt_later ==
    /\ task = "none" /\ ~ended
    /\ counter < MaxReceipts
    /\ counter' = counter + 1
    /\ lock' = (lock \/ counter + 1 > MaxReceipts)
    /\ UNCHANGED <<loop, chain, record, raises, ended, history>>

\* A receipt with status 0; the other ones change nothing unless the lock is due.
\* The count stops at the threshold: beyond it nothing reads it.
process_receipts ==
    /\ task = "none" /\ ~ended
    /\ counter < MaxReceipts
    /\ counter' = counter + 1
    /\ lock' = (lock \/ counter + 1 >= MaxReceipts)
    /\ UNCHANGED <<loop, chain, record, raises, ended, history>>

\* Tasks 4 and 5 of on_message.
on_message ==
    /\ task = "none" /\ ~ended
    /\ nonce' = mined
    /\ base' = mined
    /\ used' = [a \in Signers |-> <<>>]
    /\ bnb_nonce' = 0
    /\ funded' \in BOOLEAN
    /\ UNCHANGED <<loop, mined, record, control, history>>

\* external: a transaction of an account is mined.
Mine(a) ==
    /\ task = "none" /\ ~ended
    /\ mined[a] < MaxMined
    /\ mined' = [mined EXCEPT ![a] = @ + 1]
    /\ UNCHANGED <<loop, nonce, bnb_nonce, funded, base, used, record, control, history>>

Next ==
    \/ \E t \in {"pt", "idle"} : signal_simulate_health_factor(t)
    \/ \E u \in Users, d \in Debts, amount \in Amounts :
          \/ liquidation_suppressed(u, d, amount)
          \/ liquidation_abandoned(u, d, amount)
          \/ \E profit \in Profits : liquidation_start(u, d, amount, profit)
    \/ send_transactions
    \/ send_raises
    \/ send_pre_set
    \/ process_receipts
    \/ on_message
    \/ \E a \in Signers : Mine(a)

Spec == Init /\ [][Next]_vars

-----------------------------------------------------------------------------
(* Properties *)

Tx == [index : Users, signer : Signers, nonce : Nat, profit : Int]

\* Types; the lock is set exactly when enough receipts have failed.
TypeOK ==
    /\ task \in {"none", "pt", "idle", "pre_set"}
    /\ seen \subseteq Users
    /\ tasks \in Seq(Tx)
    /\ users_to_liquidate \in [Users \X Debts -> Amounts \cup {0}]
    /\ nonce \in [Signers -> Nat]
    /\ mined \in [Signers -> Nat]
    /\ bnb_nonce \in Nat
    /\ funded \in BOOLEAN
    /\ counter \in 0..MaxReceipts
    /\ lock = (counter >= MaxReceipts)
    /\ raises \in 0..MaxRaises
    /\ ended \in BOOLEAN
    /\ batches \in 0..MaxBatches
    /\ base \in [Signers -> Nat]
    /\ used \in [Signers -> Seq(Nat)]
    /\ lastSigned \in [Users \X Debts -> Amounts \cup {0}]
    /\ other \subseteq Users \X Debts
    /\ repeated \subseteq Users \X Debts
    /\ bundle \in Seq(Tx)

\* Between two headers the transactions of an account carry the nonces from the
\* mined count on, without a gap and none twice, over all the batches of both
\* tasks, those that raised and those whose transactions were never sent
\* included.  tx.py:33 asks how to keep this with several processes.
NoncesGapless ==
    \A a \in Signers :
        /\ used[a] = [i \in 1..Len(used[a]) |-> base[a] + i - 1]
        /\ nonce[a] = base[a] + Len(used[a])

\* No liquidation of a user's debt is signed again with about the same amount,
\* whether its send raised, paid too little or came from the other task, unless
\* another amount was seen in between.
NoRepeat == repeated = {}

\* A liquidation is at most once in a bundle, although every account has signed
\* it: send.py:149, "for bnb48 only need one signer".
OneSigner ==
    \A i, j \in 1..Len(bundle) : i # j => bundle[i].index # bundle[j].index
=============================================================================
