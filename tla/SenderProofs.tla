---------------------------- MODULE SenderProofs ----------------------------
(* Nonces and suppression, for any users, accounts, amounts and bounds.     *)
EXTENDS Sender, TLAPS, SequenceTheorems, FiniteSetTheorems

-----------------------------------------------------------------------------
(* Nonces: the invariant is inductive with the types of what it mentions *)

NonceInv ==
    /\ nonce \in [Signers -> Nat]
    /\ mined \in [Signers -> Nat]
    /\ base \in [Signers -> Nat]
    /\ used \in [Signers -> Seq(Nat)]
    /\ NoncesGapless

\* Signing appends the next nonce for every account.
LEMMA SignStep ==
    ASSUME NonceInv, NEW u, NEW profit, sign_sending_tx_to_tasks(u, profit),
           UNCHANGED <<mined, base>>
    PROVE  NonceInv'
<1>1. /\ used' = [a \in Signers |-> Append(used[a], nonce[a])]
      /\ nonce' = [a \in Signers |-> nonce[a] + 1]
      /\ mined' = mined /\ base' = base
  BY DEF sign_sending_tx_to_tasks
<1>2. nonce' \in [Signers -> Nat] /\ used' \in [Signers -> Seq(Nat)]
  BY <1>1 DEF NonceInv
<1>3. ASSUME NEW a \in Signers
      PROVE  /\ used'[a] = [i \in 1..Len(used'[a]) |-> base[a] + i - 1]
             /\ nonce'[a] = base[a] + Len(used'[a])
  <2> DEFINE s == used[a]
  <2>1. s \in Seq(Nat) /\ base[a] \in Nat /\ nonce[a] \in Nat
    BY DEF NonceInv
  <2>2. nonce[a] = base[a] + Len(s) /\ s = [i \in 1..Len(s) |-> base[a] + i - 1]
    BY DEF NonceInv, NoncesGapless
  <2>3. used'[a] = Append(s, nonce[a]) /\ nonce'[a] = nonce[a] + 1
    BY <1>1
  <2> HIDE DEF s
  <2>4. /\ Append(s, nonce[a]) \in Seq(Nat)
        /\ Len(Append(s, nonce[a])) = Len(s) + 1
        /\ \A i \in 1..Len(s) : Append(s, nonce[a])[i] = s[i]
        /\ Append(s, nonce[a])[Len(s) + 1] = nonce[a]
    BY <2>1, AppendProperties
  <2>5. Len(s) \in Nat
    BY <2>1, LenProperties
  <2> DEFINE t == Append(s, nonce[a])
  <2>6. \A i \in 1..Len(s) : s[i] = base[a] + i - 1
    BY <2>2
  <2> HIDE DEF t
  <2>7. t \in Seq(Nat) /\ Len(t) = Len(s) + 1 /\ \A i \in 1..Len(s) : t[i] = s[i]
    BY <2>4 DEF t
  <2>8. t[Len(s) + 1] = base[a] + Len(s)
    BY <2>2, <2>4 DEF t
  <2>9. ASSUME NEW i \in 1..Len(t) PROVE t[i] = base[a] + i - 1
    <3>1. CASE i = Len(s) + 1
      BY <2>1, <2>5, <2>8, <3>1
    <3>2. CASE i # Len(s) + 1
      <4>1. i \in 1..Len(s)
        BY <2>5, <2>7, <3>2
      <4> QED
        BY <2>6, <2>7, <4>1
    <3> QED
      BY <3>1, <3>2
  <2>10. t = [i \in 1..Len(t) |-> base[a] + i - 1]
    <3>1. t = [i \in 1..Len(t) |-> t[i]]
      BY <2>7
    <3> QED
      BY <2>9, <3>1
  <2>11. nonce'[a] = base[a] + Len(t)
    BY <2>1, <2>2, <2>3, <2>5, <2>7
  <2> QED
    BY <2>3, <2>10, <2>11 DEF t
<1> QED
  BY <1>1, <1>2, <1>3 DEF NonceInv, NoncesGapless

\* Between two headers no account has a gap in its nonces and none is signed
\* twice (tx.py:29), for any number of accounts and any order of batches.
THEOREM NoncesCorrect == Spec => []NoncesGapless
<1>1. Init => NonceInv
  <2> SUFFICES ASSUME Init PROVE NonceInv
    OBVIOUS
  <2>1. /\ nonce = [a \in Signers |-> 0] /\ mined = nonce /\ base = nonce
        /\ used = [a \in Signers |-> <<>>]
    BY DEF Init
  <2>2. <<>> \in Seq(Nat) /\ Len(<<>>) = 0 /\ <<>> = [i \in 1..0 |-> i - 1]
    OBVIOUS
  <2>3. \A a \in Signers : used[a] = [i \in 1..Len(used[a]) |-> base[a] + i - 1]
    BY <2>1, <2>2
  <2> QED
    BY <2>1, <2>2, <2>3 DEF NonceInv, NoncesGapless
<1>2. NonceInv /\ [Next]_vars => NonceInv'
  <2> SUFFICES ASSUME NonceInv, [Next]_vars PROVE NonceInv'
    OBVIOUS
  <2>1. ASSUME UNCHANGED <<nonce, mined, base, used>>
        PROVE  NonceInv'
    BY <2>1 DEF NonceInv, NoncesGapless
  <2>2. ASSUME NEW t, signal_simulate_health_factor(t) PROVE NonceInv'
    BY <2>1, <2>2 DEF signal_simulate_health_factor, chain
  <2>3. ASSUME NEW u, NEW d, NEW amount, liquidation_suppressed(u, d, amount)
        PROVE  NonceInv'
    BY <2>1, <2>3 DEF liquidation_suppressed, chain
  <2>4. ASSUME NEW u, NEW d, NEW amount, liquidation_abandoned(u, d, amount)
        PROVE  NonceInv'
    BY <2>1, <2>4 DEF liquidation_abandoned, chain
  <2>5. ASSUME NEW u, NEW d, NEW amount, NEW profit,
               liquidation_start(u, d, amount, profit)
        PROVE  NonceInv'
    BY <2>5, SignStep DEF liquidation_start
  <2>6. CASE send_transactions
    BY <2>1, <2>6 DEF send_transactions
  <2>7. CASE send_raises
    BY <2>1, <2>7 DEF send_raises
  <2>8. CASE send_pre_set
    BY <2>1, <2>8 DEF send_pre_set, chain
  <2>9. CASE process_receipts
    BY <2>1, <2>9 DEF process_receipts, chain
  <2>10. CASE on_message
    <3>1. /\ nonce' = mined /\ base' = mined /\ mined' = mined
          /\ used' = [a \in Signers |-> <<>>]
      BY <2>10 DEF on_message
    <3>2. <<>> \in Seq(Nat) /\ Len(<<>>) = 0
      OBVIOUS
    <3>3. \A a \in Signers :
              /\ used'[a] = [i \in 1..Len(used'[a]) |-> base'[a] + i - 1]
              /\ nonce'[a] = base'[a] + Len(used'[a])
      BY <3>1, <3>2 DEF NonceInv
    <3> QED
      BY <3>1, <3>2, <3>3 DEF NonceInv, NoncesGapless
  <2>11. ASSUME NEW a \in Signers, Mine(a) PROVE NonceInv'
    <3>1. mined' = [mined EXCEPT ![a] = @ + 1] /\ UNCHANGED <<nonce, base, used>>
      BY <2>11 DEF Mine
    <3>2. mined' \in [Signers -> Nat]
      BY <3>1 DEF NonceInv
    <3> QED
      BY <3>1, <3>2 DEF NonceInv, NoncesGapless
  <2>12. CASE UNCHANGED vars
    BY <2>1, <2>12 DEF vars, chain
  <2> QED
    BY <2>2, <2>3, <2>4, <2>5, <2>6, <2>7, <2>8, <2>9, <2>10, <2>11, <2>12 DEF Next
<1>3. NonceInv => NoncesGapless
  BY DEF NonceInv
<1> QED
  BY <1>1, <1>2, <1>3, PTL DEF Spec

-----------------------------------------------------------------------------
(* Suppression: without another amount in between, the record holds the      *)
(* amount that was signed last, so is_user_liquidated compares with that.    *)

RecordInv ==
    /\ users_to_liquidate \in [Users \X Debts -> Nat]
    /\ lastSigned \in [Users \X Debts -> Nat]
    /\ \A k \in Users \X Debts : lastSigned[k] # 0 => users_to_liquidate[k] # 0
    /\ \A k \in Users \X Debts :
          lastSigned[k] # 0 /\ k \notin other => users_to_liquidate[k] = lastSigned[k]
    /\ NoRepeat

\* No debt of a user is liquidated again with about the same amount unless
\* another amount was seen in between (compound.py:801), whichever task computes
\* it and whatever became of the first transaction.
THEOREM SuppressionCorrect == Spec => []NoRepeat
<1>1. Init => RecordInv
  BY DEF Init, RecordInv, NoRepeat
<1>2. RecordInv /\ [Next]_vars => RecordInv'
  <2> SUFFICES ASSUME RecordInv, [Next]_vars PROVE RecordInv'
    OBVIOUS
  <2>1. ASSUME UNCHANGED record PROVE RecordInv'
    BY <2>1 DEF RecordInv, NoRepeat, record
  <2>2. ASSUME NEW t, signal_simulate_health_factor(t) PROVE RecordInv'
    BY <2>1, <2>2 DEF signal_simulate_health_factor
  <2>3. ASSUME NEW u, NEW d, NEW amount, liquidation_suppressed(u, d, amount)
        PROVE  RecordInv'
    BY <2>1, <2>3 DEF liquidation_suppressed
  <2>4. ASSUME NEW u \in Users, NEW d \in Debts, NEW amount \in Amounts,
               liquidation_abandoned(u, d, amount)
        PROVE  RecordInv'
    <3> DEFINE k == <<u, d>>
    <3>1. k \in Users \X Debts /\ amount \in Nat \ {0}
      BY SenderAssumption
    <3>2. /\ users_to_liquidate' = [users_to_liquidate EXCEPT
                                      ![k] = IF @ = 0 THEN 0 ELSE amount]
          /\ other' = IF users_to_liquidate[k] = 0 THEN other ELSE other \cup {k}
          /\ lastSigned' = lastSigned /\ repeated' = repeated
      BY <2>4 DEF liquidation_abandoned
    <3> HIDE DEF k
    <3> QED
      BY <3>1, <3>2 DEF RecordInv, NoRepeat
  <2>5. ASSUME NEW u \in Users, NEW d \in Debts, NEW amount \in Amounts, NEW profit,
               liquidation_start(u, d, amount, profit)
        PROVE  RecordInv'
    <3> DEFINE k == <<u, d>>
    <3>1. k \in Users \X Debts /\ amount \in Nat \ {0}
      BY SenderAssumption
    <3>2. /\ users_to_liquidate' = [users_to_liquidate EXCEPT ![k] = amount]
          /\ lastSigned' = [lastSigned EXCEPT ![k] = amount]
          /\ other' = other \ {k}
          /\ repeated' = IF lastSigned[k] # 0 /\ Close(amount, lastSigned[k])
                             /\ k \notin other
                         THEN repeated \cup {k} ELSE repeated
          /\ ~(users_to_liquidate[k] # 0 /\ Close(amount, users_to_liquidate[k]))
      BY <2>5 DEF liquidation_start, set_user_liquidated, is_user_liquidated
    <3> HIDE DEF k
    <3>3. repeated' = repeated
      BY <3>1, <3>2 DEF RecordInv
    <3> QED
      BY <3>1, <3>2, <3>3 DEF RecordInv, NoRepeat
  <2>6. CASE send_transactions
    BY <2>1, <2>6 DEF send_transactions
  <2>7. CASE send_raises
    BY <2>1, <2>7 DEF send_raises
  <2>8. CASE send_pre_set
    BY <2>1, <2>8 DEF send_pre_set
  <2>9. CASE process_receipts
    BY <2>1, <2>9 DEF process_receipts
  <2>10. CASE on_message
    BY <2>1, <2>10 DEF on_message
  <2>11. ASSUME NEW a \in Signers, Mine(a) PROVE RecordInv'
    BY <2>1, <2>11 DEF Mine
  <2>12. CASE UNCHANGED vars
    BY <2>1, <2>12 DEF vars
  <2> QED
    BY <2>2, <2>3, <2>4, <2>5, <2>6, <2>7, <2>8, <2>9, <2>10, <2>11, <2>12 DEF Next
<1>3. RecordInv => NoRepeat
  BY DEF RecordInv
<1> QED
  BY <1>1, <1>2, <1>3, PTL DEF Spec

-----------------------------------------------------------------------------
(* Bundles: of the results, in whatever order, the first of a liquidation *)

\* What sorted_txs_liq may be: transactions of the results, none of which has the
\* liquidation of another, whatever the profits are and however ties fall.
LEMMA TopOfResults ==
    ASSUME NEW results \in Seq(Tx), NEW top \in sorted_txs_liq(results)
    PROVE  /\ top \in Seq(Tx)
           /\ \A i, j \in 1..Len(top) : i # j => top[i].index # top[j].index
<1> DEFINE F == results_new(results)
           n == Cardinality(F)
<1>1. IsFiniteSet(F) /\ n \in Nat /\ F \subseteq 1..Len(results) /\ Len(results) \in Nat
  <2>1. Len(results) \in Nat /\ F \subseteq 1..Len(results)
    BY LenProperties DEF results_new
  <2>2. IsFiniteSet(1..Len(results))
    BY <2>1, FS_Interval
  <2>3. IsFiniteSet(F)
    BY <2>1, <2>2, FS_Subset
  <2> HIDE DEF F
  <2> QED
    BY <2>1, <2>3, FS_CardinalityType
<1>2. \A i, j \in F : i # j => results[i].index # results[j].index
  <2>1. \A i \in F : i \in 1..Len(results) /\
           \A j \in 1..i - 1 : results[j].index # results[i].index
    BY DEF results_new
  <2>2. \A i, j \in F : i # j => i < j \/ j < i
    BY <1>1
  <2>3. \A i, j \in F : i < j => i \in 1..j - 1
    BY <1>1, <2>1
  <2> HIDE DEF F
  <2> QED
    BY <2>1, <2>2, <2>3
<1>3. PICK o \in SetToSeqs(F) :
         top = [k \in 1..(IF Len(o) < Top THEN Len(o) ELSE Top) |-> results[o[k]]]
  BY Zenon DEF sorted_txs_liq
<1>4. o \in [1..n -> F] /\ \A i, j \in 1..n : i # j => o[i] # o[j]
  BY DEF SetToSeqs
<1> HIDE DEF F, n
<1>5. Len(o) = n
  BY <1>1, <1>4
<1> DEFINE m == IF n < Top THEN n ELSE Top
<1>6. m \in Nat /\ \A k \in 1..m : k \in 1..n
  BY <1>1, SenderAssumption
<1>7. top = [k \in 1..m |-> results[o[k]]]
  BY <1>3, <1>5
<1> HIDE DEF m
<1>8. \A k \in 1..m : o[k] \in F /\ results[o[k]] \in Tx
  <2>1. \A i \in 1..Len(results) : results[i] \in Tx
    BY ElementOfSeq
  <2> QED
    BY <1>1, <1>4, <1>6, <2>1
<1>9. top \in Seq(Tx) /\ Len(top) = m
  BY <1>6, <1>7, <1>8
<1>10. ASSUME NEW i \in 1..m, NEW j \in 1..m, i # j
       PROVE  top[i].index # top[j].index
  <2>1. o[i] # o[j]
    BY <1>4, <1>6, <1>10
  <2> QED
    BY <1>2, <1>7, <1>8, <2>1
<1> QED
  BY <1>9, <1>10

\* The program ends with a send that raises, so no task runs afterwards and the
\* budget of exceptions is not exceeded before.
EndInv ==
    /\ ended => task = "none"
    /\ ~ended => raises < MaxRaises

SendInv == TypeOK /\ EndInv /\ OneSigner

\* A liquidation adds one typed transaction per account.
LEMMA SignTypes ==
    ASSUME TypeOK, NEW u \in Users, NEW profit \in Int,
           sign_sending_tx_to_tasks(u, profit)
    PROVE  /\ tasks' \in Seq(Tx)
           /\ used' \in [Signers -> Seq(Nat)]
           /\ nonce' \in [Signers -> Nat]
<1> DEFINE m == Len(Accounts)
           new == [i \in 1..m |-> [index |-> u, signer |-> Accounts[i],
                                   nonce |-> nonce[Accounts[i]], profit |-> profit]]
<1>1. m \in Nat
  BY SenderAssumption, LenProperties
<1>2. \A i \in 1..m : Accounts[i] \in Signers /\ nonce[Accounts[i]] \in Nat
  BY DEF Signers, TypeOK
<1>3. \A i \in 1..m : [index |-> u, signer |-> Accounts[i],
                       nonce |-> nonce[Accounts[i]], profit |-> profit] \in Tx
  BY <1>2 DEF Tx
<1>4. new \in Seq(Tx)
  <2> HIDE DEF m
  <2> QED
    BY <1>1, <1>3
<1>5. tasks' = tasks \o new
  BY DEF sign_sending_tx_to_tasks
<1> HIDE DEF new
<1>6. tasks' \in Seq(Tx)
  BY <1>4, <1>5, ConcatProperties DEF TypeOK
<1>7. \A a \in Signers : Append(used[a], nonce[a]) \in Seq(Nat) /\ nonce[a] + 1 \in Nat
  BY AppendProperties DEF TypeOK
<1> QED
  BY <1>6, <1>7 DEF sign_sending_tx_to_tasks

\* The program starts with typed values and an empty bundle.
LEMMA InitSend == Init => SendInv
<1> SUFFICES ASSUME Init PROVE SendInv
  OBVIOUS
<1>1. /\ <<>> \in Seq(Tx) /\ <<>> \in Seq(Nat) /\ Len(<<>>) = 0
  BY EmptySeq
<1>2. /\ MaxReceipts \in Nat \ {0} /\ MaxRaises \in Nat \ {0} /\ MaxBatches \in Nat
  BY SenderAssumption
<1>3. lock = (counter >= MaxReceipts)
  <2>1. counter = 0 /\ lock = FALSE
    BY DEF Init
  <2>2. (counter >= MaxReceipts) = FALSE
    BY <1>2, <2>1
  <2> QED
    BY <2>1, <2>2, Zenon
<1>4. /\ raises \in 0..MaxRaises /\ batches \in 0..MaxBatches /\ counter \in 0..MaxReceipts
      /\ bnb_nonce \in Nat /\ mined \in [Signers -> Nat] /\ nonce = mined /\ base = mined
  BY <1>2 DEF Init
<1>5. /\ task \in {"none", "pt", "idle", "pre_set"} /\ seen \subseteq Users
      /\ tasks \in Seq(Tx) /\ bundle \in Seq(Tx) /\ used \in [Signers -> Seq(Nat)]
      /\ funded \in BOOLEAN /\ ended \in BOOLEAN
      /\ other \subseteq Users \X Debts /\ repeated \subseteq Users \X Debts
      /\ users_to_liquidate \in [Users \X Debts -> Amounts \cup {0}]
      /\ lastSigned \in [Users \X Debts -> Amounts \cup {0}]
  BY <1>1 DEF Init
<1>6. TypeOK
  BY <1>3, <1>4, <1>5, Zenon DEF TypeOK
<1> QED
  BY <1>1, <1>2, <1>6 DEF Init, SendInv, EndInv, OneSigner

\* Every step keeps the types, the budget and the one signer per liquidation.
LEMMA StepSend == SendInv /\ [Next]_vars => SendInv'
<1> SUFFICES ASSUME SendInv, [Next]_vars PROVE SendInv'
  OBVIOUS
<1> USE DEF loop, chain, record, control, history
<1>0. /\ TypeOK /\ EndInv /\ OneSigner
      /\ MaxReceipts \in Nat \ {0} /\ MaxRaises \in Nat \ {0} /\ MaxBatches \in Nat
      /\ \A amount \in Amounts : amount \in Amounts \cup {0}
      /\ <<>> \in Seq(Tx) /\ <<>> \in Seq(Nat)
  BY SenderAssumption, EmptySeq DEF SendInv
<1>1. ASSUME NEW t \in {"pt", "idle"}, signal_simulate_health_factor(t)
      PROVE  SendInv'
  BY <1>0, <1>1 DEF signal_simulate_health_factor, SendInv, TypeOK, EndInv, OneSigner
<1>2. ASSUME NEW u \in Users, NEW d \in Debts, NEW amount \in Amounts,
             liquidation_suppressed(u, d, amount)
      PROVE  SendInv'
  BY <1>0, <1>2 DEF liquidation_suppressed, SendInv, TypeOK, EndInv, OneSigner
<1>3. ASSUME NEW u \in Users, NEW d \in Debts, NEW amount \in Amounts,
             liquidation_abandoned(u, d, amount)
      PROVE  SendInv'
  <2> DEFINE k == <<u, d>>
  <2>1. k \in Users \X Debts
    OBVIOUS
  <2>2. /\ users_to_liquidate' = [users_to_liquidate EXCEPT
                                    ![k] = IF @ = 0 THEN 0 ELSE amount]
        /\ other' = IF users_to_liquidate[k] = 0 THEN other ELSE other \cup {k}
        /\ seen' = seen \cup {u}
        /\ UNCHANGED <<task, tasks, chain, lastSigned, repeated, control, history>>
    BY <1>3 DEF liquidation_abandoned
  <2> HIDE DEF k
  <2>3. users_to_liquidate' \in [Users \X Debts -> Amounts \cup {0}]
    BY <1>0, <2>1, <2>2 DEF TypeOK
  <2>4. other' \subseteq Users \X Debts /\ seen' \subseteq Users
    BY <1>0, <2>1, <2>2 DEF TypeOK
  <2> QED
    BY <1>0, <2>2, <2>3, <2>4 DEF SendInv, TypeOK, EndInv, OneSigner
<1>4. ASSUME NEW u \in Users, NEW d \in Debts, NEW amount \in Amounts,
             NEW profit \in Profits, liquidation_start(u, d, amount, profit)
      PROVE  SendInv'
  <2> DEFINE k == <<u, d>>
  <2>1. k \in Users \X Debts /\ profit \in Int
    BY SenderAssumption
  <2>2. /\ users_to_liquidate' = [users_to_liquidate EXCEPT ![k] = amount]
        /\ lastSigned' = [lastSigned EXCEPT ![k] = amount]
        /\ other' = other \ {k} /\ seen' = seen \cup {u}
        /\ repeated' = repeated \cup {k} \/ repeated' = repeated
        /\ sign_sending_tx_to_tasks(u, profit)
        /\ UNCHANGED <<task, mined, bnb_nonce, funded, base, control, history>>
    BY <1>4 DEF liquidation_start, set_user_liquidated
  <2> HIDE DEF k
  <2>3. /\ users_to_liquidate' \in [Users \X Debts -> Amounts \cup {0}]
        /\ lastSigned' \in [Users \X Debts -> Amounts \cup {0}]
    BY <1>0, <2>1, <2>2 DEF TypeOK
  <2>4. /\ other' \subseteq Users \X Debts /\ seen' \subseteq Users
        /\ repeated' \subseteq Users \X Debts
    BY <1>0, <2>1, <2>2 DEF TypeOK
  <2>5. /\ tasks' \in Seq(Tx) /\ used' \in [Signers -> Seq(Nat)]
        /\ nonce' \in [Signers -> Nat]
    BY <1>0, <2>1, <2>2, SignTypes
  <2> QED
    BY <1>0, <2>2, <2>3, <2>4, <2>5 DEF SendInv, TypeOK, EndInv, OneSigner
<1>5. CASE send_transactions
  <2>1. PICK top \in sorted_txs_liq(tasks) :
           /\ bnb_nonce' = IF lock /\ tasks = <<>> THEN bnb_nonce
                           ELSE bnb_nonce + Len(top) + 1
           /\ bundle' = top
           /\ EndLoop
           /\ UNCHANGED <<nonce, mined, funded, base, used, record, control, batches>>
    BY <1>5 DEF send_transactions
  <2>2. /\ top \in Seq(Tx) /\ Len(top) \in Nat
        /\ \A i, j \in 1..Len(top) : i # j => top[i].index # top[j].index
    BY <1>0, <2>1, TopOfResults, LenProperties DEF TypeOK
  <2>3. bnb_nonce' \in Nat
    BY <1>0, <2>1, <2>2 DEF TypeOK
  <2> QED
    BY <1>0, <2>1, <2>2, <2>3 DEF EndLoop, SendInv, TypeOK, EndInv, OneSigner
<1>6. CASE send_raises
  <2>1. PICK top \in sorted_txs_liq(tasks) :
           /\ task \in {"pt", "idle"}
           /\ bnb_nonce' = bnb_nonce + 1
           /\ bundle' = top
           /\ raises' = IF task = "pt" THEN raises + 1 ELSE raises
           /\ ended' = (task = "idle" \/ raises' >= MaxRaises)
           /\ EndLoop
           /\ UNCHANGED <<nonce, mined, funded, base, used, record, counter, lock, batches>>
    BY <1>6 DEF send_raises
  <2>2. /\ top \in Seq(Tx)
        /\ \A i, j \in 1..Len(top) : i # j => top[i].index # top[j].index
    BY <1>0, <2>1, TopOfResults DEF TypeOK
  <2>3. ~ended /\ raises < MaxRaises /\ raises \in Nat
    BY <1>0, <2>1 DEF EndInv, TypeOK
  <2>4. raises' \in 0..MaxRaises /\ bnb_nonce' \in Nat
    BY <1>0, <2>1, <2>3 DEF TypeOK
  <2>5. ended' \in BOOLEAN
    BY <2>1
  <2>6. ~ended' => ~(raises' >= MaxRaises)
    BY <2>1, Zenon
  <2>7. ~ended' => raises' < MaxRaises
    BY <1>0, <2>4, <2>6
  <2> QED
    BY <1>0, <2>1, <2>2, <2>4, <2>5, <2>7 DEF EndLoop, SendInv, TypeOK, EndInv, OneSigner
<1>7. CASE send_pre_set
  BY <1>0, <1>7 DEF send_pre_set, EndLoop, SendInv, TypeOK, EndInv, OneSigner
<1>8. CASE process_receipts
  <2>1. /\ counter < MaxReceipts /\ counter' = counter + 1
        /\ lock' = (lock \/ counter + 1 >= MaxReceipts)
        /\ UNCHANGED <<loop, chain, record, raises, ended, history>>
    BY <1>8 DEF process_receipts
  <2>2. counter \in 0..MaxReceipts /\ lock = (counter >= MaxReceipts)
    BY <1>0 DEF TypeOK
  <2>3. counter' \in 0..MaxReceipts
    BY <1>0, <2>1, <2>2
  <2>4. lock' = (counter' >= MaxReceipts)
    <3>1. (counter >= MaxReceipts) = FALSE
      BY <1>0, <2>1, <2>2
    <3>2. lock = FALSE
      BY <2>2, <3>1
    <3> QED
      BY <2>1, <3>2
  <2> QED
    BY <1>0, <2>1, <2>3, <2>4 DEF SendInv, TypeOK, EndInv, OneSigner
<1>9. CASE on_message
  BY <1>0, <1>9 DEF on_message, SendInv, TypeOK, EndInv, OneSigner
<1>10. ASSUME NEW a \in Signers, Mine(a) PROVE SendInv'
  <2>1. mined' = [mined EXCEPT ![a] = @ + 1]
    BY <1>10 DEF Mine
  <2>2. mined' \in [Signers -> Nat]
    BY <1>0, <2>1 DEF TypeOK
  <2> QED
    BY <1>0, <1>10, <2>2 DEF Mine, SendInv, TypeOK, EndInv, OneSigner
<1>11. CASE UNCHANGED vars
  BY <1>0, <1>11 DEF vars, SendInv, TypeOK, EndInv, OneSigner
<1> QED
  BY <1>1, <1>2, <1>3, <1>4, <1>5, <1>6, <1>7, <1>8, <1>9, <1>10, <1>11 DEF Next

\* The types of the sender's state hold throughout; in particular the lock is set
\* exactly when enough receipts have failed, and a task never runs on after the
\* exceptions it may have.
THEOREM TypeCorrect == Spec => []TypeOK
<1>1. SendInv => TypeOK
  BY DEF SendInv
<1> QED
  BY <1>1, InitSend, StepSend, PTL DEF Spec

\* However many accounts sign a liquidation and however equal profits are ordered,
\* a bundle has it at most once (send.py:149).
THEOREM OneSignerCorrect == Spec => []OneSigner
<1>1. SendInv => OneSigner
  BY DEF SendInv
<1> QED
  BY <1>1, InitSend, StepSend, PTL DEF Spec
=============================================================================
