-------------------------- MODULE SupervisionProofs -------------------------
(* The retry loops' counters, for any limits and any set of light-node      *)
(* subscriptions, and what one of these subscriptions keeps up to date: the  *)
(* comptroller's parameters.                                                 *)
EXTENDS Supervision, Comet, TLAPS

Waiting == {"connecting", "up"}

\* Each loop's counter in terms of the exceptions it has had.
LoopInv(t) ==
    /\ t \in Light =>
          \/ at[t] = "top" /\ counter[t] = failures[t] /\ counter[t] < MaxLight
          \/ at[t] \in Waiting /\ counter[t] = failures[t] + 1 /\ counter[t] < MaxLight
          \/ at[t] = "raised" /\ counter[t] = MaxLight /\ failures[t] = MaxLight - 1
    /\ t = "header" =>
          /\ counter[t] = failures[t]
          /\ \/ at[t] = "top" /\ counter[t] <= MaxFull
             \/ at[t] \in Waiting /\ counter[t] < MaxFull
             \/ at[t] = "raised" /\ counter[t] = MaxFull
    /\ t = "pending" =>
          \/ at[t] = "top" /\ counter[t] = failures[t] /\ counter[t] < MaxPending
          \/ at[t] \in Waiting /\ counter[t] = failures[t] + 1 /\ counter[t] <= MaxPending
          \/ at[t] = "raised" /\ counter[t] = MaxPending /\ failures[t] = MaxPending
    /\ t = "idle" =>
          \/ at[t] = "up" /\ failures[t] = 0
          \/ at[t] = "raised" /\ failures[t] = 1
    /\ t = "receipts" =>
          \/ at[t] \in Waiting
          \/ at[t] \in {"raised", "returned", "deaf"} /\ failures[t] > 0

IInv ==
    /\ at \in [Tasks -> Places]
    /\ counter \in [Tasks -> Nat]
    /\ abnormal \in 0..MaxAbnormal
    /\ failures \in [Tasks -> Nat]
    /\ ended \in BOOLEAN
    /\ \A t \in Tasks : LoopInv(t)
    /\ ended => \E t \in Tasks : at[t] = "raised"

\* The light subscriptions and the four other loops are tasks, and distinct.
LEMMA Members ==
    /\ Light \subseteq Tasks
    /\ {"header", "pending", "idle", "receipts"} \subseteq Tasks
    /\ \A t \in Light : t \notin {"header", "pending", "idle", "receipts"}
BY SupervisionAssumption DEF Tasks

\* A step of one task leaves the others' loops alone.
LEMMA OneTask ==
    ASSUME IInv, ~ended, NEW t \in Tasks,
           at' \in [Tasks -> Places], counter' \in [Tasks -> Nat],
           failures' \in [Tasks -> Nat], abnormal' \in 0..MaxAbnormal,
           ended' = ended,
           \A o \in Tasks \ {t} : /\ at'[o] = at[o] /\ counter'[o] = counter[o]
                                  /\ failures'[o] = failures[o],
           LoopInv(t)'
    PROVE  IInv'
<1>1. ASSUME NEW o \in Tasks \ {t} PROVE LoopInv(o)'
  <2>1. LoopInv(o)
    BY DEF IInv
  <2>2. at'[o] = at[o] /\ counter'[o] = counter[o] /\ failures'[o] = failures[o]
    OBVIOUS
  <2> QED
    BY <2>1, <2>2 DEF LoopInv
<1>2. \A o \in Tasks : LoopInv(o)'
  BY <1>1
<1> QED
  BY <1>2 DEF IInv

\* What the loops' invariant says of budgets.
LEMMA InvImplies == IInv => TypeOK /\ EndsOverBudget
<1> SUFFICES ASSUME IInv PROVE TypeOK /\ EndsOverBudget
  OBVIOUS
<1>1. /\ MaxLight \in Nat /\ MaxLight > 1 /\ MaxFull \in Nat \ {0}
      /\ MaxPending \in Nat \ {0}
  BY SupervisionAssumption
<1>2. TypeOK
  <2>1. ASSUME NEW t \in Light PROVE counter[t] <= MaxLight
    <3>1. t \in Tasks
      BY Members
    <3>2. LoopInv(t) /\ counter[t] \in Nat
      BY <3>1 DEF IInv
    <3> QED
      BY <1>1, <3>2 DEF LoopInv
  <2>2. counter["header"] <= MaxFull
    BY <1>1, Members DEF IInv, LoopInv
  <2>3. counter["pending"] <= MaxPending
    BY <1>1, Members DEF IInv, LoopInv
  <2> QED
    BY <2>1, <2>2, <2>3 DEF IInv, TypeOK
<1>3. ASSUME NEW t \in Tasks \ {"receipts"}
      PROVE  /\ at[t] = "raised" => failures[t] = Budget(t) + 1
             /\ failures[t] > Budget(t) => at[t] \in {"raised", "top"}
             /\ failures[t] <= Budget(t) + 1
  <2>1. LoopInv(t) /\ counter[t] \in Nat /\ failures[t] \in Nat
    BY DEF IInv
  <2>2. CASE t \in Light
    <3>1. Budget(t) = MaxLight - 2
      BY <2>2, Members DEF Budget
    <3> QED
      BY <1>1, <2>1, <2>2, <3>1 DEF LoopInv, Waiting
  <2>3. CASE t = "header"
    <3>1. Budget(t) = MaxFull - 1
      BY <2>3, Members DEF Budget
    <3> QED
      BY <1>1, <2>1, <2>3, <3>1 DEF LoopInv, Waiting
  <2>4. CASE t = "pending"
    <3>1. Budget(t) = MaxPending - 1
      BY <2>4, Members DEF Budget
    <3> QED
      BY <1>1, <2>1, <2>4, <3>1 DEF LoopInv, Waiting
  <2>5. CASE t = "idle"
    <3>1. Budget(t) = 0
      BY <2>5, Members DEF Budget
    <3> QED
      BY <2>1, <2>5, <3>1 DEF LoopInv, Waiting
  <2> QED
    BY <2>2, <2>3, <2>4, <2>5 DEF Tasks
<1>4. ASSUME ended PROVE \E t \in Tasks : at[t] = "raised" /\ failures[t] > Budget(t)
  <2>1. PICK t \in Tasks : at[t] = "raised"
    BY <1>4 DEF IInv
  <2>2. CASE t = "receipts"
    <3>1. Budget(t) = 0
      BY <2>2, Members DEF Budget
    <3>2. failures[t] > 0
      BY <2>1, <2>2 DEF IInv, LoopInv, Waiting
    <3> QED
      BY <2>1, <3>1, <3>2
  <2>3. CASE t # "receipts"
    <3>1. failures[t] = Budget(t) + 1 /\ failures[t] \in Nat
      BY <1>3, <2>1, <2>3 DEF IInv
    <3>2. Budget(t) \in Int
      BY <1>1 DEF Budget
    <3> QED
      BY <2>1, <3>1, <3>2
  <2> QED
    BY <2>2, <2>3
<1> QED
  BY <1>2, <1>3, <1>4 DEF EndsOverBudget

-----------------------------------------------------------------------------
\* Every loop of liquidation_start begins with its counter at zero.
LEMMA InitInv == Init => IInv
<1> SUFFICES ASSUME Init PROVE IInv
  OBVIOUS
<1>1. /\ MaxLight \in Nat /\ MaxLight > 1 /\ MaxFull \in Nat \ {0}
      /\ MaxPending \in Nat \ {0} /\ MaxAbnormal \in Nat
  BY SupervisionAssumption
<1>2. \A t \in Tasks : at[t] = CASE t = "idle" -> "up"
                                 [] t = "receipts" -> "connecting"
                                 [] OTHER -> "top"
  BY DEF Init
<1>3. \A t \in Tasks : counter[t] = 0 /\ failures[t] = 0
  BY DEF Init
<1>4. ASSUME NEW t \in Tasks PROVE LoopInv(t)
  <2>1. t \in Light => at[t] = "top"
    BY <1>2, Members
  <2>2. t \in {"header", "pending"} => at[t] = "top"
    BY <1>2
  <2>3. (t = "idle" => at[t] = "up") /\ (t = "receipts" => at[t] = "connecting")
    BY <1>2
  <2> QED
    BY <1>1, <1>3, <2>1, <2>2, <2>3 DEF LoopInv, Waiting
<1>5. at \in [Tasks -> Places]
  BY DEF Init, Places
<1>6. counter \in [Tasks -> Nat] /\ failures \in [Tasks -> Nat]
  BY DEF Init
<1>7. abnormal \in 0..MaxAbnormal /\ ended = FALSE
  BY <1>1 DEF Init
<1> QED
  BY <1>4, <1>5, <1>6, <1>7 DEF IInv

\* A step of one loop, or the end of the gather, keeps the invariant.
LEMMA NextInv == IInv /\ [Next]_vars => IInv'
<1> SUFFICES ASSUME IInv, [Next]_vars PROVE IInv'
  OBVIOUS
<1>1. /\ MaxLight \in Nat /\ MaxLight > 1 /\ MaxFull \in Nat \ {0}
      /\ MaxPending \in Nat \ {0} /\ MaxAbnormal \in Nat
  BY SupervisionAssumption
<1>2. /\ at \in [Tasks -> Places] /\ counter \in [Tasks -> Nat]
      /\ failures \in [Tasks -> Nat] /\ abnormal \in 0..MaxAbnormal
      /\ \A t \in Tasks : LoopInv(t)
  BY DEF IInv
<1>3. ASSUME NEW t \in Light, subscribe_event_light(t) PROVE IInv'
  <2>1. t \in Tasks /\ t \notin {"header", "pending", "idle", "receipts"}
    BY Members
  <2>2. LoopInv(t)'
    BY <1>1, <1>2, <1>3, <2>1 DEF subscribe_event_light, Goto, Count, LoopInv, Waiting
  <2> QED
    BY <1>2, <1>3, <2>1, <2>2, OneTask DEF subscribe_event_light, Goto, Count, Places
<1>4. ASSUME NEW t \in Light, light_fails(t) PROVE IInv'
  <2>1. t \in Tasks /\ t \notin {"header", "pending", "idle", "receipts"}
    BY Members
  <2>2. LoopInv(t)'
    BY <1>1, <1>2, <1>4, <2>1 DEF light_fails, Goto, Failed, LoopInv, Waiting
  <2> QED
    BY <1>2, <1>4, <2>1, <2>2, OneTask DEF light_fails, Goto, Failed, Places
<1>5. CASE subscribe_full
  <2>1. "header" \in Tasks /\ "header" \notin Light
    BY Members
  <2>2. LoopInv("header")'
    BY <1>1, <1>2, <1>5, <2>1 DEF subscribe_full, Goto, LoopInv, Waiting
  <2> QED
    BY <1>2, <1>5, <2>1, <2>2, OneTask DEF subscribe_full, Goto, Places
<1>6. CASE full_fails
  <2>1. "header" \in Tasks /\ "header" \notin Light
    BY Members
  <2>2. LoopInv("header")'
    BY <1>1, <1>2, <1>6, <2>1 DEF full_fails, Goto, Count, Failed, LoopInv, Waiting
  <2> QED
    BY <1>2, <1>6, <2>1, <2>2, OneTask DEF full_fails, Goto, Count, Failed, Places
<1>7. CASE full_closed_abnormally
  <2>1. "header" \in Tasks /\ "header" \notin Light
    BY Members
  <2>2. LoopInv("header")'
    BY <1>1, <1>2, <1>7, <2>1 DEF full_closed_abnormally, Goto, LoopInv, Waiting
  <2>3. abnormal' \in 0..MaxAbnormal
    BY <1>1, <1>2, <1>7 DEF full_closed_abnormally
  <2> QED
    BY <1>2, <1>7, <2>1, <2>2, <2>3, OneTask DEF full_closed_abnormally, Goto, Places
<1>8. CASE get_pending_transactions_light
  <2>1. "pending" \in Tasks /\ "pending" \notin Light
    BY Members
  <2>2. LoopInv("pending")'
    BY <1>1, <1>2, <1>8, <2>1
       DEF get_pending_transactions_light, Goto, Count, LoopInv, Waiting
  <2> QED
    BY <1>2, <1>8, <2>1, <2>2, OneTask
       DEF get_pending_transactions_light, Goto, Count, Places
<1>9. CASE pending_fails
  <2>1. "pending" \in Tasks /\ "pending" \notin Light
    BY Members
  <2>2. LoopInv("pending")'
    BY <1>1, <1>2, <1>9, <2>1 DEF pending_fails, Goto, Failed, LoopInv, Waiting
  <2> QED
    BY <1>2, <1>9, <2>1, <2>2, OneTask DEF pending_fails, Goto, Failed, Places
<1>10. ASSUME NEW t \in Tasks, subscribed(t) PROVE IInv'
  <2>1. LoopInv(t)'
    BY <1>2, <1>10 DEF subscribed, Goto, LoopInv, Waiting
  <2> QED
    BY <1>2, <1>10, <2>1, OneTask DEF subscribed, Goto, Places
<1>11. CASE idle_fails
  <2>1. "idle" \in Tasks /\ "idle" \notin Light
    BY Members
  <2>2. LoopInv("idle")'
    BY <1>2, <1>11, <2>1 DEF idle_fails, Goto, Failed, LoopInv, Waiting
  <2> QED
    BY <1>2, <1>11, <2>1, <2>2, OneTask DEF idle_fails, Goto, Failed, Places
<1>12. CASE receipts_unreachable \/ receipts_refused \/ receipts_closed
  <2>1. "receipts" \in Tasks /\ "receipts" \notin Light
    BY Members
  <2>2. LoopInv("receipts")'
    BY <1>2, <1>12, <2>1
       DEF receipts_unreachable, receipts_refused, receipts_closed, Goto, Failed,
           LoopInv, Waiting
  <2> QED
    BY <1>2, <1>12, <2>1, <2>2, OneTask
       DEF receipts_unreachable, receipts_refused, receipts_closed, Goto, Failed, Places
<1>13. CASE gather
  <2>1. at' = at /\ counter' = counter /\ abnormal' = abnormal /\ failures' = failures
        /\ ended' = TRUE /\ \E t \in Tasks : at[t] = "raised"
    BY <1>13 DEF gather
  <2>2. \A t \in Tasks : LoopInv(t)'
    BY <1>2, <2>1 DEF LoopInv
  <2> QED
    BY <1>2, <2>1, <2>2 DEF IInv
<1>14. CASE UNCHANGED vars
  <2>1. \A t \in Tasks : LoopInv(t)'
    BY <1>2, <1>14 DEF LoopInv, vars
  <2> QED
    BY <1>14, <2>1 DEF IInv, vars
<1> QED
  BY <1>3, <1>4, <1>5, <1>6, <1>7, <1>8, <1>9, <1>10, <1>11, <1>12, <1>13, <1>14
     DEF Next, LoopTop

\* The types of the loops' states, for any limits.
THEOREM TypeCorrect == Spec => []TypeOK
BY InitInv, NextInv, InvImplies, PTL DEF Spec

\* The three retry loops (utils.py:101, utils.py:120, compound.py:136), different
\* as their counters are, end after exactly one exception more than their budget,
\* and the program for no other reason.
THEOREM BudgetsCorrect == Spec => []EndsOverBudget
BY InitInv, NextInv, InvImplies, PTL DEF Spec

-----------------------------------------------------------------------------
(* Why SettlesOrEnds holds, without the fairness it needs: a task can leave  *)
(* its place only so often.                                                  *)

\* The loops of subscribe_event_light and of the pending transactions count when
\* they try, the one of the headers when it has failed.
TryRank(place) == CASE place = "connecting" -> 2 [] place = "up" -> 1 [] OTHER -> 0

HeaderRank(place) == CASE place = "top" -> 2 [] place = "connecting" -> 1 [] OTHER -> 0

\* How often a task can still leave the place where it is, at most.
MovesLeft(t) ==
    CASE t \in Light -> 3 * (MaxLight - counter[t]) + TryRank(at[t])
      [] t = "header" ->
            3 * ((MaxFull - counter[t]) + (MaxAbnormal - abnormal)) + HeaderRank(at[t])
      [] t = "pending" -> 3 * (MaxPending - counter[t]) + TryRank(at[t])
      [] OTHER -> TryRank(at[t])

\* A task that leaves its place has fewer moves left, any other as many.
MovesFall ==
    \A t \in Tasks :
        \/ MovesLeft(t)' < MovesLeft(t)
        \/ at'[t] = at[t] /\ MovesLeft(t)' = MovesLeft(t)

\* The number of moves left is a number.
LEMMA MovesNat ==
    ASSUME TypeOK, NEW t \in Tasks
    PROVE  MovesLeft(t) \in Nat
<1>1. /\ MaxLight \in Nat /\ MaxFull \in Nat /\ MaxPending \in Nat /\ MaxAbnormal \in Nat
      /\ \A o \in Light : o \notin {"header", "pending", "idle", "receipts"}
  BY SupervisionAssumption, Members
<1>2. TryRank(at[t]) \in 0..2 /\ HeaderRank(at[t]) \in 0..2
  BY DEF TryRank, HeaderRank
<1>3. CASE t \in Light
  <2>1. counter[t] \in Nat /\ counter[t] <= MaxLight
    BY <1>3 DEF TypeOK
  <2> QED
    BY <1>1, <1>2, <1>3, <2>1 DEF MovesLeft
<1>4. CASE t = "header"
  <2>1. counter[t] \in Nat /\ counter[t] <= MaxFull /\ abnormal \in Nat
        /\ abnormal <= MaxAbnormal
    BY <1>1, <1>4 DEF TypeOK
  <2>2. MovesLeft(t) = 3 * ((MaxFull - counter[t]) + (MaxAbnormal - abnormal))
                           + HeaderRank(at[t])
    BY <1>1, <1>4 DEF MovesLeft
  <2> QED
    BY <1>1, <1>2, <2>1, <2>2
<1>5. CASE t = "pending"
  <2>1. counter[t] \in Nat /\ counter[t] <= MaxPending
    BY <1>5 DEF TypeOK
  <2>2. MovesLeft(t) = 3 * (MaxPending - counter[t]) + TryRank(at[t])
    BY <1>1, <1>5 DEF MovesLeft
  <2> QED
    BY <1>1, <1>2, <2>1, <2>2
<1>6. CASE t \notin Light \cup {"header", "pending"}
  BY <1>2, <1>6 DEF MovesLeft
<1> QED
  BY <1>3, <1>4, <1>5, <1>6

\* If only one task moves, and that one has fewer moves left, moves fall.
LEMMA OneMoves ==
    ASSUME NEW t \in Tasks,
           \A o \in Tasks \ {t} : at'[o] = at[o] /\ counter'[o] = counter[o],
           abnormal' = abnormal \/ t = "header",
           MovesLeft(t)' < MovesLeft(t)
    PROVE  MovesFall
<1>1. ASSUME NEW o \in Tasks \ {t}
      PROVE  at'[o] = at[o] /\ MovesLeft(o)' = MovesLeft(o)
  <2>1. at'[o] = at[o] /\ counter'[o] = counter[o]
    OBVIOUS
  <2>2. o = "header" => abnormal' = abnormal
    OBVIOUS
  <2> QED
    BY <2>1, <2>2 DEF MovesLeft, TryRank, HeaderRank
<1> QED
  BY <1>1 DEF MovesFall

\* Every step of a loop is paid for.
LEMMA StepMoves == TypeOK /\ [Next]_vars => MovesFall
<1> SUFFICES ASSUME TypeOK, [Next]_vars PROVE MovesFall
  OBVIOUS
<1>1. /\ MaxLight \in Nat /\ MaxLight > 1 /\ MaxFull \in Nat \ {0}
      /\ MaxPending \in Nat \ {0} /\ MaxAbnormal \in Nat
  BY SupervisionAssumption
<1>2. /\ at \in [Tasks -> Places] /\ counter \in [Tasks -> Nat] /\ abnormal \in Int
  BY <1>1 DEF TypeOK
<1>m. /\ Light \subseteq Tasks /\ {"header", "pending", "idle", "receipts"} \subseteq Tasks
      /\ \A t \in Light : t \notin {"header", "pending", "idle", "receipts"}
      /\ "header" \notin Light /\ "pending" \notin Light /\ "idle" \notin Light
      /\ "receipts" \notin Light
  BY Members
<1>3. ASSUME NEW t \in Light, subscribe_event_light(t) PROVE MovesFall
  <2>1. MovesLeft(t)' < MovesLeft(t)
    BY <1>1, <1>2, <1>3, <1>m
       DEF subscribe_event_light, Goto, Count, MovesLeft, TryRank
  <2> QED
    BY <1>2, <1>3, <1>m, <2>1, OneMoves DEF subscribe_event_light, Goto, Count
<1>4. ASSUME NEW t \in Light, light_fails(t) PROVE MovesFall
  <2>1. MovesLeft(t)' < MovesLeft(t)
    BY <1>1, <1>2, <1>4, <1>m DEF light_fails, Goto, MovesLeft, TryRank
  <2> QED
    BY <1>2, <1>4, <1>m, <2>1, OneMoves DEF light_fails, Goto
<1>5. CASE subscribe_full
  <2>1. MovesLeft("header")' < MovesLeft("header")
    BY <1>1, <1>2, <1>5, <1>m DEF subscribe_full, Goto, MovesLeft, HeaderRank
  <2> QED
    BY <1>2, <1>5, <1>m, <2>1, OneMoves DEF subscribe_full, Goto
<1>6. CASE full_fails
  <2>1. MovesLeft("header")' < MovesLeft("header")
    BY <1>1, <1>2, <1>6, <1>m DEF full_fails, Goto, Count, MovesLeft, HeaderRank
  <2> QED
    BY <1>2, <1>6, <1>m, <2>1, OneMoves DEF full_fails, Goto, Count
<1>7. CASE full_closed_abnormally
  <2>1. MovesLeft("header")' < MovesLeft("header")
    BY <1>1, <1>2, <1>7, <1>m DEF full_closed_abnormally, Goto, MovesLeft, HeaderRank
  <2> QED
    BY <1>2, <1>7, <1>m, <2>1, OneMoves DEF full_closed_abnormally, Goto
<1>8. CASE get_pending_transactions_light
  <2>1. MovesLeft("pending")' < MovesLeft("pending")
    BY <1>1, <1>2, <1>8, <1>m
       DEF get_pending_transactions_light, Goto, Count, MovesLeft, TryRank
  <2> QED
    BY <1>2, <1>8, <1>m, <2>1, OneMoves DEF get_pending_transactions_light, Goto, Count
<1>9. CASE pending_fails
  <2>1. MovesLeft("pending")' < MovesLeft("pending")
    BY <1>1, <1>2, <1>9, <1>m DEF pending_fails, Goto, MovesLeft, TryRank
  <2> QED
    BY <1>2, <1>9, <1>m, <2>1, OneMoves DEF pending_fails, Goto
<1>10. ASSUME NEW t \in Tasks, subscribed(t) PROVE MovesFall
  <2>1. at[t] = "connecting" /\ at'[t] = "up" /\ counter' = counter /\ abnormal' = abnormal
    BY <1>2, <1>10 DEF subscribed, Goto
  <2>2. MovesLeft(t)' < MovesLeft(t)
    BY <1>1, <1>2, <1>m, <2>1 DEF MovesLeft, TryRank, HeaderRank
  <2> QED
    BY <1>2, <1>10, <2>1, <2>2, OneMoves DEF subscribed, Goto
<1>11. CASE idle_fails
  <2>1. MovesLeft("idle")' < MovesLeft("idle")
    BY <1>2, <1>11, <1>m DEF idle_fails, Goto, MovesLeft, TryRank
  <2> QED
    BY <1>2, <1>11, <1>m, <2>1, OneMoves DEF idle_fails, Goto
<1>12. CASE receipts_unreachable \/ receipts_refused \/ receipts_closed
  <2>1. MovesLeft("receipts")' < MovesLeft("receipts")
    BY <1>2, <1>12, <1>m
       DEF receipts_unreachable, receipts_refused, receipts_closed, Goto, MovesLeft, TryRank
  <2> QED
    BY <1>2, <1>12, <1>m, <2>1, OneMoves
       DEF receipts_unreachable, receipts_refused, receipts_closed, Goto
<1>13. CASE gather \/ UNCHANGED vars
  <2>1. at' = at /\ counter' = counter /\ abnormal' = abnormal
    BY <1>13 DEF gather, vars
  <2> QED
    BY <2>1 DEF MovesFall, MovesLeft, TryRank, HeaderRank
<1> QED
  BY <1>3, <1>4, <1>5, <1>6, <1>7, <1>8, <1>9, <1>10, <1>11, <1>12, <1>13
     DEF Next, LoopTop

\* Whatever connections, closures and exceptions come, each loop leaves its place a
\* bounded number of times in the life of the program: the counters are never reset
\* (utils.py:130), so no subscription is opened again for ever.
THEOREM RetriesBounded ==
    /\ Spec => [](\A t \in Tasks : MovesLeft(t) \in Nat)
    /\ Spec => [][MovesFall]_vars
<1>1. TypeOK => \A t \in Tasks : MovesLeft(t) \in Nat
  BY MovesNat
<1>2. TypeOK /\ [Next]_vars => [MovesFall]_vars
  BY StepMoves
<1> QED
  BY <1>1, <1>2, TypeCorrect, PTL DEF Spec

-----------------------------------------------------------------------------
(* The subscription to the comptroller's logs is one of these loops.  What   *)
(* its callback keeps, CometConfigs, is the component Comet.                 *)

\* What the bot has for a parameter, and what the comptroller has.
Kept(p) ==
    IF p = "incentive" THEN liq_incentive
    ELSE IF decode(p) \in DOMAIN ctokens_collateral_factor
         THEN ctokens_collateral_factor[decode(p)]
         ELSE ctokens_collateral_factor[checksum(p)]

Current(p) == IF p = "incentive" THEN incentive ELSE factor[p]

Changes(b, p) == p \in About(blocks[b])

Quiet(p, from, to) == \A b \in from..to : ~ Changes(b, p)

\* Where the subscription and the last update are on the chain.
Positions ==
    /\ blocks \in Seq(BoundedSeq(Logs, MaxLogs))
    /\ since \in Nat /\ delivered \in Nat /\ last_update \in Nat
    /\ listening \in BOOLEAN
    /\ since <= delivered /\ last_update <= delivered /\ delivered <= Len(blocks)
    /\ last_update > 0 => listening /\ since < last_update
    /\ listening => unread = {}
    /\ ~ listening => delivered = Len(blocks)

\* A queried market has the key of the query; those of the logs come later.
KeysKnown ==
    /\ \A t \in Ctokens \ unread :
          checksum(t) \in DOMAIN ctokens_collateral_factor
    /\ ~ listening => \A t \in Ctokens :
          decode(t) \notin DOMAIN ctokens_collateral_factor

\* The last block about a parameter has what the comptroller has now.
NewestCounts ==
    \A p \in Parameters, b \in 1..Len(blocks) :
        Changes(b, p) /\ Quiet(p, b + 1, Len(blocks))
            => Current(p) = newest(blocks[b], p)

\* Before the subscription: a parameter that was queried and did not change since.
QueriedCurrent ==
    ~ listening => \A p \in Parameters :
        p \notin unread /\ p \notin missed => Kept(p) = Current(p)

\* What the subscription passed after the last update was lost or empty.
PassedMissed ==
    listening => \A b \in last_update + 1 .. delivered :
        b > since => About(blocks[b]) \subseteq missed

\* Applying the last update again changes nothing.
UpdateApplied ==
    last_update > 0 => \A p \in Parameters :
        Changes(last_update, p) => Kept(p) = newest(blocks[last_update], p)

\* A parameter of which nothing was missed and no log is on its way is current.
FollowedCurrent ==
    listening => \A p \in Parameters :
        p \notin missed /\ Quiet(p, delivered + 1, Len(blocks)) => Kept(p) = Current(p)

ConfigsInv ==
    /\ Positions
    /\ KeysKnown
    /\ NewestCounts
    /\ QueriedCurrent
    /\ PassedMissed
    /\ UpdateApplied
    /\ FollowedCurrent

\* An empty block is about nothing.
LEMMA EmptyAbout == About(<<>>) = {}
  BY DEF About, ToSet

\* The spellings of an address are distinct keys, and those of two addresses.
LEMMA Spellings ==
    ASSUME NEW t, NEW u
    PROVE  /\ decode(t) # checksum(u)
           /\ decode(t) = decode(u) => t = u
           /\ checksum(t) = checksum(u) => t = u
           /\ decode(t)[1] = t
  BY DEF decode, checksum

\* update makes of a known parameter what its logs make of it.
LEMMA UpdateKeeps ==
    ASSUME NEW logs, NEW p \in Parameters,
           p # "incentive" =>
               checksum(p) \in DOMAIN ctokens_collateral_factor,
           update(logs)
    PROVE  Kept(p)' = after(logs, p, Kept(p))
<1>1. CASE p = "incentive"
  BY <1>1 DEF Kept, update
<1>2. CASE p # "incentive"
  <2> DEFINE named == About(logs)
             written == {decode(t) : t \in Ctokens \cap named}
             cf == ctokens_collateral_factor
             low == decode(p)
             high == checksum(p)
  <2>1. p \in Ctokens
    BY <1>2 DEF Parameters
  <2>2. cf' = [a \in (DOMAIN cf) \cup written |->
                  IF a \in written THEN newest(logs, a[1]) ELSE cf[a]]
    BY DEF update
  <2>3. high \notin written /\ (low \in written <=> p \in named) /\ low[1] = p
    BY <2>1, Spellings
  <2>4. Kept(p) = IF low \in DOMAIN cf THEN cf[low] ELSE cf[high]
    BY <1>2 DEF Kept
  <2>5. Kept(p)' = IF low \in DOMAIN cf' THEN cf'[low] ELSE cf'[high]
    BY <1>2 DEF Kept, decode, checksum
  <2> HIDE DEF low, high, written, named
  <2>6. high \in DOMAIN cf
    BY <1>2 DEF high
  <2>7. CASE p \in named
    BY <2>2, <2>3, <2>5, <2>7 DEF after, named
  <2>8. CASE p \notin named
    <3>1. Kept(p)' = Kept(p)
      BY <2>2, <2>3, <2>4, <2>5, <2>6, <2>8
    <3> QED
      BY <3>1, <2>8 DEF after, named
  <2> QED
    BY <2>7, <2>8
<1> QED
  BY <1>1, <1>2

\* Before the first query there is nothing to be wrong.
LEMMA ConfigsInit == InitConfigs => ConfigsInv
<1> SUFFICES ASSUME InitConfigs PROVE ConfigsInv
  OBVIOUS
<1> USE DEF InitConfigs
<1>1. Positions
  <2>1. blocks \in Seq(BoundedSeq(Logs, MaxLogs)) /\ Len(blocks) = 0
    OBVIOUS
  <2>2. listening \in BOOLEAN /\ ~ listening
    OBVIOUS
  <2>3. since \in Nat /\ delivered \in Nat /\ last_update \in Nat
    OBVIOUS
  <2>4. since <= delivered /\ last_update <= delivered /\ delivered <= Len(blocks)
    BY <2>1
  <2>5. ~ (last_update > 0) /\ delivered = Len(blocks)
    BY <2>1
  <2> QED
    BY <2>1, <2>2, <2>3, <2>4, <2>5, Zenon DEF Positions
<1>2. KeysKnown
  <2>1. Ctokens \ unread = {} /\ DOMAIN ctokens_collateral_factor = {}
    BY DEF Parameters
  <2> QED
    BY <2>1 DEF KeysKnown
<1>3. NewestCounts /\ QueriedCurrent
  BY DEF NewestCounts, QueriedCurrent, Parameters
<1>4. PassedMissed /\ UpdateApplied /\ FollowedCurrent
  BY DEF PassedMissed, UpdateApplied, FollowedCurrent
<1> QED
  BY <1>1, <1>2, <1>3, <1>4 DEF ConfigsInv

\* A new block: it keeps the earlier ones, and changes what its logs are about.
LEMMA ChainGrows ==
    ASSUME Positions,
           NEW logs, blocks' = Append(blocks, logs),
           incentive' = after(logs, "incentive", incentive),
           factor' = [t \in Ctokens |-> after(logs, t, factor[t])]
    PROVE  /\ Len(blocks') = Len(blocks) + 1 /\ Len(blocks) \in Nat
           /\ \A b \in 1..Len(blocks) : blocks'[b] = blocks[b]
           /\ \A b \in 1..Len(blocks) : \A p : Changes(b, p)' <=> Changes(b, p)
           /\ blocks'[Len(blocks) + 1] = logs
           /\ \A p \in Parameters :
                 Current(p)' = after(logs, p, Current(p))
<1>1. blocks \in Seq(BoundedSeq(Logs, MaxLogs))
  BY DEF Positions
<1>2. /\ Len(blocks') = Len(blocks) + 1 /\ Len(blocks) \in Nat
      /\ \A b \in 1..Len(blocks) : blocks'[b] = blocks[b]
      /\ blocks'[Len(blocks) + 1] = logs
  BY <1>1
<1>3. \A b \in 1..Len(blocks) : \A p : Changes(b, p)' <=> Changes(b, p)
  BY <1>2 DEF Changes
<1>5. ASSUME NEW p \in Parameters
      PROVE  Current(p)' = after(logs, p, Current(p))
  <2>1. CASE p = "incentive"
    BY <2>1 DEF Current
  <2>2. CASE p # "incentive"
    BY <2>2 DEF Current, Parameters
  <2> QED
    BY <2>1, <2>2
<1> QED
  BY <1>2, <1>3, <1>5

\* A new block preserves the invariant: before the subscription, what it is about
\* is missed or not queried yet; after, it is on its way.
LEMMA BlockKeeps ==
    ASSUME ConfigsInv, Block
    PROVE  ConfigsInv'
<1>1. PICK logs \in BoundedSeq(Logs, MaxLogs) :
          /\ blocks' = Append(blocks, logs)
          /\ incentive' = after(logs, "incentive", incentive)
          /\ factor' = [t \in Ctokens |-> after(logs, t, factor[t])]
          /\ missed' = IF listening THEN missed
                       ELSE missed \cup (About(logs) \ unread)
  BY DEF Block
<1>2. /\ delivered' = IF listening THEN delivered ELSE Len(blocks')
      /\ UNCHANGED <<unread, listening, since, liq_incentive,
                     ctokens_collateral_factor, last_update>>
  BY DEF Block, configs
<1>p. Positions
  BY DEF ConfigsInv
<1>n. PICK n : n = Len(blocks)
  OBVIOUS
<1>3. /\ Len(blocks') = n + 1 /\ n \in Nat
      /\ \A b \in 1..n : blocks'[b] = blocks[b]
      /\ \A b \in 1..n : \A p : Changes(b, p)' <=> Changes(b, p)
      /\ blocks'[n + 1] = logs
      /\ \A p \in Parameters :
            Current(p)' = after(logs, p, Current(p))
  BY <1>1, <1>p, <1>n, ChainGrows
<1>a. \A b, p : Changes(b, p)' <=> p \in About(blocks'[b])
  BY DEF Changes
<1>4. \A p : Kept(p)' = Kept(p)
  BY <1>2 DEF Kept, decode, checksum
<1>5. Positions'
  <2>1. blocks' \in Seq(BoundedSeq(Logs, MaxLogs))
    BY <1>1, <1>p DEF Positions
  <2>2. CASE listening
    BY <2>1, <2>2, <1>p, <1>2, <1>3, <1>n DEF Positions
  <2>3. CASE ~ listening
    BY <2>1, <2>3, <1>p, <1>2, <1>3, <1>n DEF Positions
  <2> QED
    BY <2>2, <2>3
<1>6. KeysKnown'
  BY <1>2 DEF ConfigsInv, KeysKnown, decode, checksum
<1>7. NewestCounts'
  <2> SUFFICES ASSUME NEW p \in Parameters, NEW b \in 1..n + 1,
                      Changes(b, p)', \A c \in b + 1 .. n + 1 : ~ Changes(c, p)'
               PROVE  Current(p)' = newest(blocks'[b], p)
    BY <1>3 DEF NewestCounts, Quiet
  <2>1. CASE b = n + 1
    BY <2>1, <1>3, <1>a DEF after
  <2>2. CASE b \in 1..n
    <3>1. p \notin About(logs)
      BY <2>2, <1>3, <1>a
    <3>2. Changes(b, p) /\ Quiet(p, b + 1, n)
      BY <2>2, <1>3 DEF Quiet
    <3>3. Current(p) = newest(blocks[b], p)
      BY <3>2, <2>2, <1>n DEF ConfigsInv, NewestCounts
    <3>4. blocks'[b] = blocks[b]
      BY <2>2, <1>3
    <3> QED
      BY <3>1, <3>3, <3>4, <1>3 DEF after
  <2> QED
    BY <2>1, <2>2, <1>3
<1>8. QueriedCurrent'
  <2> SUFFICES ASSUME ~ listening, NEW p \in Parameters,
                      p \notin unread, p \notin missed'
               PROVE  Kept(p)' = Current(p)'
    BY <1>2 DEF QueriedCurrent
  <2>1. p \notin missed /\ p \notin About(logs)
    BY <1>1
  <2> QED
    BY <2>1, <1>3, <1>4 DEF ConfigsInv, QueriedCurrent, after
<1>9. PassedMissed'
  <2> SUFFICES ASSUME listening, NEW b \in last_update + 1 .. delivered, b > since
               PROVE  About(blocks'[b]) \subseteq missed'
    BY <1>2 DEF PassedMissed
  <2>1. b \in 1..n
    BY <1>p, <1>3, <1>n DEF Positions
  <2>2. blocks'[b] = blocks[b] /\ missed' = missed
    BY <1>1, <1>3, <2>1
  <2> QED
    BY <2>2 DEF ConfigsInv, PassedMissed
<1>10. UpdateApplied'
  <2> SUFFICES ASSUME last_update > 0, NEW p \in Parameters,
                      p \in About(blocks'[last_update])
               PROVE  Kept(p)' = newest(blocks'[last_update], p)
    BY <1>2 DEF UpdateApplied, Changes
  <2>1. last_update \in 1..n
    BY <1>p, <1>3, <1>n DEF Positions
  <2>2. blocks'[last_update] = blocks[last_update]
    BY <1>1, <1>3, <2>1
  <2> QED
    BY <2>2, <1>4 DEF ConfigsInv, UpdateApplied, Changes
<1>11. FollowedCurrent'
  <2> SUFFICES ASSUME listening, NEW p \in Parameters,
                      p \notin missed',
                      \A c \in delivered' + 1 .. n + 1 : ~ Changes(c, p)'
               PROVE  Kept(p)' = Current(p)'
    BY <1>2, <1>3 DEF FollowedCurrent, Quiet
  <2>1. missed' = missed /\ delivered' = delivered /\ delivered \in Nat /\ delivered <= n
    BY <1>1, <1>2, <1>p, <1>n DEF Positions
  <2>2. p \notin About(logs) /\ Quiet(p, delivered + 1, n)
    BY <2>1, <1>3, <1>a DEF Quiet
  <2> QED
    BY <2>1, <2>2, <1>3, <1>4, <1>n DEF ConfigsInv, FollowedCurrent, after
<1> QED
  BY <1>5, <1>6, <1>7, <1>8, <1>9, <1>10, <1>11 DEF ConfigsInv

\* A query gives what the comptroller has at that moment.
LEMMA InitIncentiveKeeps ==
    ASSUME ConfigsInv, init_incentive
    PROVE  ConfigsInv'
<1>1. /\ "incentive" \in unread /\ unread' = unread \ {"incentive"}
      /\ liq_incentive' = incentive
      /\ UNCHANGED <<blocks, incentive, factor, listening, since, delivered, missed,
                     ctokens_collateral_factor, last_update>>
  BY DEF init_incentive, chain
<1>2. Positions /\ ~ listening /\ ~ (last_update > 0)
  BY <1>1 DEF ConfigsInv, Positions
<1>3. \A p : Current(p)' = Current(p)
  BY <1>1 DEF Current
<1>4. \A p : p # "incentive" => Kept(p)' = Kept(p)
  BY <1>1 DEF Kept, decode, checksum
<1>5. Positions'
  BY <1>1, <1>2 DEF Positions
<1>6. KeysKnown'
  BY <1>1, CometAssumption DEF ConfigsInv, KeysKnown, decode, checksum
<1>7. NewestCounts'
  BY <1>1, <1>3 DEF ConfigsInv, NewestCounts, Quiet, Changes
<1>8. QueriedCurrent'
  <2> SUFFICES ASSUME NEW p \in Parameters, p \notin unread', p \notin missed
               PROVE  Kept(p)' = Current(p)'
    BY <1>1 DEF QueriedCurrent
  <2>1. CASE p = "incentive"
    BY <2>1, <1>1 DEF Kept, Current
  <2>2. CASE p # "incentive"
    BY <2>2, <1>1, <1>2, <1>3, <1>4 DEF ConfigsInv, QueriedCurrent
  <2> QED
    BY <2>1, <2>2
<1>9. PassedMissed' /\ UpdateApplied' /\ FollowedCurrent'
  BY <1>1, <1>2 DEF PassedMissed, UpdateApplied, FollowedCurrent
<1> QED
  BY <1>5, <1>6, <1>7, <1>8, <1>9 DEF ConfigsInv

\* The same of a market: its key is the spelling of the query.
LEMMA InitMarketKeeps ==
    ASSUME ConfigsInv, NEW t \in Ctokens, init_market(t)
    PROVE  ConfigsInv'
<1> DEFINE cf == ctokens_collateral_factor
           high == checksum(t)
<1>1. /\ t \in unread /\ unread' = unread \ {t}
      /\ UNCHANGED <<blocks, incentive, factor, listening, since, delivered, missed,
                     liq_incentive, last_update>>
  BY DEF init_market, chain
<1>2. cf' = [a \in (DOMAIN cf) \cup {high} |-> IF a = high THEN factor[t] ELSE cf[a]]
  BY DEF init_market
<1>3. Positions /\ ~ listening /\ ~ (last_update > 0)
  BY <1>1 DEF ConfigsInv, Positions
<1>4. \A p : Current(p)' = Current(p)
  BY <1>1 DEF Current
<1>5. \A u \in Ctokens : decode(u) \notin DOMAIN cf /\ decode(u) # high
  BY <1>3, Spellings DEF ConfigsInv, KeysKnown
<1>6. DOMAIN cf' = (DOMAIN cf) \cup {high}
  BY <1>2
<1> HIDE DEF high
<1>7. Positions'
  BY <1>1, <1>3 DEF Positions
<1>8. \A u \in Ctokens \ unread' : checksum(u) \in DOMAIN cf'
  BY <1>1, <1>6 DEF ConfigsInv, KeysKnown, high
<1>9. KeysKnown'
  BY <1>5, <1>6, <1>8 DEF KeysKnown, decode, checksum
<1>10. NewestCounts'
  BY <1>1, <1>4 DEF ConfigsInv, NewestCounts, Quiet, Changes
<1>11. QueriedCurrent'
  <2> SUFFICES ASSUME NEW p \in Parameters, p \notin unread', p \notin missed
               PROVE  Kept(p)' = Current(p)'
    BY <1>1 DEF QueriedCurrent
  <2>1. CASE p = "incentive"
    <3>1. Kept(p)' = Kept(p) /\ p \notin unread
      BY <2>1, <1>1, CometAssumption DEF Kept
    <3> QED
      BY <3>1, <1>3, <1>4 DEF ConfigsInv, QueriedCurrent
  <2>2. CASE p # "incentive"
    <3> DEFINE up == checksum(p)
    <3>1. p \in Ctokens
      BY <2>2 DEF Parameters
    <3>2. Kept(p) = cf[up]
      BY <2>2, <3>1, <1>5 DEF Kept
    <3>3. Kept(p)' = cf'[up]
      <4>1. decode(p) \notin DOMAIN cf'
        BY <3>1, <1>5, <1>6
      <4> QED
        BY <4>1, <2>2 DEF Kept, decode, checksum
    <3>4. CASE p = t
      <4>1. up = high
        BY <3>4 DEF high
      <4> QED
        BY <4>1, <3>3, <3>4, <2>2, <1>1, <1>2 DEF Current
    <3>5. CASE p # t
      <4>1. p \notin unread /\ up # high /\ up \in DOMAIN cf
        BY <3>1, <3>5, <1>1, Spellings DEF ConfigsInv, KeysKnown, high
      <4>2. Kept(p)' = Kept(p)
        BY <4>1, <3>2, <3>3, <1>2
      <4> QED
        BY <4>1, <4>2, <1>3, <1>4 DEF ConfigsInv, QueriedCurrent
    <3> QED
      BY <3>4, <3>5
  <2> QED
    BY <2>1, <2>2
<1>12. PassedMissed' /\ UpdateApplied' /\ FollowedCurrent'
  BY <1>1, <1>3 DEF PassedMissed, UpdateApplied, FollowedCurrent
<1> QED
  BY <1>7, <1>9, <1>10, <1>11, <1>12 DEF ConfigsInv

\* The subscription begins with the next block.
LEMMA SubscribeKeeps ==
    ASSUME ConfigsInv, subscribe
    PROVE  ConfigsInv'
<1>1. /\ unread = {} /\ ~ listening /\ listening' = TRUE /\ since' = delivered
      /\ UNCHANGED <<blocks, incentive, factor, unread, delivered, missed,
                     liq_incentive, ctokens_collateral_factor, last_update>>
  BY DEF subscribe, chain, configs
<1>2. Positions /\ ~ (last_update > 0)
  BY <1>1 DEF ConfigsInv, Positions
<1>3. \A p : Current(p)' = Current(p)
  BY <1>1 DEF Current
<1>4. \A p : Kept(p)' = Kept(p)
  BY <1>1 DEF Kept, decode, checksum
<1>5. Positions'
  BY <1>1, <1>2 DEF Positions
<1>6. KeysKnown'
  BY <1>1 DEF ConfigsInv, KeysKnown, checksum
<1>7. NewestCounts'
  BY <1>1, <1>3 DEF ConfigsInv, NewestCounts, Quiet, Changes
<1>8. QueriedCurrent' /\ UpdateApplied'
  BY <1>1, <1>2 DEF QueriedCurrent, UpdateApplied
<1>9. PassedMissed'
  BY <1>1, <1>2 DEF PassedMissed, Positions
<1>10. FollowedCurrent'
  BY <1>1, <1>3, <1>4 DEF ConfigsInv, QueriedCurrent, FollowedCurrent
<1> QED
  BY <1>5, <1>6, <1>7, <1>8, <1>9, <1>10 DEF ConfigsInv

\* A block the subscription delivers, for the first time or again.
LEMMA CallbackKeeps ==
    ASSUME ConfigsInv, comet_subscribe_callback
    PROVE  ConfigsInv'
<1>1. PICK n \in since + 1 .. Len(blocks) :
          /\ blocks[n] # <<>>
          /\ \A b \in delivered + 1 .. n - 1 : blocks[b] = <<>>
          /\ delivered' = IF n > delivered THEN n ELSE delivered
          /\ callback(n)
  BY DEF comet_subscribe_callback
<1>2. /\ listening
      /\ UNCHANGED <<blocks, incentive, factor, unread, listening, since, missed>>
  BY DEF comet_subscribe_callback, chain
<1>3. Positions /\ unread = {}
  BY <1>2 DEF ConfigsInv, Positions
<1>4. n \in Nat /\ n > since /\ n > 0 /\ n <= Len(blocks) /\ Len(blocks) \in Nat
  BY <1>1, <1>3 DEF Positions
<1>5. \A p : Current(p)' = Current(p)
  BY <1>2 DEF Current
<1>d. PICK d : d = delivered'
  OBVIOUS
<1>6. d \in Nat /\ d >= delivered /\ d >= n /\ d <= Len(blocks)
  BY <1>1, <1>3, <1>4, <1>d DEF Positions
<1>7. NewestCounts'
  BY <1>2, <1>5 DEF ConfigsInv, NewestCounts, Quiet, Changes
<1>8. QueriedCurrent'
  BY <1>2 DEF QueriedCurrent
<1>9. \A p : /\ Quiet(p, d + 1, Len(blocks))
             /\ ~ (p \in About(blocks[n]) /\ n > delivered)
             => Quiet(p, delivered + 1, Len(blocks))
  <2> SUFFICES ASSUME NEW p, Quiet(p, d + 1, Len(blocks)),
                      ~ (p \in About(blocks[n]) /\ n > delivered),
                      NEW b \in delivered + 1 .. Len(blocks)
               PROVE  ~ Changes(b, p)
    BY DEF Quiet
  <2>1. b \in Nat /\ delivered \in Nat
    BY <1>3, <1>4 DEF Positions
  <2>2. CASE b >= d + 1
    BY <2>1, <2>2, <1>4, <1>6 DEF Quiet
  <2>3. CASE b <= d /\ n <= delivered
    BY <2>1, <2>3, <1>1, <1>4, <1>d
  <2>4. CASE b <= d /\ n > delivered /\ b < n
    <3>1. blocks[b] = <<>>
      BY <2>1, <2>4, <1>1, <1>4
    <3> QED
      BY <3>1, EmptyAbout DEF Changes
  <2>5. CASE b <= d /\ n > delivered /\ b >= n
    <3>1. b = n
      BY <2>1, <2>5, <1>1, <1>4, <1>d
    <3> QED
      BY <3>1, <2>5 DEF Changes
  <2> QED
    BY <2>1, <2>2, <2>3, <2>4, <2>5, <1>4, <1>6
<1>10. CASE n < last_update
  <2>1. UNCHANGED <<liq_incentive, ctokens_collateral_factor, last_update>>
    BY <1>1, <1>10 DEF callback, configs
  <2>2. \A p : Kept(p)' = Kept(p)
    BY <2>1 DEF Kept, decode, checksum
  <2>3. delivered' = delivered
    BY <1>1, <1>3, <1>4, <1>10 DEF Positions
  <2>4. Positions'
    BY <2>1, <2>3, <1>2, <1>3 DEF Positions
  <2>5. KeysKnown'
    BY <2>1, <1>2 DEF ConfigsInv, KeysKnown, checksum
  <2>6. PassedMissed'
    BY <2>1, <2>3, <1>2 DEF ConfigsInv, PassedMissed
  <2>7. UpdateApplied'
    BY <2>1, <2>2, <1>2 DEF ConfigsInv, UpdateApplied, Changes
  <2>8. FollowedCurrent'
    BY <2>2, <2>3, <1>2, <1>5 DEF ConfigsInv, FollowedCurrent, Quiet, Changes
  <2> QED
    BY <2>4, <2>5, <2>6, <2>7, <2>8, <1>7, <1>8 DEF ConfigsInv
<1>11. CASE ~ (n < last_update)
  <2>1. update(blocks[n]) /\ last_update' = n
    BY <1>1, <1>11 DEF callback
  <2>2. \A p \in Parameters :
            p # "incentive" =>
                checksum(p) \in DOMAIN ctokens_collateral_factor
    BY <1>3 DEF ConfigsInv, KeysKnown, Parameters
  <2>3. \A p \in Parameters :
            Kept(p)' = after(blocks[n], p, Kept(p))
    BY <2>1, <2>2, UpdateKeeps
  <2>4. Positions'
    BY <2>1, <1>2, <1>3, <1>4, <1>6, <1>d DEF Positions
  <2>5. KeysKnown'
    <3>1. (DOMAIN ctokens_collateral_factor) \subseteq DOMAIN ctokens_collateral_factor'
      BY <2>1 DEF update
    <3> QED
      BY <3>1, <1>2 DEF ConfigsInv, KeysKnown, checksum
  <2>6. PassedMissed'
    <3> SUFFICES ASSUME NEW b \in n + 1 .. delivered'
                 PROVE  About(blocks[b]) \subseteq missed
      BY <2>1, <1>2 DEF PassedMissed
    <3>1. delivered' = delivered /\ b \in last_update + 1 .. delivered /\ b > since
      BY <1>1, <1>3, <1>4, <1>11 DEF Positions
    <3> QED
      BY <3>1, <1>2 DEF ConfigsInv, PassedMissed
  <2>7. UpdateApplied'
    <3> SUFFICES ASSUME NEW p \in Parameters, p \in About(blocks[n])
                 PROVE  Kept(p)' = newest(blocks[n], p)
      BY <2>1, <1>2 DEF UpdateApplied, Changes
    <3> QED
      BY <2>3 DEF after
  <2>8. FollowedCurrent'
    <3> SUFFICES ASSUME NEW p \in Parameters, p \notin missed,
                        Quiet(p, d + 1, Len(blocks))
                 PROVE  Kept(p)' = Current(p)
      BY <1>2, <1>5, <1>d DEF FollowedCurrent, Quiet, Changes
    <3>1. CASE p \notin About(blocks[n])
      <4>1. Kept(p) = Current(p)
        BY <3>1, <1>2, <1>9 DEF ConfigsInv, FollowedCurrent
      <4> QED
        BY <4>1, <3>1, <2>3 DEF after
    <3>2. CASE p \in About(blocks[n]) /\ n > delivered
      <4>1. d = n
        BY <3>2, <1>1, <1>d
      <4>2. n \in 1..Len(blocks) /\ Changes(n, p) /\ Quiet(p, n + 1, Len(blocks))
        BY <4>1, <3>2, <1>4 DEF Changes
      <4>3. Current(p) = newest(blocks[n], p)
        BY <4>2 DEF ConfigsInv, NewestCounts
      <4> QED
        BY <4>3, <3>2, <2>3 DEF after
    <3>3. CASE p \in About(blocks[n]) /\ n <= delivered /\ n > last_update
      <4>1. n \in last_update + 1 .. delivered
        BY <3>3, <1>3, <1>4 DEF Positions
      <4>2. About(blocks[n]) \subseteq missed
        BY <4>1, <1>2, <1>4 DEF ConfigsInv, PassedMissed
      <4> QED
        BY <4>2, <3>3
    <3>4. CASE p \in About(blocks[n]) /\ n <= delivered /\ n = last_update
      <4>1. Kept(p) = newest(blocks[n], p)
        BY <3>4, <1>4 DEF ConfigsInv, UpdateApplied, Changes
      <4>2. ~ (n > delivered)
        BY <3>4, <1>3, <1>4 DEF Positions
      <4>3. Kept(p) = Current(p)
        BY <4>2, <1>2, <1>9 DEF ConfigsInv, FollowedCurrent
      <4> QED
        BY <4>1, <4>3, <3>4, <2>3 DEF after
    <3> QED
      BY <3>1, <3>2, <3>3, <3>4, <1>3, <1>4, <1>11 DEF Positions
  <2> QED
    BY <2>4, <2>5, <2>6, <2>7, <2>8, <1>7, <1>8 DEF ConfigsInv
<1> QED
  BY <1>10, <1>11

\* A block that comes without a connection is counted as missed.
LEMMA LostKeeps ==
    ASSUME ConfigsInv, Lost
    PROVE  ConfigsInv'
<1>1. PICK n : n = delivered + 1
  OBVIOUS
<1>2. /\ listening /\ delivered < Len(blocks) /\ delivered' = n
      /\ missed' = missed \cup About(blocks[n])
      /\ UNCHANGED <<blocks, incentive, factor, unread, listening, since,
                     liq_incentive, ctokens_collateral_factor, last_update>>
  BY <1>1 DEF Lost, chain, configs
<1>3. Positions
  BY DEF ConfigsInv
<1>4. \A p : Current(p)' = Current(p)
  BY <1>2 DEF Current
<1>5. \A p : Kept(p)' = Kept(p)
  BY <1>2 DEF Kept, decode, checksum
<1>6. Positions'
  BY <1>1, <1>2, <1>3 DEF Positions
<1>7. KeysKnown'
  BY <1>2 DEF ConfigsInv, KeysKnown, checksum
<1>8. NewestCounts'
  BY <1>2, <1>4 DEF ConfigsInv, NewestCounts, Quiet, Changes
<1>9. QueriedCurrent'
  BY <1>2 DEF QueriedCurrent
<1>10. PassedMissed'
  <2> SUFFICES ASSUME NEW b \in last_update + 1 .. n, b > since
               PROVE  About(blocks[b]) \subseteq missed'
    BY <1>2 DEF PassedMissed
  <2>1. CASE b = n
    BY <2>1, <1>2
  <2>2. CASE b # n
    <3>1. b \in last_update + 1 .. delivered
      BY <2>2, <1>1, <1>3 DEF Positions
    <3> QED
      BY <3>1, <1>2 DEF ConfigsInv, PassedMissed
  <2> QED
    BY <2>1, <2>2
<1>11. UpdateApplied'
  BY <1>2, <1>5 DEF ConfigsInv, UpdateApplied, Changes
<1>12. FollowedCurrent'
  <2> SUFFICES ASSUME NEW p \in Parameters, p \notin missed',
                      Quiet(p, n + 1, Len(blocks))
               PROVE  Kept(p)' = Current(p)'
    BY <1>2 DEF FollowedCurrent, Quiet, Changes
  <2>1. p \notin missed /\ ~ Changes(n, p)
    BY <1>2 DEF Changes
  <2>2. Quiet(p, delivered + 1, Len(blocks))
    BY <2>1, <1>1, <1>3 DEF Quiet, Positions
  <2> QED
    BY <2>1, <2>2, <1>2, <1>4, <1>5 DEF ConfigsInv, FollowedCurrent
<1> QED
  BY <1>6, <1>7, <1>8, <1>9, <1>10, <1>11, <1>12 DEF ConfigsInv

\* A step that changes nothing.
LEMMA ConfigsStutter ==
    ASSUME ConfigsInv, UNCHANGED configs_vars
    PROVE  ConfigsInv'
<1>1. UNCHANGED <<blocks, incentive, factor, unread, listening, since, delivered,
                  liq_incentive, ctokens_collateral_factor, last_update, missed>>
  BY DEF configs_vars, chain, configs
<1>2. Positions' /\ KeysKnown'
  BY <1>1 DEF ConfigsInv, Positions, KeysKnown, decode, checksum
<1>3. (\A p : Kept(p)' = Kept(p)) /\ (\A p : Current(p)' = Current(p))
  BY <1>1 DEF Kept, Current, decode, checksum
<1>4. NewestCounts' /\ QueriedCurrent'
  BY <1>1, <1>3 DEF ConfigsInv, NewestCounts, QueriedCurrent, Quiet, Changes
<1>5. PassedMissed' /\ UpdateApplied' /\ FollowedCurrent'
  BY <1>1, <1>3 DEF ConfigsInv, PassedMissed, UpdateApplied, FollowedCurrent, Quiet, Changes
<1> QED
  BY <1>2, <1>4, <1>5 DEF ConfigsInv

\* What the subscription keeps, in every state.
LEMMA ConfigsInvariant == SpecConfigs => []ConfigsInv
<1>1. InitConfigs => ConfigsInv
  BY ConfigsInit
<1>2. ConfigsInv /\ [NextConfigs]_configs_vars => ConfigsInv'
  <2> SUFFICES ASSUME ConfigsInv, [NextConfigs]_configs_vars
               PROVE  ConfigsInv'
    OBVIOUS
  <2> QED
    BY BlockKeeps, InitIncentiveKeeps, InitMarketKeeps, SubscribeKeeps,
       CallbackKeeps, LostKeeps, ConfigsStutter DEF NextConfigs
<1> QED
  BY <1>1, <1>2, PTL DEF SpecConfigs

\* Caught up, nothing is on its way.
LEMMA CaughtUpCurrent ==
    ASSUME ConfigsInv, caught_up, NEW p \in Parameters, p \notin missed
    PROVE  Kept(p) = Current(p)
<1>1. Quiet(p, delivered + 1, Len(blocks))
  BY EmptyAbout DEF caught_up, Quiet, Changes
<1> QED
  BY <1>1 DEF ConfigsInv, FollowedCurrent, caught_up

\* The incentive of a subscription that has caught up is the comptroller's, for any
\* blocks that are delivered again, late or never: the block number that
\* comet_subscribe_callback compares is enough for it.
THEOREM IncentiveCorrect == SpecConfigs => []IncentiveCurrent
<1>1. ConfigsInv => IncentiveCurrent
  <2> SUFFICES ASSUME ConfigsInv, caught_up, "incentive" \notin missed
               PROVE  liq_incentive = incentive
    BY DEF IncentiveCurrent
  <2>1. Kept("incentive") = Current("incentive")
    BY CaughtUpCurrent DEF Parameters
  <2> QED
    BY <2>1 DEF Kept, Current
<1> QED
  BY <1>1, ConfigsInvariant, PTL

\* The same of every market's collateral factor, which is under the key of the logs
\* as soon as there was one, and under that of the query until then.
THEOREM FactorCorrect == SpecConfigs => []FactorRecorded
<1>1. ConfigsInv => FactorRecorded
  <2> SUFFICES ASSUME ConfigsInv, caught_up,
                      NEW t \in Ctokens \ missed
               PROVE  LET key == IF decode(t) \in DOMAIN ctokens_collateral_factor
                                 THEN decode(t) ELSE checksum(t)
                      IN  ctokens_collateral_factor[key] = factor[t]
    BY DEF FactorRecorded
  <2>1. t # "incentive"
    BY CometAssumption
  <2>2. Kept(t) = Current(t)
    BY CaughtUpCurrent DEF Parameters
  <2> QED
    BY <2>1, <2>2 DEF Kept, Current
<1> QED
  BY <1>1, ConfigsInvariant, PTL

\* What calculate_health_factor reads of a market: the factor under the query's key.
InUseKept ==
    \A t \in Ctokens \ unread :
        ctokens_collateral_factor'[checksum(t)]
            = ctokens_collateral_factor[checksum(t)]

\* The factor in use of a market stays what its query gave until the bot starts
\* again, however often the comptroller changes it and whatever logs are delivered:
\* calculate_health_factor (compound.py:581) reads a key that no log writes.
THEOREM FactorInUseFrozen == SpecConfigs => [][InUseKept]_configs_vars
<1> DEFINE cf == ctokens_collateral_factor
<1>1. ConfigsInv /\ [NextConfigs]_configs_vars => [InUseKept]_configs_vars
  <2> SUFFICES ASSUME ConfigsInv, NextConfigs, NEW t \in Ctokens, t \notin unread
               PROVE  cf'[checksum(t)] = cf[checksum(t)]
    BY DEF InUseKept
  <2>1. checksum(t) \in DOMAIN cf
    BY DEF ConfigsInv, KeysKnown
  <2>2. ASSUME NEW logs, update(logs)
        PROVE  cf'[checksum(t)] = cf[checksum(t)]
    <3> DEFINE written == {decode(u) : u \in Ctokens \cap About(logs)}
    <3>1. cf' = [a \in (DOMAIN cf) \cup written |->
                    IF a \in written THEN newest(logs, a[1]) ELSE cf[a]]
      BY <2>2 DEF update
    <3>2. checksum(t) \notin written
      BY Spellings
    <3> HIDE DEF written
    <3> QED
      BY <2>1, <3>1, <3>2
  <2>3. ASSUME NEW u \in Ctokens, init_market(u)
        PROVE  cf'[checksum(t)] = cf[checksum(t)]
    <3> DEFINE high == checksum(u)
    <3>1. cf' = [a \in (DOMAIN cf) \cup {high} |-> IF a = high THEN factor[u] ELSE cf[a]]
      BY <2>3 DEF init_market
    <3>2. checksum(t) # high
      BY <2>3, Spellings DEF init_market
    <3> HIDE DEF high
    <3> QED
      BY <2>1, <3>1, <3>2
  <2>4. CASE comet_subscribe_callback
    <3>1. PICK n \in since + 1 .. Len(blocks) : callback(n)
      BY <2>4 DEF comet_subscribe_callback
    <3>2. cf' = cf \/ update(blocks[n])
      BY <3>1 DEF callback, configs
    <3> QED
      BY <3>2, <2>2
  <2>5. CASE Block \/ init_incentive \/ subscribe \/ Lost
    BY <2>5 DEF Block, init_incentive, subscribe, Lost,
                configs
  <2> QED
    BY <2>3, <2>4, <2>5 DEF NextConfigs
<1> QED
  BY <1>1, ConfigsInvariant, PTL DEF SpecConfigs
=============================================================================
