-------------------------- MODULE PriceCacheProofs --------------------------
(* Theorems about PriceCache for any number of tokens and aggregators, any  *)
(* set of reports, any timeout and any bound on the clock.                  *)
EXTENDS PriceCache, TLAPS

USE ConstantsAssumption

-----------------------------------------------------------------------------
(* Facts about the operators *)

\* A scaled answer or observation is a price.
LEMMA ScaledIsPrice ==
    ASSUME NEW t \in Tokens, NEW x \in Answers \cup Observations
    PROVE  price_scale(t, x) \in Prices
BY DEF Prices

\* Appending zeros to an answer of the oracle leaves it positive.
LEMMA ScaledPositive ==
    ASSUME NEW t \in Tokens, NEW x \in Answers
    PROVE  price_scale(t, x) > 0
<1>1. x \in Nat \ {0} /\ Multiplier[t] \in Nat \ {0}
  OBVIOUS
<1>2. \A m, n \in Nat \ {0} : m * n > 0
  OBVIOUS
<1>3. QED
  BY <1>1, <1>2 DEF price_scale

\* The middle of a report that has observations is one of its observations.
LEMMA MiddleIsObservation ==
    ASSUME NEW obs \in Seq(Observations), obs # <<>>
    PROVE  MiddleObservation(obs) \in Observations
<1>1. Len(obs) \in Nat \ {0}
  OBVIOUS
<1>2. Len(obs) \div 2 + 1 \in 1..Len(obs)
  BY <1>1
<1>3. QED
  BY <1>2 DEF MiddleObservation

\* What the three methods of CtokenPrice preserve.
LEMMA MethodTypes ==
    ASSUME NEW p \in CtokenPrice, NEW now \in Nat
    PROVE  /\ \A new \in Prices : update(p, new, now) \in CtokenPrice
           /\ \A new \in Prices : confirm(p, new) \in CtokenPrice
           /\ revert(p, now) \in CtokenPrice
<1>1. ASSUME NEW new \in Prices PROVE update(p, new, now) \in CtokenPrice
  BY DEF CtokenPrice, update
<1>2. ASSUME NEW new \in Prices PROVE confirm(p, new) \in CtokenPrice
  BY DEF CtokenPrice, confirm
<1>3. revert(p, now) \in CtokenPrice
  BY DEF CtokenPrice, revert
<1>4. QED
  BY <1>1, <1>2, <1>3

\* A clock reading is a second within the bound.
LEMMA ReadingTypes ==
    ASSUME clock \in 0..MaxClock, NEW now \in ClockReadings
    PROVE  /\ \A t \in Tokens : now[t] \in Nat
           /\ ClockAfter(now) \in 0..MaxClock
BY DEF ClockReadings, ClockAfter

-----------------------------------------------------------------------------
(* Types *)

\* Prices start as scaled answers of the oracle.
LEMMA InitTypes == Init => TypeOK
<1> SUFFICES ASSUME Init PROVE TypeOK
  OBVIOUS
<1>1. price \in [Tokens -> CtokenPrice]
  <2>1. \A t \in Tokens : price_scale(t, InitAnswer[Source[t]]) \in Prices
    BY ScaledIsPrice
  <2>2. QED
    BY <2>1 DEF Init, new_ctoken_price, CtokenPrice
<1>2. QED
  BY <1>1 DEF Init, TypeOK

\* Every step keeps the types.
LEMMA StepTypes == TypeOK /\ [Next]_vars => TypeOK'
<1> SUFFICES ASSUME TypeOK, [Next]_vars PROVE TypeOK'
  OBVIOUS
<1> USE DEF TypeOK
<1>1. ASSUME NEW r \in Reports, pt(r) PROVE TypeOK'
  <2>1. r \in Report
    OBVIOUS
  <2>2. signals_epoch' \in [Aggregators -> Nat]
    BY <1>1, <2>1 DEF pt, Report
  <2>3. PICK now \in ClockReadings :
          IF HasPrice(r)
          THEN /\ price' = [t \in Tokens |->
                    IF t \in Reached(r)
                    THEN update(price[t],
                                price_scale(t, MiddleObservation(r.obs)), now[t])
                    ELSE price[t]]
               /\ clock' = ClockAfter(now)
          ELSE UNCHANGED <<price, clock>>
    BY <1>1 DEF pt
  <2>4. CASE HasPrice(r)
    <3>1. \A t \in Tokens : price_scale(t, MiddleObservation(r.obs)) \in Prices
      BY <2>1, <2>4, MiddleIsObservation, ScaledIsPrice DEF HasPrice, Report
    <3>2. /\ \A t \in Tokens : now[t] \in Nat
          /\ ClockAfter(now) \in 0..MaxClock
      BY ReadingTypes
    <3> DEFINE upd(t) == update(price[t],
                               price_scale(t, MiddleObservation(r.obs)), now[t])
    <3>3. price' \in [Tokens -> CtokenPrice]
      <4>1. \A t \in Tokens : upd(t) \in CtokenPrice
        BY <3>1, <3>2, MethodTypes
      <4> HIDE DEF upd
      <4>2. price' = [t \in Tokens |->
                        IF t \in Reached(r) THEN upd(t) ELSE price[t]]
        BY <2>3, <2>4 DEF upd
      <4>3. QED
        BY <4>1, <4>2
    <3>4. clock' \in 0..MaxClock
      BY <2>3, <2>4, <3>2
    <3>5. QED
      BY <1>1, <2>2, <3>3, <3>4 DEF pt, chainVars
  <2>5. CASE ~HasPrice(r)
    BY <1>1, <2>2, <2>3, <2>5 DEF pt, chainVars
  <2>6. QED
    BY <2>4, <2>5
<1>2. ASSUME NEW r \in Reports, Mine(r) PROVE TypeOK'
  <2>1. r \in Report
    OBVIOUS
  <2>2. MiddleObservation(r.obs) \in Answers
    BY <1>2 DEF Mine
  <2>3. events' \in Seq(Transmission)
    BY <1>2, <2>1, <2>2 DEF Mine, Report, Transmission
  <2>4. QED
    BY <1>2, <2>1, <2>2, <2>3 DEF Mine, Report, botVars
<1>3. ASSUME signals_subscribe_callback PROVE TypeOK'
  <2>1. Head(events) \in Transmission
    BY <1>3 DEF signals_subscribe_callback
  <2>2. events' \in Seq(Transmission)
    BY <1>3 DEF signals_subscribe_callback
  <2>3. \A t \in Tokens :
          confirm(price[t], price_scale(t, Head(events).answer)) \in CtokenPrice
    BY <2>1, ScaledIsPrice, MethodTypes DEF Transmission
  <2>4. price' \in [Tokens -> CtokenPrice]
    BY <1>3, <2>3 DEF signals_subscribe_callback
  <2>5. QED
    BY <1>3, <2>1, <2>2, <2>4
       DEF signals_subscribe_callback, chainVars, Transmission
<1>4. ASSUME on_message PROVE TypeOK'
  <2>1. PICK now \in ClockReadings :
          /\ price' = [t \in Tokens |-> revert(price[t], now[t])]
          /\ clock' = ClockAfter(now)
    BY <1>4 DEF on_message
  <2>2. /\ \A t \in Tokens : now[t] \in Nat
        /\ ClockAfter(now) \in 0..MaxClock
    BY ReadingTypes
  <2>3. \A t \in Tokens : revert(price[t], now[t]) \in CtokenPrice
    BY <2>2, MethodTypes
  <2>4. QED
    BY <1>4, <2>1, <2>2, <2>3 DEF on_message, chainVars
<1>5. ASSUME Tick PROVE TypeOK'
  BY <1>5 DEF Tick, botVars, chainVars
<1>6. ASSUME Reconnect PROVE TypeOK'
  <2>1. \A i \in 1..Len(events) : events[i].aggr \in Aggregators
    <3>1. \A i \in 1..Len(events) : events[i] \in Transmission
      OBVIOUS
    <3>2. QED
      BY <3>1 DEF Transmission
  <2>2. QED
    BY <1>6, <2>1 DEF Reconnect, botVars, chainVars
<1>7. ASSUME on_message_raises PROVE TypeOK'
  BY <1>7 DEF on_message_raises, chainVars
<1>8. CASE UNCHANGED vars
  BY <1>8 DEF vars
<1>9. QED
  BY <1>1, <1>2, <1>3, <1>4, <1>5, <1>6, <1>7, <1>8 DEF Next

\* Every reachable state of the cache, the clock and the oracle is well typed.
THEOREM TypeCorrect == Spec => []TypeOK
BY InitTypes, StepTypes, PTL DEF Spec

-----------------------------------------------------------------------------
(* The rollback target *)

\* update and revert keep the price a token falls back to, confirm sets it;
\* revert puts it in force.
LEMMA MethodFallback ==
    ASSUME NEW p \in CtokenPrice, NEW new, NEW now
    PROVE  /\ Fallback(update(p, new, now)) = Fallback(p)
           /\ Fallback(revert(p, now)) = Fallback(p)
           /\ Fallback(confirm(p, new)) = new
           /\ \/ revert(p, now) = p
              \/ ~p.is_comfired /\ revert(p, now).is_comfired
BY DEF CtokenPrice, Fallback, update, revert, confirm

\* The current price is a scaled answer or observation, confirmed or not.
CurrentIsPrice == \A t \in Tokens : price[t].price_current \in Prices

\* The inductive invariant: the current price is a price because what it falls
\* back to is an answer of the oracle, so neither part is inductive alone.
IInv == TypeOK /\ RollbackTarget /\ CurrentIsPrice

\* Nothing is speculated on when the bot starts.
LEMMA InitIInv == Init => IInv
<1> SUFFICES ASSUME Init PROVE IInv
  OBVIOUS
<1>1. TypeOK
  BY InitTypes
<1>2. \A t \in Tokens : price_scale(t, InitAnswer[Source[t]]) \in Prices
  BY ScaledIsPrice
<1>3. QED
  BY <1>1, <1>2
     DEF IInv, Init, RollbackTarget, CurrentIsPrice, Fallback, new_ctoken_price

\* Every step keeps the inductive invariant.
LEMMA StepIInv == IInv /\ [Next]_vars => IInv'
<1> SUFFICES ASSUME IInv, [Next]_vars PROVE IInv'
  OBVIOUS
<1>1. TypeOK /\ TypeOK'
  BY StepTypes DEF IInv
<1>2. RollbackTarget /\ CurrentIsPrice
  BY DEF IInv
<1>3. \A t \in Tokens : price[t] \in CtokenPrice
  BY <1>1 DEF TypeOK
<1>4. ASSUME NEW r \in Reports, pt(r) PROVE (RollbackTarget /\ CurrentIsPrice)'
  <2>1. PICK now \in ClockReadings :
          IF HasPrice(r)
          THEN price' = [t \in Tokens |->
                    IF t \in Reached(r)
                    THEN update(price[t],
                                price_scale(t, MiddleObservation(r.obs)), now[t])
                    ELSE price[t]]
          ELSE UNCHANGED price
    BY <1>4 DEF pt
  <2>2. reported' = reported
    BY <1>4 DEF pt
  <2>3. CASE HasPrice(r)
    <3>1. \A t \in Tokens : price_scale(t, MiddleObservation(r.obs)) \in Prices
      BY <2>3, MiddleIsObservation, ScaledIsPrice DEF HasPrice, Report
    <3>2. ASSUME NEW t \in Tokens
          PROVE  /\ Fallback(price'[t]) = Fallback(price[t])
                 /\ price'[t].price_current \in Prices
      <4>1. CASE t \in Reached(r)
        <5>1. price'[t] = update(price[t],
                            price_scale(t, MiddleObservation(r.obs)), now[t])
          BY <2>1, <2>3, <4>1
        <5>2. price'[t].price_current = price_scale(t, MiddleObservation(r.obs))
          BY <5>1 DEF update
        <5>3. QED
          BY <1>3, <3>1, <5>1, <5>2, MethodFallback
      <4>2. CASE t \notin Reached(r)
        BY <1>2, <2>1, <2>3, <4>2 DEF CurrentIsPrice
      <4>3. QED
        BY <4>1, <4>2
    <3>3. QED
      BY <1>2, <2>2, <3>2 DEF RollbackTarget, CurrentIsPrice
  <2>4. CASE ~HasPrice(r)
    BY <1>2, <2>1, <2>2, <2>4 DEF RollbackTarget, CurrentIsPrice
  <2>5. QED
    BY <2>3, <2>4
<1>5. ASSUME signals_subscribe_callback
      PROVE  (RollbackTarget /\ CurrentIsPrice)'
  <2> DEFINE e == Head(events)
  <2>1. e \in Transmission
    BY <1>1, <1>5 DEF signals_subscribe_callback, TypeOK
  <2>2. /\ price' = [t \in Tokens |->
              IF Source[t] = e.aggr
              THEN confirm(price[t], price_scale(t, e.answer)) ELSE price[t]]
        /\ reported' = [reported EXCEPT ![e.aggr] = e.answer]
    BY <1>5 DEF signals_subscribe_callback
  <2> HIDE DEF e
  <2>3. ASSUME NEW t \in Tokens
        PROVE  /\ Fallback(price'[t]) = price_scale(t, reported'[Source[t]])
               /\ price'[t].price_current \in Prices
    <3>1. CASE Source[t] = e.aggr
      <4>1. price'[t] = confirm(price[t], price_scale(t, e.answer))
        BY <2>2, <3>1
      <4>2. reported'[Source[t]] = e.answer
        BY <1>1, <2>2, <3>1 DEF TypeOK
      <4>3. price_scale(t, e.answer) \in Prices
        BY <2>1, ScaledIsPrice DEF Transmission
      <4>4. price'[t].price_current = price_scale(t, e.answer)
        BY <1>3, <4>1 DEF confirm, CtokenPrice
      <4>5. QED
        BY <1>3, <4>1, <4>2, <4>3, <4>4, MethodFallback, SMTT(30)
    <3>2. CASE Source[t] # e.aggr
      <4>1. price'[t] = price[t] /\ reported'[Source[t]] = reported[Source[t]]
        BY <1>1, <2>2, <3>2 DEF TypeOK
      <4>2. QED
        BY <1>2, <4>1 DEF RollbackTarget, CurrentIsPrice
    <3>3. QED
      BY <3>1, <3>2
  <2>4. QED
    BY <2>3 DEF RollbackTarget, CurrentIsPrice
<1>6. ASSUME on_message PROVE (RollbackTarget /\ CurrentIsPrice)'
  <2>1. PICK now \in ClockReadings :
          price' = [t \in Tokens |-> revert(price[t], now[t])]
    BY <1>6 DEF on_message
  <2>2. reported' = reported
    BY <1>6 DEF on_message
  <2>3. ASSUME NEW t \in Tokens
        PROVE  /\ Fallback(price'[t]) = Fallback(price[t])
               /\ price'[t].price_current \in Prices
    <3>1. price'[t] = revert(price[t], now[t])
      BY <2>1
    <3>2. Fallback(price'[t]) = Fallback(price[t])
      BY <1>3, <3>1, MethodFallback
    <3>3. \/ price'[t] = price[t]
          \/ price'[t].price_current = Fallback(price'[t])
      BY <1>3, <3>1, MethodFallback, SMTT(30) DEF Fallback
    <3>4. Fallback(price[t]) \in Prices
      <4>1. reported[Source[t]] \in Answers
        BY <1>1 DEF TypeOK
      <4>2. Fallback(price[t]) = price_scale(t, reported[Source[t]])
        BY <1>2 DEF RollbackTarget
      <4>3. QED
        BY <4>1, <4>2, ScaledIsPrice
    <3>5. QED
      BY <1>2, <3>2, <3>3, <3>4 DEF CurrentIsPrice
  <2>4. QED
    BY <1>2, <2>2, <2>3 DEF RollbackTarget, CurrentIsPrice
<1>7. ASSUME UNCHANGED <<price, reported>>
      PROVE  (RollbackTarget /\ CurrentIsPrice)'
  BY <1>2, <1>7 DEF RollbackTarget, CurrentIsPrice
<1>8. QED
  BY <1>1, <1>4, <1>5, <1>6, <1>7
     DEF IInv, Next, Mine, Tick, Reconnect, on_message_raises, botVars, vars

\* The inductive invariant holds throughout.
LEMMA Invariance == Spec => []IInv
BY InitIInv, StepIInv, PTL DEF Spec

\* Whatever the order of pending transactions, events and headers, reverting
\* a price brings back the last answer the chain reported.
THEOREM RollbackCorrect == Spec => []RollbackTarget
BY Invariance, PTL DEF IInv

\* A header leaves a token alone or closes it at the answer last reported, and
\* that answer is positive.
LEMMA HeaderPositive ==
    ASSUME IInv, on_message, NEW t \in Tokens
    PROVE  \/ price'[t] = price[t]
           \/ price'[t].is_comfired /\ price'[t].price_current > 0
<1>1. price[t] \in CtokenPrice /\ reported[Source[t]] \in Answers
  BY DEF IInv, TypeOK
<1>2. PICK now \in ClockReadings :
        price' = [u \in Tokens |-> revert(price[u], now[u])]
  BY DEF on_message
<1>3. price'[t] = revert(price[t], now[t])
  BY <1>2
<1>4. CASE price'[t].is_comfired /\ ~price[t].is_comfired
  <2>1. price'[t].price_current = Fallback(price[t])
    BY <1>1, <1>3, <1>4, MethodFallback, SMTT(30) DEF Fallback
  <2>2. Fallback(price[t]) = price_scale(t, reported[Source[t]])
    BY DEF IInv, RollbackTarget
  <2>3. QED
    BY <1>1, <1>4, <2>1, <2>2, ScaledPositive
<1>5. QED
  BY <1>1, <1>3, <1>4, MethodFallback

\* An event leaves a token of another aggregator alone and closes the others at
\* a positive answer.
LEMMA EventPositive ==
    ASSUME IInv, signals_subscribe_callback, NEW t \in Tokens
    PROVE  \/ price'[t] = price[t]
           \/ price'[t].is_comfired /\ price'[t].price_current > 0
<1> DEFINE e == Head(events)
<1>1. price[t] \in CtokenPrice /\ e \in Transmission
  BY DEF IInv, TypeOK, signals_subscribe_callback
<1>2. \/ price'[t] = price[t]
      \/ price'[t] = confirm(price[t], price_scale(t, e.answer))
  BY DEF signals_subscribe_callback
<1> HIDE DEF e
<1>3. /\ confirm(price[t], price_scale(t, e.answer)).is_comfired
      /\ confirm(price[t], price_scale(t, e.answer)).price_current
           = price_scale(t, e.answer)
  BY <1>1 DEF confirm, CtokenPrice
<1>4. price_scale(t, e.answer) > 0
  BY <1>1, ScaledPositive DEF Transmission
<1>5. QED
  BY <1>2, <1>3, <1>4

\* A token whose price is zero is not among those pt reaches.
LEMMA SignalSkipsZero ==
    ASSUME IInv, NEW r \in Reports, pt(r),
           NEW t \in Tokens, price[t].price_current = 0
    PROVE  price'[t] = price[t]
<1>1. Place[t] <= Place[t]
  OBVIOUS
<1>2. t \notin Reached(r)
  BY <1>1 DEF Reached
<1>3. QED
  BY <1>2 DEF pt

\* A price of zero stays until an event or a header replaces it by a confirmed
\* price above zero: what the chain reported is positive, and pt raises at the
\* division before it writes such a token again.
THEOREM ZeroEnds == Spec => ZeroEndsConfirmed
<1> DEFINE Ends == \A t \in Tokens : price[t].price_current = 0 =>
                       \/ price'[t] = price[t]
                       \/ price'[t].is_comfired /\ price'[t].price_current > 0
<1>1. IInv /\ [Next]_vars => [Ends]_vars
  <2> SUFFICES ASSUME IInv, Next, NEW t \in Tokens, price[t].price_current = 0
               PROVE  \/ price'[t] = price[t]
                      \/ price'[t].is_comfired /\ price'[t].price_current > 0
    OBVIOUS
  <2>1. ASSUME NEW r \in Reports, pt(r) PROVE price'[t] = price[t]
    BY <2>1, SignalSkipsZero
  <2>2. CASE UNCHANGED price
    BY <2>2
  <2>3. QED
    BY <2>1, <2>2, EventPositive, HeaderPositive
       DEF Next, Mine, Tick, Reconnect, on_message_raises, botVars
<1>2. QED
  BY <1>1, Invariance, PTL DEF Spec, ZeroEndsConfirmed

-----------------------------------------------------------------------------
(* The settled price: what is on its way, and what has arrived *)

\* Of every aggregator the last event on its way carries the latest answer, and
\* with none on its way and none lost that answer has been reported.
FeedInv ==
    /\ \A i \in 1..Len(events) :
          (\A j \in i + 1 .. Len(events) : events[j].aggr # events[i].aggr)
              => events[i].answer = answer[events[i].aggr]
    /\ \A a \in Aggregators \ missed :
          (\A i \in 1..Len(events) : events[i].aggr # a)
              => reported[a] = answer[a]

\* A header, a tick or a pending transaction does not touch the feed; a mined
\* report, an event handed over and a lost connection keep the invariant.
LEMMA StepFeed == TypeOK /\ FeedInv /\ [Next]_vars => FeedInv'
<1> SUFFICES ASSUME TypeOK, FeedInv, [Next]_vars PROVE FeedInv'
  OBVIOUS
<1>1. /\ events \in Seq(Transmission)
      /\ Len(events) \in Nat
      /\ answer \in [Aggregators -> Answers]
      /\ reported \in [Aggregators -> Answers]
      /\ \A i \in 1..Len(events) : events[i] \in Transmission
  BY DEF TypeOK
<1>2. ASSUME NEW r \in Reports, Mine(r) PROVE FeedInv'
  <2> DEFINE a == r.to
             m == MiddleObservation(r.obs)
             e == [aggr |-> a, answer |-> m]
             n == Len(events)
  <2>1. r \in Report /\ r.obs # <<>>
    BY <1>2 DEF Mine
  <2>2. a \in Aggregators /\ m \in Answers /\ e \in Transmission
    BY <1>2, <2>1 DEF Mine, Report, Transmission
  <2>3. /\ events' = Append(events, e)
        /\ answer' = [answer EXCEPT ![a] = m]
        /\ reported' = reported /\ missed' = missed
    BY <1>2 DEF Mine
  <2>4. e.aggr = a /\ e.answer = m
    OBVIOUS
  <2> HIDE DEF e, a, m
  <2>5. /\ Len(events') = n + 1 /\ events'[n + 1] = e
        /\ \A i \in 1..n : events'[i] = events[i]
    BY <1>1, <2>2, <2>3
  <2>6. ASSUME NEW i \in 1..Len(events'),
               \A j \in i + 1 .. Len(events') : events'[j].aggr # events'[i].aggr
        PROVE  events'[i].answer = answer'[events'[i].aggr]
    <3>1. CASE i = n + 1
      BY <1>1, <2>2, <2>3, <2>4, <2>5, <3>1
    <3>2. CASE i # n + 1
      <4>0. i \in 1..n + 1 /\ n \in Nat
        BY <1>1, <2>5
      <4>1. i \in 1..n /\ events'[i] = events[i] /\ n + 1 \in i + 1 .. n + 1
        BY <2>5, <3>2, <4>0
      <4>2. events[i].aggr # a
        BY <2>4, <2>5, <2>6, <4>1
      <4>3. \A j \in i + 1 .. n : events[j].aggr # events[i].aggr
        BY <1>1, <2>5, <2>6, <4>1
      <4>4. events[i].answer = answer[events[i].aggr]
        BY <4>1, <4>3 DEF FeedInv
      <4>5. events[i].aggr \in Aggregators
        BY <1>1, <4>1 DEF Transmission
      <4> QED
        BY <1>1, <2>3, <4>1, <4>2, <4>4, <4>5
    <3> QED
      BY <3>1, <3>2
  <2>7. ASSUME NEW b \in Aggregators \ missed',
               \A i \in 1..Len(events') : events'[i].aggr # b
        PROVE  reported'[b] = answer'[b]
    <3>1. b # a
      BY <1>1, <2>4, <2>5, <2>7
    <3>2. \A i \in 1..n : events[i].aggr # b
      BY <1>1, <2>5, <2>7
    <3>3. reported[b] = answer[b]
      BY <2>3, <3>2 DEF FeedInv
    <3> QED
      BY <1>1, <2>2, <2>3, <3>1, <3>3
  <2> QED
    BY <2>6, <2>7 DEF FeedInv
<1>3. ASSUME signals_subscribe_callback PROVE FeedInv'
  <2> DEFINE e == Head(events)
             n == Len(events)
  <2>1. /\ events # <<>> /\ events' = Tail(events) /\ answer' = answer
        /\ reported' = [reported EXCEPT ![e.aggr] = e.answer]
        /\ missed' = missed \ {e.aggr}
    BY <1>3 DEF signals_subscribe_callback, chainVars
  <2>2. n \in Nat \ {0} /\ e = events[1] /\ e \in Transmission
    BY <1>1, <2>1
  <2>3. Len(events') = n - 1 /\ \A i \in 1..n - 1 : events'[i] = events[i + 1]
    BY <1>1, <2>1, <2>2
  <2> HIDE DEF e
  <2>4. e.aggr \in Aggregators
    BY <2>2 DEF Transmission
  <2>5. ASSUME NEW i \in 1..Len(events'),
               \A j \in i + 1 .. Len(events') : events'[j].aggr # events'[i].aggr
        PROVE  events'[i].answer = answer'[events'[i].aggr]
    <3>1. i + 1 \in 1..n /\ events'[i] = events[i + 1]
      BY <2>2, <2>3
    <3>2. ASSUME NEW j \in (i + 1) + 1 .. n
          PROVE  events[j].aggr # events[i + 1].aggr
      <4>1. j - 1 \in i + 1 .. n - 1 /\ (j - 1) + 1 = j
        BY <2>2, <2>3
      <4>2. events'[j - 1] = events[j]
        BY <2>2, <2>3, <4>1
      <4> QED
        BY <2>3, <2>5, <3>1, <4>1, <4>2
    <3> QED
      BY <2>1, <3>1, <3>2 DEF FeedInv
  <2>6. ASSUME NEW b \in Aggregators \ missed',
               \A i \in 1..Len(events') : events'[i].aggr # b
        PROVE  reported'[b] = answer'[b]
    <3>1. ASSUME NEW j \in 2..n PROVE events[j].aggr # b
      <4>1. j - 1 \in 1..n - 1 /\ (j - 1) + 1 = j
        BY <2>2
      <4> QED
        BY <2>3, <2>6, <4>1
    <3>2. CASE b = e.aggr
      <4>1. \A j \in 1 + 1 .. n : events[j].aggr # events[1].aggr
        BY <2>2, <3>1, <3>2
      <4>2. e.answer = answer[b]
        BY <2>2, <3>2, <4>1 DEF FeedInv
      <4> QED
        BY <1>1, <2>1, <2>4, <3>2, <4>2
    <3>3. CASE b # e.aggr
      <4>1. \A j \in 1..n : events[j].aggr # b
        BY <2>2, <3>1, <3>3
      <4>2. reported[b] = answer[b]
        BY <2>1, <3>3, <4>1 DEF FeedInv
      <4> QED
        BY <1>1, <2>1, <2>4, <3>3, <4>2
    <3> QED
      BY <3>2, <3>3
  <2> QED
    BY <2>5, <2>6 DEF FeedInv
<1>4. ASSUME Reconnect PROVE FeedInv'
  <2>1. /\ events' = <<>> /\ reported' = reported /\ answer' = answer
        /\ missed' = missed \cup {events[i].aggr : i \in 1..Len(events)}
    BY <1>4 DEF Reconnect, chainVars
  <2>2. ASSUME NEW b \in Aggregators \ missed' PROVE reported'[b] = answer'[b]
    <3>1. b \notin missed /\ \A i \in 1..Len(events) : events[i].aggr # b
      BY <2>1
    <3> QED
      BY <2>1, <3>1 DEF FeedInv
  <2> QED
    BY <2>1, <2>2 DEF FeedInv
<1>5. ASSUME UNCHANGED <<events, answer, reported, missed>> PROVE FeedInv'
  BY <1>5 DEF FeedInv
<1> QED
  BY <1>2, <1>3, <1>4, <1>5
     DEF Next, pt, Tick, on_message, on_message_raises, chainVars, vars

\* Whatever was lost before, a token without a speculation and without an event
\* on its way or lost since the last one has the chain's price.
THEOREM SettledCorrect == Spec => []SettledIsOnChain
<1>1. Init => FeedInv
  BY DEF Init, FeedInv
<1>2. IInv /\ FeedInv /\ [Next]_vars => FeedInv'
  BY StepFeed DEF IInv
<1>3. IInv /\ FeedInv => SettledIsOnChain
  BY DEF IInv, RollbackTarget, Fallback, FeedInv, SettledIsOnChain
<1> QED
  BY <1>1, <1>2, <1>3, Invariance, PTL DEF Spec

-----------------------------------------------------------------------------
(* The cache implements SpeculativePrice *)

\* The settled price of a token: what the bot was last told of it.
Told(t) == price_scale(t, reported[Source[t]])

\* Views and settled prices are prices of the abstract specification, and the
\* settled price is the one the cache falls back to.
LEMMA SettledTypes ==
    ASSUME IInv
    PROVE  /\ \A t \in Tokens : Told(t) \in Prices /\ Fallback(price[t]) = Told(t)
           /\ \A t \in Tokens : price[t].price_current \in Prices
<1>1. ASSUME NEW t \in Tokens PROVE Told(t) \in Prices
  <2>1. reported[Source[t]] \in Answers
    BY DEF IInv, TypeOK
  <2>2. QED
    BY <2>1, ScaledIsPrice DEF Told
<1>2. QED
  BY <1>1 DEF IInv, CurrentIsPrice, RollbackTarget, Told

\* An initial cache is an initial state of the contract.
LEMMA InitImplements == Init => Abstract!Init
<1> SUFFICES ASSUME Init PROVE Abstract!Init
  OBVIOUS
<1>1. IInv
  BY InitIInv
<1>2. \A t \in Tokens : price[t].is_comfired
  BY DEF Init, new_ctoken_price
<1>3. \A t \in Tokens : Told(t) \in Prices /\ Told(t) = price[t].price_current
  BY <1>1, <1>2, SettledTypes DEF Fallback
<1>4. QED
  BY <1>2, <1>3 DEF Abstract!Init, Told

\* Every step of the cache is a step of the contract or leaves it alone.
LEMMA StepImplements ==
    IInv /\ IInv' /\ [Next]_vars => [Abstract!Next]_(Abstract!vars)
<1> SUFFICES ASSUME IInv, IInv', [Next]_vars
             PROVE  [Abstract!Next]_(Abstract!vars)
  OBVIOUS
<1> DEFINE view     == [t \in Tokens |-> price[t].price_current]
           settled  == [t \in Tokens |-> price_scale(t, reported[Source[t]])]
           open     == {t \in Tokens : ~price[t].is_comfired}
<1>1. \A t \in Tokens : price[t] \in CtokenPrice
  BY DEF IInv, TypeOK
<1>2. \A t \in Tokens :
          /\ price_scale(t, reported'[Source[t]]) \in Prices
          /\ Fallback(price'[t]) = price_scale(t, reported'[Source[t]])
          /\ price'[t].price_current \in Prices
  <2>1. ASSUME NEW t \in Tokens
        PROVE  price_scale(t, reported'[Source[t]]) \in Prices
    <3>1. reported'[Source[t]] \in Answers
      BY DEF IInv, TypeOK
    <3>2. QED
      BY <3>1, ScaledIsPrice
  <2>2. QED
    BY <2>1 DEF IInv, CurrentIsPrice, RollbackTarget, Fallback
<1>3. view' \in [Tokens -> Prices] /\ settled' \in [Tokens -> Prices]
  BY <1>2
<1>4. ASSUME NEW r \in Reports, pt(r), HasPrice(r) PROVE Abstract!Speculate
  <2> DEFINE T == Reached(r)
  <2>1. PICK now \in ClockReadings :
          price' = [t \in Tokens |->
                    IF t \in Reached(r)
                    THEN update(price[t],
                                price_scale(t, MiddleObservation(r.obs)), now[t])
                    ELSE price[t]]
    BY <1>4 DEF pt
  <2>2. T \in SUBSET Tokens
    BY DEF Reached
  <2>3. \A t \in Tokens \ T : price'[t] = price[t]
    BY <2>1
  <2>4. ASSUME NEW t \in T PROVE ~price'[t].is_comfired
    <3>1. price'[t] = update(price[t],
                          price_scale(t, MiddleObservation(r.obs)), now[t])
      BY <2>1, <2>2
    <3>2. QED
      BY <3>1 DEF update
  <2> HIDE DEF T
  <2>5. open' = open \cup T
    BY <2>2, <2>3, <2>4
  <2>6. settled' = settled
    BY <1>4 DEF pt
  <2>7. \A t \in Tokens \ T : view'[t] = view[t]
    BY <2>3
  <2>8. QED
    BY <1>3, <2>2, <2>5, <2>6, <2>7 DEF Abstract!Speculate
<1>5. ASSUME signals_subscribe_callback PROVE Abstract!Settle
  <2> DEFINE e == Head(events)
             T == {t \in Tokens : Source[t] = e.aggr}
  <2>1. /\ price' = [t \in Tokens |->
              IF Source[t] = e.aggr
              THEN confirm(price[t], price_scale(t, e.answer)) ELSE price[t]]
        /\ reported' = [reported EXCEPT ![e.aggr] = e.answer]
    BY <1>5 DEF signals_subscribe_callback
  <2> HIDE DEF e
  <2>2. \A t \in Tokens \ T : /\ price'[t] = price[t]
                              /\ reported'[Source[t]] = reported[Source[t]]
    BY <2>1 DEF IInv, TypeOK
  <2>3. ASSUME NEW t \in T
        PROVE  /\ price'[t].is_comfired
               /\ price'[t].price_current = price_scale(t, reported'[Source[t]])
    <3>1. price'[t] = confirm(price[t], price_scale(t, e.answer))
      BY <2>1
    <3>2. price'[t].is_comfired
      BY <1>1, <3>1 DEF confirm, CtokenPrice
    <3>3. QED
      BY <1>2, <3>2 DEF Fallback
  <2>4. T \in SUBSET Tokens
    OBVIOUS
  <2> HIDE DEF T
  <2>5. open' = open \ T
    BY <2>2, <2>3, <2>4
  <2>6. \A t \in Tokens \ T : settled'[t] = settled[t]
    BY <2>2
  <2>7. view' = [t \in Tokens |-> IF t \in T THEN settled'[t] ELSE view[t]]
    BY <2>2, <2>3, <2>4
  <2>8. QED
    BY <1>3, <2>4, <2>5, <2>6, <2>7 DEF Abstract!Settle
<1>6. ASSUME on_message PROVE Abstract!Rollback
  <2>1. PICK now \in ClockReadings :
          price' = [t \in Tokens |-> revert(price[t], now[t])]
    BY <1>6 DEF on_message
  <2> DEFINE T == {t \in Tokens : price'[t] # price[t]}
  <2>2. reported' = reported
    BY <1>6 DEF on_message
  <2>3. ASSUME NEW t \in T
        PROVE  /\ ~price[t].is_comfired /\ price'[t].is_comfired
               /\ price'[t].price_current = price_scale(t, reported[Source[t]])
    <3>1. price'[t] = revert(price[t], now[t])
      BY <2>1
    <3>2. ~price[t].is_comfired /\ price'[t].is_comfired
      BY <1>1, <3>1, MethodFallback
    <3>3. QED
      BY <1>2, <2>2, <3>2 DEF Fallback
  <2>4. settled' = settled
    BY <2>2
  <2>5. T \in SUBSET open
    BY <2>3
  <2>6. view' = [t \in Tokens |-> IF t \in T THEN settled[t] ELSE view[t]]
    BY <2>3
  <2>7. open' = open \ T
    BY <2>3
  <2> HIDE DEF T
  <2>8. QED
    BY <2>4, <2>5, <2>6, <2>7 DEF Abstract!Rollback
<1>7. ASSUME UNCHANGED <<price, reported>> PROVE UNCHANGED Abstract!vars
  BY <1>7 DEF Abstract!vars
<1>8. ASSUME NEW r \in Reports, pt(r), ~HasPrice(r)
      PROVE  UNCHANGED <<price, reported>>
  BY <1>8 DEF pt
<1>9. QED
  BY <1>4, <1>5, <1>6, <1>7, <1>8
     DEF Next, Mine, Tick, Reconnect, on_message_raises, botVars, vars,
         Abstract!Next

\* The cache implements the abstract contract: a speculation ends, by an event
\* or by giving up, at the answer the bot was last told, and only an event
\* changes that answer.
THEOREM CacheImplementsSpeculation == Spec => ImplementsSpeculation
<1>1. Spec => Abstract!Init
  BY InitImplements DEF Spec
<1>2. QED
  BY <1>1, StepImplements, Invariance, PTL
     DEF Spec, ImplementsSpeculation, Abstract!Spec

-----------------------------------------------------------------------------
(* Why SpeculationEnds holds, without the fairness it needs: one header is   *)
(* enough                                                                    *)

\* No price was written by a signal later than the last one.
SignalsPast == \A t \in Tokens : price[t].last_update <= LastSignal + 1

\* Five block intervals after the last pending transaction a header whose queries
\* succeed leaves no speculation open, and no step opens one.
HeaderSettles ==
    clock > LastSignal + 1 + (INTVL * 5) =>
        \A t \in Tokens :
            on_message \/ price[t].is_comfired => price'[t].is_comfired

\* The methods of CtokenPrice and the time of the last signal.
LEMMA MethodTimes ==
    ASSUME NEW p \in CtokenPrice, NEW new, NEW now
    PROVE  /\ update(p, new, now).last_update = now
           /\ revert(p, now).last_update = p.last_update
           /\ confirm(p, new).last_update = p.last_update
           /\ confirm(p, new).is_comfired
           /\ p.is_comfired => revert(p, now) = p
           /\ p.last_update + INTVL * 5 < now => revert(p, now).is_comfired
BY DEF CtokenPrice, update, revert, confirm

\* What the oldest event makes of the price of a token of its aggregator.
EventPrice(t) == confirm(price[t], price_scale(t, Head(events).answer))

LEMMA EventMoves ==
    ASSUME signals_subscribe_callback, NEW t \in Tokens
    PROVE  price'[t] = price[t] \/ price'[t] = EventPrice(t)
BY DEF signals_subscribe_callback, EventPrice

\* A signal is written with the time of a callback that it comes before.
LEMMA StepPast == TypeOK /\ SignalsPast /\ [Next]_vars => SignalsPast'
<1> SUFFICES ASSUME TypeOK, SignalsPast, [Next]_vars PROVE SignalsPast'
  OBVIOUS
<1>1. \A t \in Tokens : price[t] \in CtokenPrice
  BY DEF TypeOK
<1>2. ASSUME NEW r \in Reports, pt(r) PROVE SignalsPast'
  <2>1. PICK now \in ClockReadings :
          IF HasPrice(r)
          THEN price' = [t \in Tokens |->
                    IF t \in Reached(r)
                    THEN update(price[t],
                                price_scale(t, MiddleObservation(r.obs)), now[t])
                    ELSE price[t]]
          ELSE UNCHANGED price
    BY <1>2 DEF pt
  <2>2. clock \in Nat /\ clock <= LastSignal /\ LastSignal \in Nat
    BY <1>2, ConstantsAssumption DEF pt, TypeOK
  <2>3. ASSUME NEW t \in Tokens PROVE now[t] <= LastSignal + 1
    <3>1. now[t] = clock \/ now[t] = clock + 1
      BY DEF ClockReadings
    <3> QED
      BY <3>1, <2>2
  <2>4. ASSUME NEW t \in Tokens PROVE price'[t].last_update <= LastSignal + 1
    <3>1. CASE price'[t] = price[t]
      BY <3>1 DEF SignalsPast
    <3>2. CASE price'[t] = update(price[t], price_scale(t, MiddleObservation(r.obs)), now[t])
      <4>1. price'[t].last_update = now[t]
        BY <3>2, <1>1, MethodTimes
      <4> QED
        BY <4>1, <2>3
    <3> QED
      BY <2>1, <3>1, <3>2
  <2> QED
    BY <2>4 DEF SignalsPast
<1>3. CASE signals_subscribe_callback \/ on_message
  <2>1. ASSUME NEW t \in Tokens PROVE price'[t].last_update = price[t].last_update
    <3>1. CASE signals_subscribe_callback
      <4>1. price'[t] = price[t] \/ price'[t] = EventPrice(t)
        BY <3>1, EventMoves
      <4>2. EventPrice(t).last_update = price[t].last_update
        BY <1>1, MethodTimes DEF EventPrice
      <4> QED
        BY <4>1, <4>2
    <3>2. CASE on_message
      <4>1. PICK now \in ClockReadings : price' = [u \in Tokens |-> revert(price[u], now[u])]
        BY <3>2 DEF on_message
      <4>2. price'[t] = revert(price[t], now[t])
        BY <4>1
      <4>3. revert(price[t], now[t]).last_update = price[t].last_update
        BY <1>1, MethodTimes
      <4> QED
        BY <4>2, <4>3
    <3> QED
      BY <1>3, <3>1, <3>2
  <2> QED
    BY <2>1 DEF SignalsPast
<1>4. CASE UNCHANGED price
  BY <1>4 DEF SignalsPast
<1> QED
  BY <1>2, <1>3, <1>4 DEF Next, Mine, Tick, Reconnect, on_message_raises, botVars, vars

\* After the timeout nothing is opened, and a header closes what is open.
LEMMA StepSettles == TypeOK /\ SignalsPast /\ Next => HeaderSettles
<1> SUFFICES ASSUME TypeOK, SignalsPast, Next,
                    clock > LastSignal + 1 + (INTVL * 5), NEW t \in Tokens
             PROVE  on_message \/ price[t].is_comfired => price'[t].is_comfired
  BY DEF HeaderSettles
<1>1. price[t] \in CtokenPrice /\ clock \in Nat
  BY DEF TypeOK
<1>2. LastSignal \in Nat /\ INTVL \in Nat
  BY ConstantsAssumption
<1>3. ~ (clock <= LastSignal)
  BY <1>1, <1>2
<1>4. CASE on_message
  <2>1. PICK now \in ClockReadings : price' = [u \in Tokens |-> revert(price[u], now[u])]
    BY <1>4 DEF on_message
  <2>2. now[t] \in Nat /\ now[t] >= clock
    <3>1. now[t] = clock \/ now[t] = clock + 1
      BY DEF ClockReadings
    <3> QED
      BY <3>1, <1>1
  <2>3. price[t].last_update \in Nat /\ price[t].last_update <= LastSignal + 1
    BY <1>1 DEF CtokenPrice, SignalsPast
  <2>4. price[t].last_update + INTVL * 5 < now[t]
    BY <1>1, <1>2, <2>2, <2>3
  <2>5. price'[t] = revert(price[t], now[t])
    BY <2>1
  <2>6. revert(price[t], now[t]).is_comfired
    BY <2>4, <1>1, MethodTimes
  <2> QED
    BY <2>5, <2>6
<1>5. CASE signals_subscribe_callback
  <2>1. price'[t] = price[t] \/ price'[t] = EventPrice(t)
    BY <1>5, EventMoves
  <2>2. EventPrice(t).is_comfired
    BY <1>1, MethodTimes DEF EventPrice
  <2> QED
    BY <2>1, <2>2, <1>4
<1>6. CASE UNCHANGED price
  BY <1>4, <1>6
<1> QED
  BY <1>3, <1>4, <1>5, <1>6
     DEF Next, pt, Mine, Tick, Reconnect, on_message_raises, botVars

\* Five block intervals after the last pending transaction one header is enough to
\* settle every token (signals.py:319), whatever events were lost; until then each
\* further signal restarts the wait (signals.py:314).
THEOREM OneHeaderSettles == Spec => [][HeaderSettles]_vars
<1>1. Init => SignalsPast
  BY ConstantsAssumption DEF Init, SignalsPast, new_ctoken_price
<1>2. TypeOK /\ SignalsPast /\ [Next]_vars => [HeaderSettles]_vars
  BY StepSettles
<1> QED
  BY <1>1, <1>2, StepPast, TypeCorrect, PTL DEF Spec
=============================================================================
