----------------------------- MODULE PriceCache -----------------------------
(***************************************************************************)
(* The local price of every ctoken (CtokenPrice and Signals in             *)
(* configs/signals.py) and the three asyncio tasks of compound.py that     *)
(* write it: pt, on a pending oracle transaction; the price-event          *)
(* subscription, on a NewTransmission event; on_message, on a block header.*)
(* A callback runs to completion between two awaits of the event loop, so  *)
(* each one is a single action; the order of the three streams is free.    *)
(***************************************************************************)
EXTENDS Integers, Sequences

CONSTANTS
    Aggregators,    \* oracle contracts the bot listens to
    Tokens,         \* ctokens that have a price source
    Source,         \* token_signal_map: the aggregator of a token
    Place,          \* the place of a token in its aggregator's list
    BaseQuoted,     \* aggregators quoted in the protocol's base currency
    Multiplier,     \* per token, the zeros price_scale appends, as a factor
    InitAnswer,     \* what the oracle answers when the bot starts
    Answers,        \* answers the oracle may give once it has mined a report
    Observations,   \* what an unmined report may hold: any word, zero too
    Reports,        \* transmit transactions that may be broadcast
    GasPrices,      \* values eth_gasPrice may return
    INTVL,          \* seconds between blocks
    MaxClock,       \* bound: the model's last second
    LastSignal,     \* bound: no pending transaction arrives after this second
    Lossy           \* may the event connection drop and lose events?

(***************************************************************************)
(* A transmit transaction as tx_filter_and_parsing reads it: its target,   *)
(* whether its calldata starts with the transmit selector, its gas price,  *)
(* the epoch in its report context, the observations it carries, and       *)
(* whether pt can encode it again (record necessary infos).  Nothing checks *)
(* an observation: the sender and the values of a pending call are anyone's.*)
(***************************************************************************)
Report == [to : Aggregators, transmit : BOOLEAN, gas : Nat, epoch : Nat,
           obs : Seq(Observations), encodes : BOOLEAN]

ASSUME ConstantsAssumption ==
    /\ Source \in [Tokens -> Aggregators]
    /\ Place \in [Tokens -> Nat]
    /\ BaseQuoted \subseteq Aggregators
    /\ Multiplier \in [Tokens -> Nat \ {0}]
    /\ Answers \subseteq Nat \ {0}
    /\ Observations \subseteq Nat
    /\ InitAnswer \in [Aggregators -> Answers]
    /\ \A r \in Reports : r \in Report
    /\ GasPrices \subseteq Nat
    /\ INTVL \in Nat \ {0}
    /\ MaxClock \in Nat
    /\ LastSignal \in Nat
    /\ Lossy \in BOOLEAN

VARIABLES
    price,          \* states.ctokens[t].price, a CtokenPrice per token
    signals_epoch,  \* Signals.signals_epoch, 0 when the key is absent
    gas_price,      \* block_infos.gas_price
    clock,          \* int(time.time()), counted from the start of the bot
    answer,         \* external: the aggregators' latest answers
    epoch,          \* external: the epochs of those answers
    events,         \* external: NewTransmission events on their way to the bot
    reported,       \* history: the last answer the bot was told, per aggregator
    missed          \* history: aggregators whose last event was lost

botVars   == <<price, signals_epoch, gas_price>>
chainVars == <<answer, epoch>>
vars == <<price, signals_epoch, gas_price, clock, answer, epoch, events,
          reported, missed>>

-----------------------------------------------------------------------------
(* CtokenPrice and the pure part of Signals *)

\* str(price) followed by zeros: a product.
price_scale(t, raw) == raw * Multiplier[t]

new_ctoken_price(p, now) ==
    [price_current |-> p, price_cache |-> 0, last_update |-> now,
     is_comfired |-> TRUE]

update_saves_always(p, new_price, now) ==
    [price_current |-> new_price, price_cache |-> p.price_current,
     last_update |-> now, is_comfired |-> FALSE]

update(p, new_price, now) ==
    [price_current |-> new_price,
     price_cache   |-> IF p.is_comfired THEN p.price_current ELSE p.price_cache,
     last_update   |-> now,
     is_comfired   |-> FALSE]

revert_clears_first(p, now) ==
    IF ~p.is_comfired /\ p.last_update + INTVL * 5 < now
    THEN [p EXCEPT !.price_current = 0, !.price_cache = 0, !.is_comfired = TRUE]
    ELSE p

revert_to_sentinel(p, now) ==
    IF ~p.is_comfired /\ p.last_update + INTVL * 5 < now
    THEN [p EXCEPT !.price_current = p.price_cache, !.price_cache = -1,
                   !.is_comfired = TRUE]
    ELSE p

revert_keeps_price(p, now) ==
    IF ~p.is_comfired /\ p.last_update + INTVL * 5 < now
    THEN [p EXCEPT !.price_cache = 0, !.is_comfired = TRUE]
    ELSE p

revert_keeps_flag(p, now) ==
    IF ~p.is_comfired /\ p.last_update + INTVL * 5 < now
    THEN [p EXCEPT !.price_current = p.price_cache]
    ELSE p

\* "revert when is not comfirmed for a long time"
revert(p, now) ==
    IF ~p.is_comfired /\ p.last_update + INTVL * 5 < now
    THEN [p EXCEPT !.price_current = p.price_cache,
                   !.price_cache   = 0,
                   !.is_comfired   = TRUE]
    ELSE p

confirm_if_open(p, new_price) ==
    IF p.is_comfired
    THEN p ELSE [p EXCEPT !.price_current = new_price, !.is_comfired = TRUE]

confirm(p, new_price) ==
    [p EXCEPT !.price_current = new_price, !.is_comfired = TRUE]

\* The observation in the middle of the report; the list is ordered.
MiddleObservation(obs) == obs[Len(obs) \div 2 + 1]

\* The checks of tx_filter_and_parsing, in order; failing one raises and pt
\* returns with nothing changed, which is a stuttering step here.
Passes(r) ==
    /\ r.transmit
    /\ ~(9 * gas_price > 10 * r.gas)
    /\ ~(signals_epoch[r.to] > r.epoch)

\* array_args[...], no_name and the encoding raise after signals_epoch was
\* written and before any price is.
HasPrice(r) == r.obs # <<>> /\ r.to \in BaseQuoted /\ r.encodes

\* pt goes through the aggregator's tokens in the order of its list and divides
\* by the price of each before it writes it: a price of zero raises there, with
\* the tokens before it already written.
Reached(r) ==
    {t \in Tokens :
        /\ Source[t] = r.to
        /\ \A u \in Tokens : Source[u] = r.to /\ Place[u] <= Place[t]
                               => price[u].price_current # 0}

\* The callbacks read the clock once per token: the second may turn over
\* while a callback loops.
ClockReadings == [Tokens -> {clock, clock + 1} \cap (0..MaxClock)]

ClockAfter(now) == IF \E t \in Tokens : now[t] > clock THEN clock + 1 ELSE clock

-----------------------------------------------------------------------------
Init ==
    /\ price = [t \in Tokens |->
                  new_ctoken_price(price_scale(t, InitAnswer[Source[t]]), 0)]
    /\ signals_epoch = [a \in Aggregators |-> 0]
    /\ gas_price = 0
    /\ clock = 0
    /\ answer = InitAnswer
    /\ epoch = [a \in Aggregators |-> 0]
    /\ events = <<>>
    /\ reported = InitAnswer
    /\ missed = {}

\* pt, up to its first await: a pending transaction reaches the bot, maybe
\* late, maybe again, maybe one that is never mined.
pt(r) ==
    /\ clock <= LastSignal
    /\ Passes(r)
    /\ signals_epoch' = [signals_epoch EXCEPT ![r.to] = r.epoch]
    /\ \E now \in ClockReadings :
          IF HasPrice(r)
          THEN /\ price' = [t \in Tokens |->
                    IF t \in Reached(r)
                    THEN update(price[t],
                                price_scale(t, MiddleObservation(r.obs)), now[t])
                    ELSE price[t]]
               /\ clock' = ClockAfter(now)
          ELSE UNCHANGED <<price, clock>>
    /\ UNCHANGED <<gas_price, chainVars, events, reported, missed>>

\* The price-event subscription hands the oldest event over.
signals_subscribe_callback ==
    /\ events # <<>>
    /\ LET e == Head(events) IN
          /\ price' = [t \in Tokens |->
                IF Source[t] = e.aggr
                THEN confirm(price[t], price_scale(t, e.answer)) ELSE price[t]]
          /\ reported' = [reported EXCEPT ![e.aggr] = e.answer]
          /\ missed' = missed \ {e.aggr}
    /\ events' = Tail(events)
    /\ UNCHANGED <<signals_epoch, gas_price, clock, chainVars>>

\* A header: the gas price is queried, then every reserve may be reverted.
on_message ==
    /\ gas_price' \in GasPrices
    /\ \E now \in ClockReadings :
          /\ price' = [t \in Tokens |-> revert(price[t], now[t])]
          /\ clock' = ClockAfter(now)
    /\ UNCHANGED <<signals_epoch, chainVars, events, reported, missed>>

\* The node answers eth_gasPrice and fails the exchange rate query: the handler
\* raises with no price looked at, and the subscription starts again.
on_message_raises ==
    /\ gas_price' \in GasPrices
    /\ UNCHANGED <<price, signals_epoch, clock, chainVars, events, reported,
                   missed>>

Tick ==
    /\ clock < MaxClock
    /\ clock' = clock + 1
    /\ UNCHANGED <<botVars, chainVars, events, reported, missed>>

\* external: a report newer than the last one, with an answer the aggregator
\* accepts, is mined and emits an event.
Mine(r) ==
    /\ r.transmit
    /\ r.obs # <<>>
    /\ MiddleObservation(r.obs) \in Answers
    /\ r.epoch > epoch[r.to]
    /\ answer' = [answer EXCEPT ![r.to] = MiddleObservation(r.obs)]
    /\ epoch' = [epoch EXCEPT ![r.to] = r.epoch]
    /\ events' = Append(events, [aggr   |-> r.to,
                                 answer |-> MiddleObservation(r.obs)])
    /\ UNCHANGED <<botVars, clock, reported, missed>>

\* subscribe_event_light subscribes anew after an error: what was on its way
\* is not asked for again.
Reconnect ==
    /\ Lossy
    /\ events # <<>>
    /\ events' = <<>>
    /\ missed' = missed \cup {events[i].aggr : i \in 1..Len(events)}
    /\ UNCHANGED <<botVars, clock, chainVars, reported>>

Next ==
    \/ \E r \in Reports : pt(r) \/ Mine(r)
    \/ signals_subscribe_callback
    \/ on_message
    \/ on_message_raises
    \/ Tick
    \/ Reconnect

Spec == Init /\ [][Next]_vars

\* Seconds keep passing, and headers keep coming whose queries succeed: after
\* three failures subscribe_full gives up and the bot ends.
FairSpec == Spec /\ WF_vars(Tick) /\ WF_vars(on_message)

-----------------------------------------------------------------------------
(* Properties *)

Prices == {price_scale(t, x) : t \in Tokens, x \in Answers \cup Observations}

\* A NewTransmission event.
Transmission == [aggr : Aggregators, answer : Answers]

CtokenPrice ==
    [price_current : Prices \cup {0}, price_cache : Prices \cup {0},
     last_update : Nat, is_comfired : BOOLEAN]

\* Types of the cache and of the world around it.
TypeOK ==
    /\ price \in [Tokens -> CtokenPrice]
    /\ signals_epoch \in [Aggregators -> Nat]
    /\ gas_price \in Nat
    /\ clock \in 0..MaxClock
    /\ answer \in [Aggregators -> Answers]
    /\ epoch \in [Aggregators -> Nat]
    /\ events \in Seq(Transmission)
    /\ reported \in [Aggregators -> Answers]
    /\ missed \subseteq Aggregators

\* What revert would bring the price back to, or the price itself.
Fallback(p) == IF p.is_comfired THEN p.price_current ELSE p.price_cache

\* However pending signals, events and headers interleave, the price that
\* revert would bring back (price_cache while a speculation is open, the
\* current price otherwise) is the last one the chain reported, for every
\* token of the aggregator alike.
RollbackTarget ==
    \A t \in Tokens : Fallback(price[t]) = price_scale(t, reported[Source[t]])

\* A pending report of zero is a legal signal (signals.py:134), and pt divides
\* by the price it leaves (compound.py:1099).  While a token's price is zero no
\* further signal touches it, which would put off the end of the speculation,
\* and no header settles it: it ends in one step, at a confirmed price above
\* zero.
ZeroEndsConfirmed ==
    [][\A t \in Tokens : price[t].price_current = 0 =>
          \/ price'[t] = price[t]
          \/ price'[t].is_comfired /\ price'[t].price_current > 0]_vars

\* A token that holds no speculation, and whose aggregator has no event in
\* flight and none lost since the last one that arrived, has the chain's price:
\* one later event heals any number of lost ones.
SettledIsOnChain ==
    \A t \in Tokens :
        LET a == Source[t] IN
        ( /\ price[t].is_comfired
          /\ a \notin missed
          /\ \A i \in 1..Len(events) : events[i].aggr # a )
        => price[t].price_current = price_scale(t, answer[a])

\* The view and the open speculations of this cache.  The settled price is not
\* read from the cache at all: it is the answer the bot was last told, which
\* signals_subscribe_callback alone changes.
Abstract == INSTANCE SpeculativePrice WITH
    view    <- [t \in Tokens |-> price[t].price_current],
    settled <- [t \in Tokens |-> price_scale(t, reported[Source[t]])],
    open    <- {t \in Tokens : ~price[t].is_comfired}

\* The cache implements SpeculativePrice: a token whose speculation ends, by an
\* event or by a header that gives it up, has the price the chain last
\* reported, and a token without a speculation has it throughout.
ImplementsSpeculation == Abstract!Spec

\* Once pending signals cease, every speculation is confirmed or reverted.
SpeculationEnds ==
    \A t \in Tokens : ~price[t].is_comfired ~> price[t].is_comfired
=============================================================================
