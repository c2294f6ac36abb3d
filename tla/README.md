# A verification project for compound-liquidation

`compound-liquidation` is an asyncio program that keeps a local mirror of a
Compound V2 style lending protocol (Venus on BSC by default), speculates on
pending oracle transactions, and sends a liquidation when the speculation makes
a borrower's health factor drop below one.  This directory holds TLA+ modules
translated from its source, TLC configurations that check them on small
instances, and TLAPS proofs of the properties that hold for every instance.

## 1. Inventory

All the program's own logic is in `compound.py` (tasks and callbacks),
`configs/` (state), `transaction/`, `tx.py`, `bots.py` (sending) and `utils.py`
(subscriptions).  `bxcommon/` and `bxutils/` are vendored; `scripts/` are offline
analyses.

| component | state | operations | what makes it correct |
|---|---|---|---|
| price cache (`configs/signals.py`) | a `CtokenPrice` per ctoken, the last epoch per aggregator | `update` on a pending oracle transaction, `confirm` on an event, `revert` on a header | a speculation that nobody confirms is given up, and the price comes back to what the chain said |
| startup, replay, files (`__main__`, `configs/users.py`, `configs/tokens.py`) | the mirror, its height, three JSON files | reload, replay in chunks, refresh of VAI debts, save, replay again, listen | every block's logs are applied once and in order; a file never holds a block that can vanish |
| live balances (`States`, `HighProfitSates`) | per user and reserve: collateral, collateral flag, debt and its index | `update` per log, the merge with the full states, `reload_and_extend_states` | the balances, reserves and flags the health factor is computed from are the chain's |
| scheduler (`pt`, `liquidation_idle_callback`, `users_subscribe_callback`) | health factors, pre-filtered lists per aggregator, the queue of pending users | computation before, writes after `await sender.send_transactions` | no user near liquidation is left out; a fresh health factor is not overwritten by a stale one |
| sender (`transaction/send.py`, `tx.py`, `liquidation_start`) | nonces, lock and failure counter, `users_to_liquidate`, bundle storage | sign, bundle, send, receipt, refresh per header | nonces are consecutive, a locked sender is silent, a user is suppressed only after a send |
| supervision (`utils.py`, `main`) | per subscription a counter | subscribe, fail, subscribe again, give up | a dead subscription does not go unnoticed |
| protocol parameters (`configs/comet.py`, `configs/block.py`) | close factor, collateral factors, block number and time | `update` per event or header | monotone height |
| arithmetic (`calculate_health_factor`, `liquidation_simulation`, `profit_simulation`, `configs/router.py`) | none | pure functions | agree with the protocol's definition |
| event decoding, RPC wrappers, logging, encoding of calls | none | pure I/O | - |

The callbacks share the globals `states`, `signals`, `comet`, `block_infos`,
`users_pre_filtered`, `users_pending`, `users_to_liquidate`, `accounts` and `sender`.
asyncio switches tasks only at an `await`; a callback without one is atomic.  The
only awaits inside handlers are the two sends (`compound.py:295`, `:1135`).  What is
hard: the order of the streams (pending transactions, four event streams, headers,
receipts, the idle loop) is free; a subscription that fails is opened again and what
was on its way is lost; an exception of a query leaves a handler half done; any task
that ends with an exception ends the program, which restarts from its files.
`PROJECT.json` lists these hazards line by line.

## 2. Plan

1. `SpeculativePrice`, `PriceCache`: the price cache. Done, proved.
2. `Startup`: files, replay, crashes and reorganisations. Done, proved.
3. `HotStates`: live balances under lost, repeated and late logs. Done, proved.
4. `Scheduler`: `pt`, the idle loop and `users_subscribe_callback` around the two
   awaits. Done, proved but for liveness.  `Rounds`: which users and lists a block number
   selects. Done, proved.
5. `Sender`: nonces, lock, deduplication, bundles. Done, proved.
6. `Supervision`: the retry counters and the end of the program. Done, proved but for
   liveness.
7. `HealthFactor`: the arithmetic. Done, proved.  `Router`: swap
   routes. Done, proved.  `Comet`: parameters. Done, proved.
8. Left: a composition of live balances and scheduler that carries real balances into
   the health factors.

## 3. Modules and how they correspond to the code

**`SpeculativePrice`** is what the cache promises: a *settled* price per token, the
one the chain last reported; a *view*, the price in use; and the tokens whose view is
a speculation.  Only a report of the chain moves a settled price, and a speculation that
ends, whoever ends it, ends at the settled price.

**`PriceCache`** has one action per task: `pt` (a pending transaction, up to the
await), `signals_subscribe_callback` (an event), `on_message` (a header; the
variant `on_message_raises` is a failing exchange-rate query, after which no price
is looked at), `Reconnect` (the event stream fails), and the external `Mine`
and `Tick`.  `update`, `revert`, `confirm` are the methods of `CtokenPrice`; `Passes` and
`HasPrice` are the checks of `tx_filter_and_parsing` and `no_name`, where an early
failure leaves the epoch alone and a late one has already written it.  A pending
transaction is anyone's, so its observations (`Observations`) are any number, zero
included; `Mine` takes only a report whose answer the aggregator accepts (`Answers`).  pt
divides by the old price of each token before it writes the new one: `Reached` are the
tokens it gets to before a price of zero makes it raise.  The clock is
read once per token, and may turn over inside a loop.  The scaling of a price is a
multiplication (the code appends zeros to a string).  `reported` and
`missed` are history variables.  A failed check leaves everything as it is, and is a
stuttering step.

**`Startup`** is `__main__` as a program counter: `reload_states` or
`reload_from_init`, three times `sync_states` with its loop `query_events_loop_liq`, the
VAI refresh, `cache` file by file, `main`.  Each part of the mirror is
represented by the sequence of blocks applied to it, each in full or in part.  There are
four parts: the three that have a file, and the totals of reserves and borrows, which the
balances file holds under names that the reload does not look for (tokens.py:88-93 and
121-122), so `reload_states` starts them again from nothing.  `update_raises` is an
exception of `States.update` in the middle of a chunk: the logs before it stay applied,
`last_update` stays what it was.  It and `sync_failed`, a query that fails, end at the
`except` at compound.py:1259, which swallows every error of the first sync; in the later
syncs both end the process (`Crash`).  `Crash` may cut the file being written.  The chain (`Mine`, `Reorg`) is external; the history variable
`reorged` says whether it reorganised since the process started.

**`HotStates`** models `HighProfitSates` with its aliasing: a selected user's
`UserStates` *is* the object of the full states, any other user gets one of its own
into which the full states are merged, some reserves by reference.  `heap` has for each
user an entry that says which object each reserve is in.  `update_transfer`,
`update_debt` and `merge` are the branches of the two `update` methods, applied to an
entry; `reload_and_extend_states` overwrites the flags from the head of the chain.
`users_subscribe_callback` is the whole handler's effect on balances and flags;
`users_subscribe_callback_raises` is the same with one of the RPC calls failing half
way.  The node delivers any block any number of times; a block that the guard
rejects is a stutter.  A block carries one log.  The actions `MineTransfer`,
`MineDebt` and `MineMarket` are the protocol, with `ledger` its true balances.

**`Scheduler`** models when a health factor is computed and written.  `pt_start` is a
signal up to the `await`, `pt_finish` what follows it, `pt_raises` a send that raises
before it waits (the only way it raises); `idle_pending`, `idle_finish` and
`idle_raises` are the same of the idle task's task 2, and `idle_nothing`, `idle_sample`
and `idle_prefilter` its task 3 (task 1 never runs: nothing writes `users_continue`).
`users_subscribe_callback` is the whole callback, for which what the balances become is
abstracted to the reserves they are of: `holds` has the aggregators of a user's reserves,
to which a log, or the merge it starts, may add (`Extended`); `users_filtering` and the
insertions read it.  `users_subscribe_callback_raises` is a call that fails after the
balances were written.  pt keeps a
reference to the list it looked up: an insertion changes that list as well, a rebuilt
list is another object, so `ptJob` says whether it is still attached, and keeps the
old content if not.  What `calculate_health_factor` returns is any of `Hfs`; the time
filter of `users_trimming` can exclude any subset of the sampled users and, by the
times its other callers pass, none of theirs.

**`Rounds`** is the arithmetic by which the idle task picks a slice of the users
(`get_users_sampling`) and an aggregator (`get_tokens_from_aggr_index`) from the block
number.  It has no state of its own: `Scheduler` extends it, its `idle_sample` and
`idle_prefilter` act only at blocks of their `switch` and on what `Rounds` selects for
that block.  Of the blocks of a minute `on_message` brings the two with a switch and one
that stands for the others, and may skip any.  What a sequence of minutes selects is
compared, from the minute of every reachable state on, with residue classes, which do not
compute it.  Users and aggregators are positions in their dicts.

**`Sender`** goes through a batch user by user (`liquidation_start`, or the early
returns `liquidation_suppressed` and `liquidation_abandoned`) and sends it:
`send_transactions` when no bundle pays, `send_raises` when one does, `send_pre_set`
before the subscriptions exist.  Headers (`on_message`), receipts and mined
transactions come between batches, since nothing waits inside one.  Profits are in
units of the price a bundle must pay; the floats of gas cost and BNB price are thereby
abstracted, and equal profits, which the code orders by the signed bytes, come in any
order.

**`Supervision`** has a place in its loop for each gathered task.  An exception, of
the connection or of a callback, leads to the top of the loop, out of it, or (receipts)
to a task that has returned or is deaf.

**`HealthFactor`** has the sums, pairs, repayments and profits as operators with every
`//` of the code; the quotient is kept as a pair.  Its actions are what the
subscriptions do to the inputs.  `Init` ranges over all inputs of the instance, so the
invariants are about every input; the steps serve `HfMonotone`.

**`Comet`** queries the parameters one by one, subscribes, and applies blocks.  An
address is a ctoken with a spelling: `checksum` for the keys, what `decode` gives (lower
case) for a log.  The loop over the logs of a block is stated by its outcome: the last
log about a parameter counts (`newest`, `after`).

**`Router`** has one action, a pair of `profit_simulation` that builds a `Routs` and
searches it.  `ByNumber` and `ByText` are the two orders of the tokens.  The loop over a
path is a recursive function of the turn.  `Executed`, `Swapped` and `getAmountOut` are the
exchange's own arithmetic, external, and used by a property.

The `MC*` modules give constants their values.  Definitions with names like
`revert_keeps_flag` are deliberate faults: each property is shown to fail when the
definition beside it is replaced by one of them.

## 4. Runs

| run | asks | result |
|---|---|---|
| `prices` | does the rollback target survive every interleaving; what becomes of a price of zero; is a settled price the chain's; is `SpeculativePrice` implemented; does every speculation end once signals cease, with events lost | holds |
| `startup` | can a crash, a torn file, a failed query or a reorganisation get a wrong block into a readable file or into the mirror; is every block applied once through all three replays until the chain reorganises; what is still right after an error in the middle of a chunk; does a start come to an end | holds; what logs assign, not what they add |
| `startup_gap` | is the mirror at the head when the subscriptions begin (compound.py:1329) | **no**: blocks mined after the last height query are lost |
| `hot_feed` | with logs lost, repeated and late: are reserves, flags, debt indices complete; which balances are still right | holds |
| `hot_merge` | is a newly seen user complete after reading from the full states (users.py:465) | **no**: the merge adds what is there already |
| `scheduler` | do logs and rebuilt lists during pt's wait make it skip or double a user; does one that a log brings near liquidation stay on the lists of the aggregators it had then; is what a signal leaves over computed; exactly which users and lists do block numbers select | holds; as the residue classes say |
| `scheduler_stale` | is a health factor at least as new as the last log (compound.py:369) | **no**: pt writes what it computed before its wait |
| `sender_safety` | gapless nonces, no repeated liquidation, one signer per bundle, over failures and headers | holds |
| `supervision_live` | how many exceptions does a task survive; does a loop settle or end | exactly its budget; yes, once the closures with code 1006, which are not counted, cease |
| `health_pairs` | does a pair ask for too much, or promise too much, by truncation; does the health factor follow its inputs | it does not; it does |
| `comet_safety` | are the incentive and the factors the comptroller's, with old blocks repeated and others lost | holds, a changed factor under the key of the logs |
| `router_safety` | does the cost of a route buy the repayment; is it the cheapest over the tokens that never were an end of a pair | holds |

**Bounds.** Price cache: two aggregators, one feeding two tokens with different
scales, so that a loop over tokens and an unaffected token are both there; `INTVL` is 1,
so with `LastSignal` 6 and `MaxClock` 13 a speculation is reverted, another opened and
reverted in turn; the reports include the boundary of the gas test (9 against 10), the
epoch order, each late failure, and a zero for the aggregator of two tokens.  Startup:
three blocks of two contents, a chunk of two, a delay of one, reorganisations up to the
delay, so that a chunk ends both inside and at the target, one is cut at its first or its
second block, and files of different heights occur; at most one cut in a mirror and the
files it comes from and goes to (`MaxCut`), which is enough for a block to be
applied twice, and again after a restart.  Live
balances: one user of each kind (selected, known, unknown contract), two reserves,
three blocks, two of which the bot
applies: every pair of logs of a user, with the ones between lost, the last one
repeated, or an older one late, and markets entered or left meanwhile.  `LastSignal` is the bound that makes signals
cease.  Live balances stop at the bound, so their runs do not
check for deadlock; the other systems never stop.

Scheduler: three users of whom pt computes one, so that a list leaves a rest of two; two
signals and one log message, which can come before, inside and after either wait; two
aggregators, of which one user has a single one, so that the message may give it the
other; health factors of 0.95 and 1.05, below one and near it, where one user starts below
and two near; two minutes of headers.  Values from 1.1 on, which the filters treat like
0.95, and those between 0 and 0.9, which neither filter takes, are not in the run;
the theorems are about all.  With two
aggregators and 20 blocks a minute only the second of them is ever rebuilt, which is why
the one of all users comes second.  Rounds: the code's 20 blocks a minute and 10
slices, all lengths up to 24 (all residues of 20 and of 10), as many minutes as there are
positions, from either minute of the behaviour.
Sender: two users, two accounts, amounts of which two are within the 10 % and one is
not, profits below and above the floor, two batches after the first and two raises.
Supervision: two of the four equal light-node subscriptions, limits 4, 3, 3.
HealthFactor: two ctokens, a scale of 10, so that nearly every division truncates;
balances below, at and above what a repayment seizes, and a negative one, which lost
logs can leave.  Comet: two ctokens, two blocks of up to two logs, enough
for an old block to come after a newer one.  Router: two listed
tokens and two others, every subset of pools, one lean pool, one pair spelled in the other
order, two pairs one after the other.  The bounds of signals, blocks, batches and
failures make these systems stop, so their runs do not check for deadlock.

**Divergences without a run.**  Each of these shows in an action of a model, which does
what the code does, and in a property that is stated so as to hold with it:

- a token may stay unconfirmed beyond the timeout, "revert when is not comfirmed for a
  long time" (signals.py:317): `update` writes `last_update` on every signal.
  `SpeculationEnds` is about the time after the last one;
- the rest of a signal's users is not computed when the send raises, "finish the hf
  calculation of the remaining users" (compound.py:282): they are `dropped` in
  `RemainingQueued`;
- a pending report of zero makes a price zero, and the next signal of the aggregator, or a
  liquidation of the token, divides by it (compound.py:1099, 673); nothing after
  signals.py:131-136, where the report is parsed, looks at its values.
  `ZeroEndsConfirmed` says how long that lasts, not that it cannot be;
- the totals of reserves and borrows are 0 after a restart from files (`reload_states`);
  nothing that runs reads them;
- after an error in the middle of a chunk, "Sync to latest states failed"
  (compound.py:1260), the files are saved and the later replays apply the same logs
  again, now and after every restart: collaterals and supplies, which logs add to, count
  them twice.  `DiskCanonical` and `MirrorExact` leave such mirrors out (`Uncut`),
  `AssignedRight` says what is right of them.  The model lets a later replay succeed where
  the first raised, as it does when the node's answer was at fault; a log that can never
  be decoded ends every start instead;
- "add users in range [0, 0.1] after updating to pre filtered list" (compound.py:379): a
  user that is near already when a log gives it a reserve of another aggregator is not
  added to that aggregator's list, since "get users not in range [0, 0.1] before updating"
  (line 374) leaves it out; nor is one that was between 0 and 0.9, which `NotNear` leaves
  out.  `NearListed` is about the others and about the aggregators they had;
- "T_users: 1 mins * intervals a round" and "T_aggr: 1 mins * len(aggr) a round"
  (compound.py:307, 309): `SampledIsReachable` and `RefreshedIsClass` say which users and
  lists are never selected, for instance all lists but one of 20;
- a bundle that pays "at least 0.00126 BNB" (send.py:129) is never sent: `tx_mev + txs`
  adds a list to a string and raises (`send_raises`).  After "sending disabled"
  (compound.py:512) only an empty batch is not sent (`send_transactions`);
- a new collateral factor, "comet in local cache updated" (compound.py:438), goes to a key
  in lower case that `calculate_health_factor` does not read (`FactorRecorded`);
- the tokens of `ROUTS_TOKENS` (router.py:85) shrink with every pair (`gen_new_routs`,
  `BestOfUnused`), and tokens are ordered as checksum strings where the pool orders
  numbers, "bool isZeroForOne; address token0; address token1" (bots.py:24): `RouteCovers`
  is about routes where the two agree.

**Fairness.** `PriceCache!FairSpec`: seconds pass, and headers whose queries succeed keep
coming.  `subscribe_full` gives up after three failures and ends the program, so a
running program sees headers.  No fairness is assumed for events or for pending
transactions.  `Startup!FairSpec`: weak fairness of each step of the sequential
program; none for the chain, crashes or restarts.  `Scheduler!LiveSpec`: the idle loop
goes on and the waits of 1 ms end (timers of the event loop); none for headers, signals,
logs or exceptions.  `Supervision!LiveSpec`: the loops go on, and an attempt to connect
ends with an answer or an exception; that a node ever accepts is not assumed.

## 5. Proofs

`PriceCacheProofs` proves, from `ConstantsAssumption` (every answer of an aggregator and
every multiplier is positive, sources are aggregators; nothing is assumed of the
observations in a pending transaction but that they are natural numbers):

- `TypeCorrect`: the type invariant;
- `RollbackCorrect`, by the inductive invariant `IInv`, the conjunction of the types,
  `RollbackTarget` and "the current price is a scaled answer or observation";
- `ZeroEnds`: pt skips a price of zero (`SignalSkipsZero`); an event confirms, at the answer
  of an aggregator (`EventPositive`); a header that settles a price takes the one of
  `RollbackTarget`, which is an answer as well (`HeaderPositive`).  Without `RollbackTarget`
  `revert` might copy the 0 that `price_cache` holds while no speculation is open;
- `CacheImplementsSpeculation`: the refinement. The settled price is the answer the bot was
  last told (`reported`), scaled, not a field of the cache; only an event changes it.
  `pt` therefore maps to `Speculate`, an event to `Settle`, and a header has to be a
  `Rollback`: a `revert` that kept the speculative price, or restored another, is none,
  and `RollbackTarget` is what shows that it does neither;
- `SettledCorrect`: inductive with `FeedInv`, that of every aggregator the last event on
  its way carries the latest answer, and that with none on its way and none lost this
  answer has been reported.  Without the first part the event that clears `missed` could
  be any;
- `OneHeaderSettles`, what `SpeculationEnds` rests on besides fairness: no price has been
  written later than the last signal (`SignalsPast`), so five block intervals after it a
  header whose queries succeed closes every speculation, and nothing opens one.

`StartupProofs` proves, from `StartupAssumption` (a reorganisation is not
deeper than the delay, 100 blocks in the code):

- `TypeCorrect`;
- `FilesCanonical`, `FilesVaiFresh`: by the inductive invariant `IInv`, which says of the
  files (`FilesRight`) and, while the mirror is behind the final blocks, of the mirror
  (`LoadedRight`) that they are exact unless cut, and that what logs assign is right in either
  case; that the final blocks exist (`FinalKnown`), that the height is not beyond the final
  block while the files are written, also when the sync before was cut short
  (`BehindFinal`), and that no VAI query is outstanding then (`Refreshed`).  Without
  `BehindFinal` the files could hold blocks that vanish later;
- `MirrorStaysExact` and `AssignedDataRight`: until the chain reorganises under the process,
  the same of the mirror into the live phase (`MirrorRight`), inductive with
  `TargetInChain`, that a sync does not look beyond the head.  The lemmas about a chunk
  are `ReplayIsRight`, for one applied to its end, and `CutIsRight`, for one in which
  `update` raised: what was applied beyond the height are later blocks, which the
  replay applies again, in order;
- `StartBounded`, what `StartupEnds` rests on besides fairness: every step of a start goes
  to a later point (`Ahead`) or lowers what the loop at hand has to ask for (`ToAsk`), and
  no step of the chain takes that back, since the loop's target is not looked up again.

`HotStatesProofs` proves `TypeCorrect`, `KeysCorrect`, `IndexCorrect`, `FlagsCorrect` and
`HealCorrect`, for any users, reserves and blocks, by one invariant `HotInv`.  It is about
entries, whichever object a reserve is in: `HeapInv` says that an entry is typed, what is
shared with the full states, and that a debt has an index in the full states and in its own
object; `Chain` that the ledger follows the logs one by one; `KeysInv`, `FlagsInv` and
`HealInv` are the properties themselves.  `BalancesHeal` alone is not inductive: it says
nothing of a user that the selection does not have yet, whose full states are what a later
merge starts from, so `HealInv` covers these too; and blocks are skipped, so `Chain` also
compares the balances of any two blocks between which no log is about them.

`SchedulerProofs` proves `PositionsExist`, that slices and indexes stay within their dicts
(its lemma `SliceInRange` is about the wrapped start), and `NoUserTwiceCorrect`,
`NearListedCorrect` and `RemainingQueuedCorrect` by the invariant `SchedInv`: `ListsOK` and
`QueueOK` say that lists and queued rests repeat nobody, `PtInv` says it of the list pt
refers to, which may be in no dict any more, and `ListedNear` that the users in the history
variable `listed`, each with an aggregator, are still near and still have it, without
either of which a rebuilt list could drop one; logs only add reserves.  The steps
rest on lemmas on lists: an insertion keeps a list without repetition and moves nobody
forward (`InsertKeeps`), so what follows the first users only grows (`RestGrows`); a list sorted by health factor exists for every
set of users (`SortExists`), so `users_trimming` is one (`TrimmingIs`).  `QueueDrains` is what
`RemainingComputed` rests on besides fairness and `RemainingQueued`: whoever waits in the
i-th list of the queue is computed within i calls of the idle task, since pt only appends.

Of `Rounds` it proves `SampledCorrect` and `RefreshedCorrect`, for any number of users,
aggregators, slices and blocks a minute, as long as there are no more slices than blocks
(10 and 20 in the code; else an early slice may end exactly at the last user, and
`get_users_sampling` returns nothing for the slice after it).  `GcdIs` shows that the
greatest common divisor is a combination of the two numbers (the least positive one), and
`Cycle` that as many turns as the length reach exactly one residue class modulo it.
`BlockAlways` is the invariant that ties the block number to the minutes.

`SenderProofs` proves `TypeCorrect`; `NoncesCorrect`, inductive with the types of the
nonces; and `SuppressionCorrect`: `NoRepeat` needs that the record of a user's debt is the
amount signed last unless another amount was seen since; `liquidation_abandoned` breaks
that link and sets `other` with it.  `OneSignerCorrect` rests on `TopOfResults`: the sorted
choice takes each liquidation from one signer at most, whatever the profits and however
ties are ordered.

`SupervisionProofs` proves `TypeCorrect` and `BudgetsCorrect`.  The inductive invariant
ties each counter to the task's exceptions place by place, since the light loop counts
before a try, the header loop after a failure, and the pending loop before a try but
checks after it.  `RetriesBounded` is what `SettlesOrEnds` rests on besides fairness:
`MovesLeft`, a number for each task that falls whenever it leaves its place and that no
other task changes.

The same module extends `Comet`, whose subscription is one of these loops, and proves
`IncentiveCorrect` and `FactorCorrect` of its `SpecConfigs`, from `CometAssumption` (no market
is called as the incentive is).  `IncentiveCurrent` and `FactorRecorded` speak of a
subscription that has caught up, and are not inductive.  `ConfigsInv` adds the ways there: a parameter of which
nothing was missed and no log is on its way is current (`FollowedCurrent`), and so is one
that was queried and did not change since (`QueriedCurrent`); the last block about a
parameter carries the comptroller's value (`NewestCounts`).  An old block can be delivered
again: one before the last update is rejected; the last update itself changes nothing
(`UpdateApplied`); and what was passed after the last update was empty or lost, so that its
parameters are in `missed` already (`PassedMissed`).  `FactorInUseFrozen` is the action
property behind the divergence of section 4: the factor under the key of the query, the
one `calculate_health_factor` reads, never changes after the query, because the spellings
differ (`Spellings`).

`HealthFactorProofs` proves `TypeCorrect` and, from it and `HealthAssumption` (a ctoken is
worth at least one unit, the treasury's share is at most the incentive, the ctokens are
finitely many), `FitCorrect`, `CloseCorrect`, `SeizeCorrect` and `ProfitCorrect`, by lemmas
on truncating division: `(s * e \div r) * r \div e <= s`, and its order.  `MonotoneCorrect`
is the action property: the sums of `calculate_health_factor` are folds over the set of
ctokens, which have a value (`SumExists`) that is in the order of what is summed
(`TotalOrder`); every summand is in the order of the price and of the index (`WorthGrows`,
`OwesGrows`), so a step that raises one of these moves numerator or denominator in one
direction (`SumsMove`).

`RouterProofs` proves `SwapCovers`, that the `+ 1` of `swap_simulation` makes up for the
truncation of the exchange and of the program, and with it `RouteCorrect` and
`BestCorrect`, for routes of any length, all reserves and all fees.  `RoutInv` adds to
`BestOfUnused` that the list still has every token that was no end, and that what was
returned is a path over the list with its own cost.  `PathCovers` follows the exchange hop
by hop (`Going`): it holds no less than the next hop was to be given, and each pool ahead
is no worse than it was when the route was computed.  The second part is needed where a
route between a token and itself uses a pool twice: a swap makes its pool better for the
opposite direction, and a path takes no pool twice in the same one (`OneSwap`).

Facts about recursive functions, folds and loops are proved without induction over data:
the least number of turns, or of elements, at which one fails (`NatMin`) is not 0, and the
turn before leads to a contradiction.

**Only model-checked**: the liveness properties `SpeculationEnds`, `StartupEnds`,
`RemainingComputed` and `SettlesOrEnds`, since fairness and ENABLED are outside the prover's
reach.  What they rest on besides fairness is proved, as a bound or a variant
(`OneHeaderSettles`, `StartBounded`, `QueueDrains`, `RetriesBounded`).

## 6. What is not modelled, and what the models leave out

- In `Startup` the mirror is the sequence of blocks applied; that the third replay goes
  through `HighProfitSates`, and the collateral flags a replay asks for, are left out.  A
  block cut short is one of which some logs were applied; which ones is not said.  Of the
  totals, which no file gives back and nothing reads, nothing is claimed.
- Multi-log blocks in the live phase: in `HotStates` a block has one log, so an error
  in the middle of a block's logs is not covered there.
- In `HotStates`: the VAI plug-in of the live phase (its value is an input of
  `HealthFactor`) and market totals, which nothing that runs reads.  `write_back_*` and
  `eliminate_lowprof_states` are never called.
- Logs of orphaned blocks in the live phase: the light node's message has no
  `removed` field, so the bot cannot tell.
- Floats: the health factor is a quotient of integers, its thresholds are compared in
  hundredths (`Scheduler`) and the 0.8 and 0.1 of liquidations in tenths; rounding of
  the last binary place is not modelled.
- In `Scheduler` health factors are not computed from balances, and of the balances only
  which aggregators concern a user is there, so nothing is said about
  *how far* a stale one is off.  In `Sender` the nonce of the bnb48 account, which is
  moved on once more than it signs until the next header, has no property: no bundle of it
  is ever sent.  In `Router` the reserves never change, as in the code.
- `profit_simulation`'s choice among pairs and the shortcut at compound.py:764, which
  looks at the first pair only; `SwapV3`, `RoutsCompV2` and `FlashSender`, which this
  configuration does not use; the full-node variants of the callbacks, commented out in
  `main`.
- The anchor check of `SignalsCompV2` (always true), logging, the text of calls.
- RPC wrappers, key handling: pure I/O.
- `bxcommon/` and `bxutils/` (about 33,000 of the repository's 43,000 lines of Python)
  are a vendored library for running a bloXroute node.  The bot imports a conversion
  function and a transaction serializer from it and never starts any of its services,
  connections or event loops: a model of those would not be about this program.
  `scripts/` (about 3,000 lines) are analyses run by hand on logs.
