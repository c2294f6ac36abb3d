----------------------------- MODULE Scheduler ------------------------------
(***************************************************************************)
(* When the live bot computes which health factor (compound.py).  A signal *)
(* computes the first users of the aggregator's pre-filtered list and      *)
(* leaves the rest to the idle task, through a queue; the idle task also   *)
(* samples users and rebuilds the lists; a log recomputes its users and    *)
(* inserts them into the lists.  pt and the idle task both wait for the    *)
(* sender between computing health factors and writing them down, and the  *)
(* other tasks run during that wait.  pt keeps a reference to the list it  *)
(* started from, which the callback of the logs may change in place and    *)
(* the idle task may replace.                                              *)
(*                                                                         *)
(* What calculate_health_factor returns is any value: prices, balances and *)
(* exchange rates change between any two calls.  Its arithmetic is in      *)
(* HealthFactor; how block numbers choose slices and aggregators is in     *)
(* Rounds, the sender is in Sender.                                        *)
(***************************************************************************)
EXTENDS Rounds, Sequences, SequencesExt

CONSTANTS
    Users,          \* addresses, which sorted() compares
    Aggrs,          \* the keys of signal_token_map
    user_lst,       \* list(users_states), in the order of the dict
    aggr_lst,       \* list(signal_token_map)
    InitHolds,      \* per user, the aggregators of the tokens in its reserves
    Hfs,            \* health factors, in hundredths
    InitHf,         \* those complete_states_info has written
    Batch,          \* index of pt: the users it computes itself
    MaxFailures,    \* get_pending_transactions_light gives up at this counter
    MaxSignals,     \* bound: signals in a behaviour
    MaxMessages     \* bound: messages with users' logs in a behaviour

ASSUME SchedulerAssumption ==
    /\ Users \subseteq Nat
    /\ user_lst \in Seq(Users) /\ ToSet(user_lst) = Users /\ IsInjective(user_lst)
    /\ aggr_lst \in Seq(Aggrs) /\ ToSet(aggr_lst) = Aggrs /\ IsInjective(aggr_lst)
    /\ Hfs \subseteq Nat
    /\ InitHolds \in [Users -> SUBSET Aggrs]
    /\ InitHf \in [Users -> Hfs]
    /\ Batch \in Nat \ {0}
    /\ MaxFailures \in Nat \ {0}
    /\ MaxSignals \in Nat
    /\ MaxMessages \in Nat

VARIABLES
    hf,                 \* states.users_states[usr].health_factor
    holds,              \* aggregators of the keys of states.users_states[usr].reserves
    users_pre_filtered,
    users_pending,
    block_num,          \* block_infos.block_num
    newBlock,           \* block_num > prev_block of liquidation_idel
    ptJob,              \* pt, between computing and writing down
    idleJob,            \* liquidation_idle_callback, likewise
    counter,            \* exceptions in get_pending_transactions_light
    ended,              \* asyncio.gather has raised
    signals,            \* history: signals so far
    messages,           \* history: messages so far
    owed,               \* history: users a signal concerned, not computed since
    dropped,            \* history: users owed when a send raised
    behind,             \* history: users whose hf replaced one computed after a log
    listed              \* history: users a log brought into (1.0, 1.1), with the
                        \* aggregators they had then

block == <<block_num, newBlock>>
vars == <<hf, holds, users_pre_filtered, users_pending, block, ptJob, idleJob,
          counter, ended, signals, messages, owed, dropped, behind, listed>>

\* Results and the users among them that a log has had recomputed since;
\* aggr, and the list if users_pre_filtered does not refer to it any more.
noJob == [busy |-> FALSE, results |-> <<>>, outdated |-> {}]

noPt == [busy |-> FALSE, results |-> <<>>, outdated |-> {},
         aggr |-> "none", attached |-> FALSE, kept |-> <<>>]

-----------------------------------------------------------------------------
(* users_trimming; none of its callers below is stopped by last_update *)

\* left > hf_norm > base
Near(v) == 100 < v /\ v < 110

\* hf_norm >= left or base >= hf_norm >= right or hf_norm == -1
NotNear(v) == v >= 110 \/ (90 <= v /\ v <= 100) \/ v = 0

NearFirst(h, u, w) == h[u] < h[w] \/ (h[u] = h[w] /\ u < w)

users_trimming(us, h) ==
    CHOOSE list \in SetToSeqs({u \in us : Near(h[u])}) :
        \A i, j \in 1..Len(list) : i < j => NearFirst(h, list[i], list[j])

users_filtering(a) == {u \in Users : a \in holds[u]}

write_health_factor(h, results) ==
    [u \in Users |-> IF u \in DOMAIN results THEN results[u] ELSE h[u]]

\* Before the first user with a larger health factor, and first if there is none.
InsertIndex(list, u, h) ==
    LET larger == {i \in 1..Len(list) : h[u] < h[list[i]]}
    IN  IF larger = {} THEN 1 ELSE Min(larger)

insert_anyway(list, u, h) == InsertAt(list, InsertIndex(list, u, h), u)

insert(list, u, h) ==
    IF Contains(list, u) THEN list
    ELSE InsertAt(list, InsertIndex(list, u, h), u)

\* The loop over users_filtered, for the list of one aggregator.
insert_all(list, a, users_filtered, h, holding) ==
    LET after[n \in 0..Len(users_filtered)] ==
            IF n = 0 THEN list
            ELSE IF a \in holding[users_filtered[n]]
                 THEN insert(after[n - 1], users_filtered[n], h)
                 ELSE after[n - 1]
    IN  after[Len(users_filtered)]

-----------------------------------------------------------------------------
Init ==
    /\ hf = InitHf
    /\ holds = InitHolds
    /\ users_pre_filtered = [a \in Aggrs |-> users_trimming(users_filtering(a), hf)]
    /\ users_pending = <<>>
    /\ block_num = Num * FirstMinute
    /\ newBlock = FALSE
    /\ ptJob = noPt
    /\ idleJob = noJob
    /\ counter = 0
    /\ ended = FALSE
    /\ signals = 0
    /\ messages = 0
    /\ owed = {}
    /\ dropped = {}
    /\ behind = {}
    /\ listed = {}

\* The results of a batch are written down.
Write(job) ==
    /\ hf' = write_health_factor(hf, job.results)
    /\ behind' = (behind \ DOMAIN job.results) \cup job.outdated
    /\ listed' = {p \in listed : Near(hf'[p[1]])}

\* users[0:index], of a list that may be shorter
First(users) == SubSeq(users, 1, IF Batch < Len(users) THEN Batch ELSE Len(users))

\* users[index:]
Rest(users) == SubSeq(users, Batch + 1, Len(users))

\* pt: a signal, from the look-up of its users to the wait for the sender.  One
\* signal at a time: the next one waits for this one.
pt_start(a) ==
    LET users == users_pre_filtered[a]
        batch == ToSet(First(users))
    IN  /\ ~ended /\ ~ptJob.busy /\ signals < MaxSignals
        /\ users # <<>>
        /\ \E res \in [batch -> Hfs] :
              ptJob' = [busy |-> TRUE, results |-> res, outdated |-> {},
                        aggr |-> a, attached |-> TRUE, kept |-> <<>>]
        /\ signals' = signals + 1
        /\ owed' = (owed \cup ToSet(users)) \ batch
        /\ UNCHANGED <<hf, holds, users_pre_filtered, users_pending, block, idleJob,
                       counter, ended, messages, dropped, behind, listed>>

pt_users_again == users_pre_filtered[ptJob.aggr]

\* `users' of pt: the list object it looked up.
pt_users ==
    IF ptJob.attached THEN users_pre_filtered[ptJob.aggr] ELSE ptJob.kept

\* pt, after the wait.
pt_finish ==
    /\ ~ended /\ ptJob.busy
    /\ Write(ptJob)
    /\ users_pending' = Append(users_pending, Rest(pt_users))
    /\ ptJob' = noPt
    /\ UNCHANGED <<holds, users_pre_filtered, block, idleJob, counter, ended, signals,
                   messages, owed, dropped>>

\* pt, when send_transactions raises: before it waits, with nothing written.
pt_raises(a) ==
    LET users == users_pre_filtered[a] IN
    /\ ~ended /\ ~ptJob.busy /\ signals < MaxSignals
    /\ users # <<>>
    /\ signals' = signals + 1
    /\ counter' = counter + 1
    /\ ended' = (counter + 1 >= MaxFailures)
    /\ dropped' = dropped \cup ToSet(Rest(users))
    /\ owed' = owed \cup ToSet(Rest(users))
    /\ UNCHANGED <<hf, holds, users_pre_filtered, users_pending, block, ptJob, idleJob,
                   messages, behind, listed>>

-----------------------------------------------------------------------------
(* liquidation_idle_callback.  users_continue is never written, so its task *)
(* 1 never runs.  An empty list in the queue is taken and task 3 goes on.   *)

get_data_from_queue == IF users_pending = <<>> THEN <<>> ELSE Head(users_pending)

Taken == IF users_pending = <<>> THEN <<>> ELSE Tail(users_pending)

only_at_new_block ==
    /\ ~ended /\ ~idleJob.busy /\ newBlock
    /\ get_data_from_queue # <<>>
    /\ LET batch == ToSet(get_data_from_queue) IN
          /\ \E res \in [batch -> Hfs] :
                idleJob' = [busy |-> TRUE, results |-> res, outdated |-> {}]
          /\ owed' = owed \ batch
          /\ dropped' = dropped \ batch
    /\ users_pending' = Taken
    /\ UNCHANGED <<hf, holds, users_pre_filtered, block, ptJob, counter, ended, signals,
                   messages, behind, listed>>

\* Task 2, up to the wait for the sender.
idle_pending ==
    /\ ~ended /\ ~idleJob.busy
    /\ get_data_from_queue # <<>>
    /\ LET batch == ToSet(get_data_from_queue) IN
          /\ \E res \in [batch -> Hfs] :
                idleJob' = [busy |-> TRUE, results |-> res, outdated |-> {}]
          /\ owed' = owed \ batch
          /\ dropped' = dropped \ batch
    /\ users_pending' = Taken
    /\ UNCHANGED <<hf, holds, users_pre_filtered, block, ptJob, counter, ended, signals,
                   messages, behind, listed>>

\* Task 2, after the wait; prev_block stays as it is.
idle_finish ==
    /\ ~ended /\ idleJob.busy
    /\ Write(idleJob)
    /\ idleJob' = noJob
    /\ UNCHANGED <<holds, users_pre_filtered, users_pending, block, ptJob, counter, ended,
                   signals, messages, owed, dropped>>

\* The send of task 2 raises, and liquidation_idel raises in turn.
idle_raises ==
    /\ ~ended /\ ~idleJob.busy
    /\ get_data_from_queue # <<>>
    /\ users_pending' = Taken
    /\ ended' = TRUE
    /\ UNCHANGED <<hf, holds, users_pre_filtered, block, ptJob, idleJob, counter, signals,
                   messages, owed, dropped, behind, listed>>

\* Task 3 without work: no new block, or one of the other switches.
idle_nothing ==
    /\ ~ended /\ ~idleJob.busy
    /\ get_data_from_queue = <<>>
    /\ newBlock => switch(block_num) \notin {1, 3}
    /\ users_pending' = Taken
    /\ newBlock' = FALSE
    /\ UNCHANGED <<hf, holds, users_pre_filtered, block_num, ptJob, idleJob, counter,
                   ended, signals, messages, owed, dropped, behind, listed>>

\* states.get_users_sampling(index, 10)
SampledUsers ==
    {user_lst[i + 1] : i \in get_users_sampling(Len(user_lst), block_num)}

\* Task 3, switch 1: of the sampled users those outside (1.0, 1.1) that were not
\* computed lately; nothing waits between computing and writing.
idle_sample ==
    /\ ~ended /\ ~idleJob.busy /\ newBlock
    /\ switch(block_num) = 1
    /\ get_data_from_queue = <<>>
    /\ users_pending' = Taken
    /\ newBlock' = FALSE
    /\ \E us \in SUBSET {u \in SampledUsers : NotNear(hf[u])} :
       \E res \in [us -> Hfs] :
          /\ Write([results |-> res, outdated |-> {}])
          /\ owed' = owed \ us
          /\ dropped' = dropped \ us
    /\ UNCHANGED <<holds, users_pre_filtered, block_num, ptJob, idleJob, counter, ended,
                   signals, messages>>

\* Task 3, switch 3: a new list object; pt may still hold the old one.
idle_prefilter(a) ==
    /\ ~ended /\ ~idleJob.busy /\ newBlock
    /\ switch(block_num) = 3
    /\ a = aggr_lst[get_tokens_from_aggr_index(Len(aggr_lst), block_num) + 1]
    /\ get_data_from_queue = <<>>
    /\ users_pending' = Taken
    /\ newBlock' = FALSE
    /\ users_pre_filtered' =
          [users_pre_filtered EXCEPT ![a] = users_trimming(users_filtering(a), hf)]
    /\ ptJob' = IF ptJob.busy /\ ptJob.attached /\ ptJob.aggr = a
                THEN [ptJob EXCEPT !.attached = FALSE, !.kept = users_pre_filtered[a]]
                ELSE ptJob
    /\ UNCHANGED <<hf, holds, block_num, idleJob, counter, ended, signals, messages, owed,
                   dropped, behind, listed>>

\* block_infos.update: a header.  Of the blocks of a minute the idle task treats
\* those alike that are of neither switch; it may not look before the next one.
on_message ==
    /\ ~ended
    /\ \E m \in Minutes, number \in {1, 3, 4} :
          /\ BlockOf(m, number) > block_num
          /\ block_num' = BlockOf(m, number)
    /\ newBlock' = TRUE
    /\ UNCHANGED <<hf, holds, users_pre_filtered, users_pending, ptJob, idleJob, counter, ended,
                   signals, messages, owed, dropped, behind, listed>>

-----------------------------------------------------------------------------
\* What a log and the states merged with it may make of the reserves of users us:
\* none is taken away, some may be new (check_user_and_reserve, extend_states).
Extended(us) ==
    {new \in [Users -> SUBSET Aggrs] :
        \A u \in Users : holds[u] \subseteq new[u] /\ (u \notin us => new[u] = holds[u])}

\* The results of users us, who have the reserves of `new', are written: target
\* are those to look at for the lists.
Listed(us, res, new, target) ==
    /\ hf' = write_health_factor(hf, res)
    /\ users_pre_filtered' = [a \in Aggrs |->
          insert_all(users_pre_filtered[a], a, users_trimming(target, hf'), hf', new)]
    /\ listed' = {p \in listed : Near(hf'[p[1]])}
                     \cup {p \in us \X Aggrs : /\ NotNear(hf[p[1]]) /\ Near(hf'[p[1]])
                                               /\ p[2] \in new[p[1]]}

target_after_writing(us, res) ==
    {u \in us : NotNear(write_health_factor(hf, res)[u])}

\* users_trimming before write_health_factor: a user that is near already is not
\* among them, whatever reserves it has got.
users_target(us, res) == {u \in us : NotNear(hf[u])}

\* users_subscribe_callback; the balances it writes first are in HotStates.  It
\* never waits.
users_subscribe_callback(us) ==
    /\ ~ended /\ messages < MaxMessages
    /\ messages' = messages + 1
    /\ \E new \in Extended(us), res \in [us -> Hfs] :
          /\ holds' = new
          /\ Listed(us, res, new, users_target(us, res))
    /\ behind' = behind \ us
    /\ owed' = owed \ us
    /\ dropped' = dropped \ us
    /\ ptJob' = [ptJob EXCEPT !.outdated = @ \cup (us \cap DOMAIN ptJob.results)]
    /\ idleJob' = [idleJob EXCEPT !.outdated = @ \cup (us \cap DOMAIN idleJob.results)]
    /\ UNCHANGED <<users_pending, block, counter, ended, signals>>

\* It raises at a log or at getAssetsIn: the reserves stay, nothing is recomputed.
users_subscribe_callback_raises(us) ==
    /\ ~ended /\ messages < MaxMessages
    /\ messages' = messages + 1
    /\ holds' \in Extended(us)
    /\ UNCHANGED <<hf, users_pre_filtered, users_pending, block, ptJob, idleJob,
                   counter, ended, signals, owed, dropped, behind, listed>>

Next ==
    \/ \E a \in Aggrs : pt_start(a) \/ pt_raises(a) \/ idle_prefilter(a)
    \/ pt_finish
    \/ idle_pending
    \/ idle_finish
    \/ idle_raises
    \/ idle_nothing
    \/ idle_sample
    \/ on_message
    \/ \E us \in (SUBSET Users) \ {{}} :
          users_subscribe_callback(us) \/ users_subscribe_callback_raises(us)

Spec == Init /\ [][Next]_vars

\* The loop of liquidation_idel sleeps 0.2 s between calls and send_transactions
\* waits 1 ms: both timers fire.  Headers, signals and logs need not come.
IdleStep ==
    \/ idle_pending
    \/ idle_nothing
    \/ idle_sample
    \/ \E a \in Aggrs : idle_prefilter(a)

LiveSpec == Spec /\ WF_vars(IdleStep) /\ WF_vars(idle_finish) /\ WF_vars(pt_finish)

-----------------------------------------------------------------------------
(* Properties *)

\* The users still to be computed by pt's queue or by pt itself.
Scheduled ==
    (UNION {ToSet(users_pending[i]) : i \in 1..Len(users_pending)})
        \cup (IF ptJob.busy THEN ToSet(Rest(pt_users)) ELSE {})

\* Every user of the list a signal looked up is computed for it or waits in the
\* queue, although logs insert users into that list, and the idle task replaces
\* it, while pt waits for the sender; only a send that raises drops them.
RemainingQueued == ~ended => owed \ dropped \subseteq Scheduled

\* A user whom a log brought into (1.0, 1.1) from a health factor that the filter
\* calls not near is on the lists of all the aggregators it had with that log, those
\* the log itself gave it included, as long as its health factor stays in the range:
\* through rebuilt lists, late writes and reserves it gets later.  Not on the list
\* of an aggregator it gets while it is near: users_target leaves it out.
NearListed == \A p \in listed : Contains(users_pre_filtered[p[2]], p[1])

\* No list and no queued rest has a user twice, whatever is inserted while pt
\* waits: users_to_liquidate is not the only guard against a double liquidation.
NoUserTwice ==
    /\ \A a \in Aggrs : IsInjective(users_pre_filtered[a])
    /\ \A i \in 1..Len(users_pending) : IsInjective(users_pending[i])

\* The minute of the block.
minute == block_num \div Num

\* From wherever the program is, the users that switch 1 computes in as many
\* minutes as there are users are those of one residue class, and no later or
\* missed minute adds one: the others are never sampled while the number of
\* users, any up to the bound, stays what it is.
SampledIsReachable == SampledFrom[minute]

\* The lists that switch 3 rebuilds are one residue class: all of them exactly
\* if the number of aggregators has no factor in common with the blocks of a
\* minute.
RefreshedIsClass == RefreshedFrom[minute]

\* compound.py:369, "recalculate users hf after updating": a health factor that was
\* recomputed after a log is not replaced by an older one.  It is when pt or the
\* idle task writes down, after its wait, what it computed before that log.
HfFollowsLogs == behind = {}

\* A user that a signal left to the idle task is computed, unless a send raises.
RemainingComputed ==
    \A u \in Users : u \in owed ~> (u \notin owed \/ u \in dropped \/ ended)
=============================================================================
