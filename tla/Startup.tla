------------------------------ MODULE Startup -------------------------------
(***************************************************************************)
(* How the bot gets its mirror of the protocol's balances: the three files *)
(* it reloads, the events it replays on top of them, the files it writes   *)
(* half way, and the moment it starts to listen (compound.py from line     *)
(* 1248 on, configs/users.py, configs/tokens.py).  The process may die     *)
(* between any two steps and be started again, queries to the node may     *)
(* fail, and the chain grows and reorganises meanwhile.                    *)
(*                                                                         *)
(* A part of the mirror is represented by the blocks whose logs were       *)
(* applied to it, in order: whatever States.update makes of a log, a part  *)
(* that applied the blocks of the chain once each, in order, is right.  An *)
(* exception in the middle of a chunk leaves the last of them cut short.   *)
(* What user_state_extend_hook asks the node is not part of it.            *)
(***************************************************************************)
EXTENDS Integers, Sequences, FiniteSets

CONSTANTS
    Contents,       \* what the logs of a block can be
    Delay,          \* blocks behind the head that the files stay (100)
    ChunkSize,      \* blocks per eth_getLogs (2000)
    ReorgDepth,     \* blocks below the highest head that may still change
    MaxHeight,      \* bound: the model's last block
    MaxCut          \* bound: blocks a mirror and its files may hold cut short

ASSUME StartupAssumption ==
    /\ Delay \in Nat
    /\ ChunkSize \in Nat \ {0}
    /\ ReorgDepth \in Nat
    /\ ReorgDepth <= Delay
    /\ MaxHeight \in Nat
    /\ MaxCut \in Nat

VARIABLES
    blocks,         \* external: the canonical chain, a content per block
    final,          \* external: the last block that cannot change any more
    pc,             \* where __main__ is
    mem,            \* the mirror: users_states, ctokens' risks, supplies, totals
    last_update,    \* states.last_update
    target,         \* block_number of the running sync_states, else 0
    storage,        \* plug_in.storage: blocks whose VAI events wait for a query
    disk,           \* the three files
    reorged         \* history: did the chain reorganise since the start?

chainVars == <<blocks, final>>
vars == <<blocks, final, pc, mem, last_update, target, storage, disk, reorged>>

Files == {"users", "risks", "balances"}

\* CtokenBalances is two parts: the total supply, which the balances file gives
\* back, and the total reserve and borrow, which it does not.
Parts == Files \cup {"totals"}

SyncPoints == {"sync1", "sync2", "sync3"}

\* The loop of each sync_states, and what follows it.
LoopOf == [sync1 |-> "loop1", sync2 |-> "loop2", sync3 |-> "loop3"]

Loops == {"loop1", "loop2", "loop3"}

AfterLoop == [loop1 |-> "vai", loop2 |-> "sync3", loop3 |-> "main"]

\* cache writes the files one after the other; pc names the one it is at.
AfterFile == [users |-> "risks", risks |-> "balances", balances |-> "sync2"]

Points == {"down", "vai", "main", "live"} \cup Files \cup SyncPoints \cup Loops

\* A file as JSON holds it; json.load refuses one that is absent or cut short.
NoFile == [intact |-> FALSE, applied |-> <<>>, last_update |-> 0, stale |-> {}]

min(a, b) == IF a < b THEN a ELSE b

\* The logs of block i, applied to the last one; those of a range of blocks.
Log(i) == [at |-> i, content |-> blocks[i], logs |-> "all"]

Logs(from, to) == [i \in 1 .. to - from + 1 |-> Log(from + i - 1)]

\* The block in whose logs update raises: some of them are not applied.
CutLog(i) == [Log(i) EXCEPT !.logs = "part"]

Cuts(applied) == Cardinality({i \in 1..Len(applied) : applied[i].logs = "part"})

-----------------------------------------------------------------------------
Init ==
    /\ blocks = <<>>
    /\ final = 0
    /\ pc = "down"
    /\ mem = [p \in Parts |-> <<>>]
    /\ last_update = 0
    /\ target = 0
    /\ storage = {}
    /\ disk = [p \in Files |-> NoFile]
    /\ reorged = FALSE

\* external: a block is mined; what lies ReorgDepth below it becomes final.
Mine(c) ==
    /\ Len(blocks) < MaxHeight
    /\ blocks' = Append(blocks, c)
    /\ final' = IF Len(blocks) + 1 - ReorgDepth > final
                THEN Len(blocks) + 1 - ReorgDepth ELSE final
    /\ UNCHANGED <<pc, mem, last_update, target, storage, disk, reorged>>

\* external: another branch wins; its blocks are mined afterwards.
Reorg(k) ==
    /\ final <= k
    /\ k < Len(blocks)
    /\ blocks' = SubSeq(blocks, 1, k)
    /\ reorged' = (pc # "down")
    /\ UNCHANGED <<final, pc, mem, last_update, target, storage, disk>>

-----------------------------------------------------------------------------
(* The steps of __main__ *)

\* users_file_status = 1.  Files of different blocks raise, as missing and
\* broken ones do, and the process ends: the action is not enabled.  The balances
\* file names totalReserve and totalBorrow, the reload asks for totalReserves and
\* totalBorrows: both start again from nothing.
reload_states ==
    /\ pc = "down"
    /\ \A p \in Files : disk[p].intact
    /\ disk["balances"].last_update = disk["risks"].last_update
    /\ disk["users"].last_update = disk["balances"].last_update
    /\ mem' = [p \in Parts |-> IF p \in Files THEN disk[p].applied ELSE <<>>]
    /\ last_update' = disk["users"].last_update
    /\ pc' = "sync1"
    /\ UNCHANGED <<chainVars, target, storage, disk, reorged>>

reload_from_before_init ==
    /\ pc = "down"
    /\ mem' = [p \in Parts |-> <<>>]
    /\ last_update' = -1
    /\ pc' = "sync1"
    /\ UNCHANGED <<chainVars, target, storage, disk, reorged>>

\* users_file_status = 0: no files, everything from init_block_number on.
reload_from_init ==
    /\ pc = "down"
    /\ mem' = [p \in Parts |-> <<>>]
    /\ last_update' = 0
    /\ pc' = "sync1"
    /\ UNCHANGED <<chainVars, target, storage, disk, reorged>>

sync_states_at_head(p) ==
    /\ pc = p
    /\ target' = Len(blocks)
    /\ pc' = LoopOf[p]
    /\ UNCHANGED <<chainVars, mem, last_update, storage, disk, reorged>>

\* The height is asked for once; only the first sync stays behind the head.
sync_states(p) ==
    /\ pc = p
    /\ target' = Len(blocks) - (IF p = "sync1" THEN Delay ELSE 0)
    /\ pc' = LoopOf[p]
    /\ UNCHANGED <<chainVars, mem, last_update, storage, disk, reorged>>

query_events_from_last(p) ==
    /\ pc = p
    /\ last_update < target
    /\ LET to_block == min(last_update + ChunkSize, target)
           logs == Logs(IF last_update = 0 THEN 1 ELSE last_update,
                        min(to_block, Len(blocks)))
       IN  /\ mem' = [q \in Parts |-> mem[q] \o logs]
           /\ storage' = storage \cup (last_update + 1 .. to_block)
           /\ last_update' = to_block
    /\ UNCHANGED <<chainVars, pc, target, disk, reorged>>

query_events_keeps_height(p) ==
    /\ pc = p
    /\ last_update < target
    /\ LET to_block == min(last_update + ChunkSize, target)
       IN  storage' = storage \cup (last_update + 1 .. to_block)
    /\ UNCHANGED <<chainVars, pc, mem, last_update, target, disk, reorged>>

\* One round of query_events_loop_liq: the logs of a range of blocks, those
\* the node has; last_update moves to the end of the range either way.
query_events_loop_liq(p) ==
    /\ pc = p
    /\ last_update < target
    /\ LET to_block == min(last_update + ChunkSize, target)
           logs == Logs(last_update + 1, min(to_block, Len(blocks)))
       IN  /\ mem' = [q \in Parts |-> mem[q] \o logs]
           /\ storage' = storage \cup (last_update + 1 .. to_block)
           /\ last_update' = to_block
    /\ UNCHANGED <<chainVars, pc, target, disk, reorged>>

sync_done(p) ==
    /\ pc = p
    /\ ~(last_update < target)
    /\ pc' = AfterLoop[p]
    /\ target' = 0
    /\ UNCHANGED <<chainVars, mem, last_update, storage, disk, reorged>>

update_raises_moved ==
    /\ pc = "loop1"
    /\ last_update < target
    /\ \A q \in Parts : Cuts(mem[q]) < MaxCut
    /\ LET to_block == min(last_update + ChunkSize, target)
       IN  \E k \in last_update + 1 .. min(to_block, Len(blocks)) :
              /\ mem' = [q \in Parts |->
                           mem[q] \o Append(Logs(last_update + 1, k - 1), CutLog(k))]
              /\ storage' = storage \cup (last_update + 1 .. k)
              /\ last_update' = to_block
    /\ pc' = "vai"
    /\ target' = 0
    /\ UNCHANGED <<chainVars, disk, reorged>>

\* update raises at a log it cannot decode: the logs before it stay applied under
\* the old last_update.  The first sync swallows the exception; in the others it
\* ends the process, and what was applied is lost with it.
update_raises ==
    /\ pc = "loop1"
    /\ last_update < target
    /\ \A q \in Parts : Cuts(mem[q]) < MaxCut
    /\ LET to_block == min(last_update + ChunkSize, target)
       IN  \E k \in last_update + 1 .. min(to_block, Len(blocks)) :
              /\ mem' = [q \in Parts |->
                           mem[q] \o Append(Logs(last_update + 1, k - 1), CutLog(k))]
              /\ storage' = storage \cup (last_update + 1 .. k)
    /\ pc' = "vai"
    /\ target' = 0
    /\ UNCHANGED <<chainVars, last_update, disk, reorged>>

\* "Sync to latest states failed": the first sync may give up at any query, the
\* hook's after a chunk included, and the program goes on with what it has.
sync_failed ==
    /\ pc \in {"sync1", "loop1"}
    /\ pc' = "vai"
    /\ target' = 0
    /\ UNCHANGED <<chainVars, mem, last_update, storage, disk, reorged>>

skip_vai_repay ==
    /\ pc = "vai"
    /\ pc' = "users"
    /\ UNCHANGED <<chainVars, mem, last_update, target, storage, disk, reorged>>

\* Every user in plug_in.storage is asked for, then it is cleared.
vai_repay ==
    /\ pc = "vai"
    /\ storage' = {}
    /\ pc' = "users"
    /\ UNCHANGED <<chainVars, mem, last_update, target, disk, reorged>>

\* cache: one file after the other.
cache(p) ==
    /\ pc = p
    /\ disk' = [disk EXCEPT ![p] =
                  [intact |-> TRUE, applied |-> mem[p],
                   last_update |-> last_update, stale |-> storage]]
    /\ pc' = AfterFile[p]
    /\ UNCHANGED <<chainVars, mem, last_update, target, storage, reorged>>

\* asyncio.run(main()): from here on the subscriptions deliver.
main ==
    /\ pc = "main"
    /\ pc' = "live"
    /\ UNCHANGED <<chainVars, mem, last_update, target, storage, disk, reorged>>

\* The process dies: killed, or an exception nobody catches.  A file that is
\* being written may be cut short: open(..., "w") empties it first.
Crash ==
    /\ pc # "down"
    /\ pc' = "down"
    /\ mem' = [p \in Parts |-> <<>>]
    /\ last_update' = 0
    /\ target' = 0
    /\ storage' = {}
    /\ reorged' = FALSE
    /\ \/ UNCHANGED disk
       \/ /\ pc \in Files
          /\ disk' = [disk EXCEPT ![pc] = NoFile]
    /\ UNCHANGED chainVars

Next ==
    \/ \E c \in Contents : Mine(c)
    \/ \E k \in 0..MaxHeight : Reorg(k)
    \/ reload_states
    \/ reload_from_init
    \/ \E p \in SyncPoints : sync_states(p)
    \/ \E p \in Loops : query_events_loop_liq(p) \/ sync_done(p)
    \/ update_raises
    \/ sync_failed
    \/ vai_repay
    \/ \E p \in Files : cache(p)
    \/ main
    \/ Crash

Spec == Init /\ [][Next]_vars

\* The program is sequential: it takes its next step as long as it runs.
FairSpec ==
    /\ Spec
    /\ \A p \in SyncPoints : WF_vars(sync_states(p))
    /\ \A p \in Loops : WF_vars(query_events_loop_liq(p) \/ sync_done(p))
    /\ WF_vars(vai_repay)
    /\ \A p \in Files : WF_vars(cache(p))
    /\ WF_vars(main)

-----------------------------------------------------------------------------
(* Properties *)

Applied == [at : Nat, content : Contents, logs : {"all", "part"}]

File == [intact : BOOLEAN, applied : Seq(Applied), last_update : Nat,
         stale : SUBSET Nat]

\* Types of the chain, the process and its files.
TypeOK ==
    /\ blocks \in Seq(Contents)
    /\ final \in Nat
    /\ pc \in Points
    /\ mem \in [Parts -> Seq(Applied)]
    /\ last_update \in Nat
    /\ target \in Int
    /\ storage \subseteq Nat
    /\ disk \in [Files -> File]
    /\ reorged \in BOOLEAN

\* No exception of update was swallowed while these blocks were replayed.
Uncut(applied) == \A i \in 1..Len(applied) : applied[i].logs = "all"

\* The first n blocks of the chain, each once and in order.
Exact(applied, n) ==
    /\ Len(applied) = n
    /\ n <= Len(blocks)
    /\ \A i \in 1..n : applied[i] = Log(i)

\* Each of the first n blocks of the chain was applied to its last log, and only
\* logs of later blocks were applied after that: what a log assigns is right.
Assigned(applied, n) ==
    /\ n <= Len(blocks)
    /\ \A i \in 1..n : \E j \in 1..Len(applied) :
          /\ applied[j] = Log(i)
          /\ \A l \in j + 1 .. Len(applied) : applied[l].at > i

\* The program points at which the mirror is still behind the final blocks.
Loading == {"sync1", "loop1", "vai"} \cup Files

\* Whatever was written last, by this run or an earlier one, a file that can
\* be read holds the canonical chain up to its lastUpdate, unless update raised:
\* no reorganisation, failed query or crash gets an orphaned, missing or repeated
\* block into it.
DiskCanonical ==
    \A p \in Files : disk[p].intact /\ Uncut(disk[p].applied)
                        => Exact(disk[p].applied, disk[p].last_update)

\* Every VAI event in the file's blocks was followed by a query of that user's
\* debt before the file was written, so that a restart, which replays later
\* blocks only, does not miss one.
DiskVaiFresh == \A p \in Files : disk[p].stale = {}

\* Until the files are written, and from then on unless the chain reorganises
\* under the running process, the parts of the mirror that have a file are exact
\* at last_update, unless update raised: whatever crashes and reorganisations came
\* before, in whichever chunks they were replayed, however far the chain grew.
MirrorExact ==
    pc \in Loading \/ (pc # "down" /\ ~reorged) =>
        \A p \in Files : Uncut(mem[p]) => Exact(mem[p], last_update)

\* An exception of update that the first sync swallows (compound.py:1259) makes
\* the bot replay logs it has applied, now and after every restart from the files
\* it then writes.  What logs add is counted twice; what they assign, debts and
\* borrow indexes, is right all the same, in the mirror and in every file.
AssignedRight ==
    /\ \A p \in Files : disk[p].intact
                           => Assigned(disk[p].applied, disk[p].last_update)
    /\ pc \in Loading \/ (pc # "down" /\ ~reorged) =>
           \A p \in Files : Assigned(mem[p], last_update)

\* However the chain grows meanwhile, a start comes to an end: the bot listens,
\* or the process has died.
StartupEnds == pc # "down" ~> pc \in {"live", "down"}

\* compound.py:1329 says of the third sync_states "sync to latest block again
\* if the last sync take a long time": when the subscriptions begin the mirror
\* is at the head.  A block mined in between is neither replayed nor delivered.
NoGapAtSubscription == [][main => last_update = Len(blocks)]_vars
=============================================================================
