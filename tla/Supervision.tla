---------------------------- MODULE Supervision -----------------------------
(***************************************************************************)
(* The tasks that main gathers (compound.py) and their retry loops: the    *)
(* light-node subscriptions and the header subscription (utils.py), the    *)
(* pending transactions, the idle task, and the receipts (tx.py).  An      *)
(* exception in a connection or in the callback of a message leads back to *)
(* the top of the task's loop, or out of it; one task that raises ends     *)
(* them all.  Each loop counts in its own way.                             *)
(***************************************************************************)
EXTENDS Integers

CONSTANTS
    Light,          \* subscribe_event_light: users, comet, prices, liquidations
    MaxLight,       \* the counter at which it raises
    MaxFull,        \* the same of subscribe_full
    MaxPending,     \* the same of get_pending_transactions_light
    MaxAbnormal     \* bound: closures with code 1006, which are not counted

ASSUME SupervisionAssumption ==
    /\ Light \subseteq STRING
    /\ Light \cap {"header", "pending", "idle", "receipts"} = {}
    /\ MaxLight \in Nat /\ MaxLight > 1
    /\ MaxFull \in Nat \ {0}
    /\ MaxPending \in Nat \ {0}
    /\ MaxAbnormal \in Nat

Tasks == Light \cup {"header", "pending", "idle", "receipts"}

VARIABLES
    at,             \* where each task is
    counter,
    abnormal,       \* history: closures with code 1006
    failures,       \* history: the other exceptions of each task
    ended           \* gather has raised

vars == <<at, counter, abnormal, failures, ended>>

Goto(t, place) == at' = [at EXCEPT ![t] = place]

Count(t) == counter' = [counter EXCEPT ![t] = @ + 1]

Failed(t) == failures' = [failures EXCEPT ![t] = @ + 1]

-----------------------------------------------------------------------------
Init ==
    /\ at = [t \in Tasks |-> CASE t = "idle" -> "up"
                               [] t = "receipts" -> "connecting"
                               [] OTHER -> "top"]
    /\ counter = [t \in Tasks |-> 0]
    /\ abnormal = 0
    /\ failures = [t \in Tasks |-> 0]
    /\ ended = FALSE

checked_later(t) ==
    /\ ~ended /\ t \in Light /\ at[t] = "top"
    /\ Count(t)
    /\ Goto(t, IF counter[t] >= MaxLight THEN "raised" ELSE "connecting")
    /\ UNCHANGED <<abnormal, failures, ended>>

\* The top of the loop: the first try is counted as well.
subscribe_event_light(t) ==
    /\ ~ended /\ t \in Light /\ at[t] = "top"
    /\ Count(t)
    /\ Goto(t, IF counter[t] + 1 >= MaxLight THEN "raised" ELSE "connecting")
    /\ UNCHANGED <<abnormal, failures, ended>>

light_returns(t) ==
    /\ ~ended /\ t \in Light /\ at[t] \in {"connecting", "up"}
    /\ Goto(t, "returned")
    /\ Failed(t)
    /\ UNCHANGED <<counter, abnormal, ended>>

light_fails(t) ==
    /\ ~ended /\ t \in Light /\ at[t] \in {"connecting", "up"}
    /\ Goto(t, "top")
    /\ Failed(t)
    /\ UNCHANGED <<counter, abnormal, ended>>

subscribe_full ==
    /\ ~ended /\ at["header"] = "top"
    /\ Goto("header", IF counter["header"] >= MaxFull THEN "raised" ELSE "connecting")
    /\ UNCHANGED <<counter, abnormal, failures, ended>>

full_fails ==
    /\ ~ended /\ at["header"] \in {"connecting", "up"}
    /\ Goto("header", "top")
    /\ Count("header")
    /\ Failed("header")
    /\ UNCHANGED <<abnormal, ended>>

\* "1006" in the text of the exception.
full_closed_abnormally ==
    /\ ~ended /\ at["header"] \in {"connecting", "up"}
    /\ abnormal < MaxAbnormal
    /\ abnormal' = abnormal + 1
    /\ Goto("header", "top")
    /\ UNCHANGED <<counter, failures, ended>>

get_pending_transactions_light ==
    /\ ~ended /\ at["pending"] = "top"
    /\ Count("pending")
    /\ Goto("pending", "connecting")
    /\ UNCHANGED <<abnormal, failures, ended>>

pending_never_raises ==
    /\ ~ended /\ at["pending"] \in {"connecting", "up"}
    /\ Goto("pending", "top")
    /\ Failed("pending")
    /\ UNCHANGED <<counter, abnormal, ended>>

\* An hour without a message is not an exception: the loop goes on.
pending_fails ==
    /\ ~ended /\ at["pending"] \in {"connecting", "up"}
    /\ Goto("pending", IF counter["pending"] >= MaxPending THEN "raised" ELSE "top")
    /\ Failed("pending")
    /\ UNCHANGED <<counter, abnormal, ended>>

\* subscribe_to_node, and the like of it in the other tasks: the response to the
\* subscription has arrived.
subscribed(t) ==
    /\ ~ended /\ at[t] = "connecting"
    /\ Goto(t, "up")
    /\ UNCHANGED <<counter, abnormal, failures, ended>>

\* liquidation_idel raises whatever its callback raises.
idle_fails ==
    /\ ~ended /\ at["idle"] = "up"
    /\ Goto("idle", "raised")
    /\ Failed("idle")
    /\ UNCHANGED <<counter, abnormal, ended>>

\* tx_send_and_tracking_subscribe: connect is outside its try.
receipts_unreachable ==
    /\ ~ended /\ at["receipts"] = "connecting"
    /\ Goto("receipts", "raised")
    /\ Failed("receipts")
    /\ UNCHANGED <<counter, abnormal, ended>>

\* The subscription fails: logged, and the task returns.
receipts_refused ==
    /\ ~ended /\ at["receipts"] = "connecting"
    /\ Goto("receipts", "returned")
    /\ Failed("receipts")
    /\ UNCHANGED <<counter, abnormal, ended>>

\* The connection closes: every recv raises from now on, and txtracking_subscribe
\* logs that for ever.
receipts_closed ==
    /\ ~ended /\ at["receipts"] = "up"
    /\ Goto("receipts", "deaf")
    /\ Failed("receipts")
    /\ UNCHANGED <<counter, abnormal, ended>>

\* asyncio.gather
gather ==
    /\ ~ended
    /\ \E t \in Tasks : at[t] = "raised"
    /\ ended' = TRUE
    /\ UNCHANGED <<at, counter, abnormal, failures>>

LoopTop ==
    \/ \E t \in Light : subscribe_event_light(t)
    \/ subscribe_full
    \/ get_pending_transactions_light

Next ==
    \/ LoopTop
    \/ \E t \in Light : light_fails(t)
    \/ full_fails
    \/ full_closed_abnormally
    \/ pending_fails
    \/ \E t \in Tasks : subscribed(t)
    \/ idle_fails
    \/ receipts_unreachable
    \/ receipts_refused
    \/ receipts_closed
    \/ gather

Spec == Init /\ [][Next]_vars

\* A connection attempt ends one way or the other, and the loops go on: that is
\* the event loop's scheduling.  That the node accepts anything is not assumed.
Answered(t) ==
    \/ subscribed(t)
    \/ light_fails(t)
    \/ t = "header" /\ (full_fails \/ full_closed_abnormally)
    \/ t = "pending" /\ pending_fails

LiveSpec ==
    /\ Spec
    /\ \A t \in Light : WF_vars(subscribe_event_light(t))
    /\ WF_vars(subscribe_full)
    /\ WF_vars(get_pending_transactions_light)
    /\ \A t \in Light \cup {"header", "pending"} :
          WF_vars(at[t] = "connecting" /\ Answered(t))
    /\ WF_vars(gather)

-----------------------------------------------------------------------------
(* Properties *)

Places == {"top", "connecting", "up", "raised", "returned", "deaf"}

\* Types of the loops' states; no loop counts past its limit.
TypeOK ==
    /\ at \in [Tasks -> Places]
    /\ counter \in [Tasks -> Nat]
    /\ \A t \in Light : counter[t] <= MaxLight
    /\ counter["header"] <= MaxFull
    /\ counter["pending"] <= MaxPending
    /\ abnormal \in 0..MaxAbnormal
    /\ failures \in [Tasks -> Nat]
    /\ ended \in BOOLEAN

\* How many exceptions a task survives.
Budget(t) ==
    CASE t \in Light -> MaxLight - 2
      [] t = "header" -> MaxFull - 1
      [] t = "pending" -> MaxPending - 1
      [] OTHER -> 0

\* Although the three loops count in three ways, a task other than the receipts'
\* is out of its loop exactly when it has had one exception more than its budget,
\* over the whole life of the program, and the program ends for no other reason.
EndsOverBudget ==
    /\ \A t \in Tasks \ {"receipts"} :
          /\ at[t] = "raised" => failures[t] = Budget(t) + 1
          /\ failures[t] > Budget(t) => at[t] \in {"raised", "top"}
          /\ failures[t] <= Budget(t) + 1
    /\ ended => \E t \in Tasks : at[t] = "raised" /\ failures[t] > Budget(t)

\* Every subscription other than the receipts' is up for good in the end, or the
\* program has ended: none of them tries for ever, as long as the closures with
\* code 1006 end.
SettlesOrEnds ==
    <>[](ended \/ \A t \in Light \cup {"header", "pending"} : at[t] = "up")
=============================================================================
