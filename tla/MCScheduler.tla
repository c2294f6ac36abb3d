---------------------------- MODULE MCScheduler -----------------------------
(* Three users and two aggregators, one of which concerns all of them; pt   *)
(* computes one user itself, so a longer list leaves a rest.  The rounds of *)
(* the idle task are checked with the numbers of the code, a block every 3  *)
(* seconds and 10 slices, and every length up to a bound.                   *)
EXTENDS Scheduler

MCUserLst == <<1, 2, 3>>

\* With two aggregators and 20 blocks a minute only the second is ever rebuilt.
MCAggrLst == <<"b", "a">>

\* The first user has not all reserves yet: a log may give it the other aggregator's,
\* while it is near or by the log that brings it there.
MCInitHolds == <<{"a"}, {"a", "b"}, {"a", "b"}>>

\* One user that a liquidation may take already and two near ones.
MCInitHf == <<95, 105, 105>>
=============================================================================
