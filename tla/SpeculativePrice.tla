-------------------------- MODULE SpeculativePrice --------------------------
(***************************************************************************)
(* What the price cache promises to the rest of the bot, whatever pending  *)
(* transactions, events and block headers do: every token has a settled    *)
(* price, the one the chain last reported to the bot, and a view, the      *)
(* price that health factors are computed with.  The view may run ahead of *)
(* the chain, but only of an open token, and a token is closed with its    *)
(* view at the settled price, whoever closes it.                           *)
(***************************************************************************)
CONSTANTS Tokens, Prices

VARIABLES
    view,       \* the price in use, per token
    settled,    \* the last price the chain reported to the bot, per token
    open        \* the tokens whose view is a speculation

vars == <<view, settled, open>>

Init ==
    /\ settled \in [Tokens -> Prices]
    /\ view = settled
    /\ open = {}

\* A pending oracle transaction moves the views of the tokens it feeds.
Speculate ==
    \E T \in SUBSET Tokens :
        /\ view' \in [Tokens -> Prices]
        /\ \A t \in Tokens \ T : view'[t] = view[t]
        /\ open' = open \cup T
        /\ UNCHANGED settled

\* The chain reports prices for the tokens of T: the only step that changes
\* settled prices.  It closes their speculations, right or wrong.
Settle ==
    \E T \in SUBSET Tokens :
        /\ settled' \in [Tokens -> Prices]
        /\ \A t \in Tokens \ T : settled'[t] = settled[t]
        /\ view' = [t \in Tokens |-> IF t \in T THEN settled'[t] ELSE view[t]]
        /\ open' = open \ T

\* Speculations that nobody confirmed are given up: back to the settled price.
Rollback ==
    \E T \in SUBSET open :
        /\ view' = [t \in Tokens |-> IF t \in T THEN settled[t] ELSE view[t]]
        /\ open' = open \ T
        /\ UNCHANGED settled

Next == Speculate \/ Settle \/ Rollback

Spec == Init /\ [][Next]_vars
=============================================================================
