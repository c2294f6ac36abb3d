---------------------------- MODULE MCPriceCache ----------------------------
(* Small instances of PriceCache: two aggregators, one of which feeds two   *)
(* tokens with different decimals.                                          *)
EXTENDS PriceCache, TLC

CONSTANTS a1, a2, t1, t2, t3

MCSource == (t1 :> a1) @@ (t2 :> a1) @@ (t3 :> a2)
MCPlace == (t1 :> 0) @@ (t2 :> 1) @@ (t3 :> 0)
MCMultiplier == (t1 :> 10) @@ (t2 :> 1) @@ (t3 :> 1)
MCInitAnswer == (a1 :> 2) @@ (a2 :> 3)

Transmit(a, g, e, o) ==
    [to |-> a, transmit |-> TRUE, gas |-> g, epoch |-> e, obs |-> o,
     encodes |-> TRUE]

\* Two rounds of one aggregator, the second at a gas price that is just
\* acceptable; a report of zero for two tokens, which is never mined; three that
\* reach the bot and carry no price it can use: without observations and
\* acceptable only before the first header, one that cannot be encoded again,
\* and a call of another method.
MCReports ==
    { Transmit(a1, 10, 1, <<1, 3>>), Transmit(a1, 9, 2, <<1, 4, 5>>),
      Transmit(a1, 10, 1, <<0>>),
      Transmit(a1, 8, 2, <<>>),
      [Transmit(a1, 10, 2, <<5>>) EXCEPT !.encodes = FALSE],
      [Transmit(a2, 10, 3, <<4>>) EXCEPT !.transmit = FALSE] }

=============================================================================
