------------------------------ MODULE MCRouter ------------------------------
(* Two listed tokens and two others; every pool may exist, some are lean,  *)
(* and one pair is spelled in the other order.                              *)
EXTENDS Router

CONSTANTS A, C, W, B

MCByNumber == <<A, W, C, B>>
MCByText == <<A, C, W, B>>

Weight(t) == CASE t = A -> 1000 [] t = C -> 300 [] t = W -> 900 [] t = B -> 700

MCReserves ==
    [pair \in Pairs |->
        [i \in 1..2 |->
            IF pair = {A, C} THEN 200
            ELSE Weight(SelectSeq(MCByNumber, LAMBDA t : t \in pair)[i])]]
=============================================================================
