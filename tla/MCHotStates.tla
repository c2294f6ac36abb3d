---------------------------- MODULE MCHotStates -----------------------------
(* Small instances of HotStates: a selected user, one the full states know  *)
(* and did not select, and a ctoken contract, which they never know.         *)
EXTENDS HotStates, TLC

CONSTANTS rich, poor, vToken, r1, r2

Owns(c, m, d, i) ==
    [col_amount |-> c, is_col_liq |-> m, debt_amount |-> d, debt_interest |-> i]

MCBalances ==
    (rich :> (r1 :> Owns(2, 1, 1, 1) @@ r2 :> new_reserve)) @@
    (poor :> (r1 :> Owns(1, 1, 1, 1) @@ r2 :> Owns(1, 0, 0, 0))) @@
    (vToken :> (r1 :> new_reserve @@ r2 :> new_reserve))
=============================================================================
